----------------------------- MODULE CallsProofs -----------------------------
(***************************************************************************)
(* Proofs about the windows of calls, for any number of calls:             *)
(*                                                                         *)
(* - the outgoing sound and the timer follow the call (CallWindow);        *)
(* - the user is alone in a call unless one was called by hand during      *)
(*   another (CallWindow);                                                 *)
(* - the camera films only where the user sees it, and the channel sends    *)
(*   what the camera's button says (CallCamera).                            *)
(***************************************************************************)
EXTENDS CallWindow, CallCamera, FiniteSetTheorems, SequenceTheorems, TLAPS

-----------------------------------------------------------------------------
(* CallWindow.  The types, with those of the two records.                   *)
ChannelsTyped ==
  /\ chan \in [Channels -> [state : ChannelStates, outgoing : BOOLEAN]]
  /\ cdo \in [Channels -> Operations]
  /\ asked \subseteq {"accept", "hangup", "close"} \X Channels
  /\ bells \subseteq Channels /\ observed \subseteq {c \in Channels : Alive(c)}
  /\ other \in BOOLEAN /\ wild \in BOOLEAN

Windows ==
  [open : BOOLEAN, state : WindowStates, hangup : BOOLEAN, ring : BOOLEAN, timer : BOOLEAN,
   playing : BOOLEAN, startWhenPlaying : BOOLEAN, dialog : {"none", "up", "dangling"},
   pending : Channels \union {None}, crossed : BOOLEAN]

Handlers ==
  [call : Channels \union {None}, waiting : BOOLEAN, requesting : BOOLEAN,
   tf : Channels \union {None}, tfPending : SUBSET Channels]

RecordsTyped == win \in Windows /\ handler \in Handlers

(* A closed window has no handler and nothing of a call.                    *)
HandlerIsOfWindow ==
  /\ handler.call # None => win.open /\ Alive(handler.call)
  /\ handler.requesting => win.open
  /\ ~wild /\ (bells # {} \/ win.dialog # "none") => win.open

(* Nothing waits for the pipeline but a call; and while one is offered, the *)
(* window has none of its own.                                              *)
WaitingToStart == win.startWhenPlaying /\ ~win.playing

OfferedAlone ==
  /\ ~wild /\ win.dialog # "none" => bells # {}
  /\ ~win.crossed =>
       /\ WaitingToStart => win.state \in {"connecting", "connected"}
       /\ bells # {} => /\ win.state \in {"ringing", "disconnected"}
                        /\ handler.call = None /\ ~handler.requesting

FollowsCall ==
  /\ win.state = "connected" => win.hangup
  /\ ~win.crossed => /\ win.ring => win.state = "connecting"
                     /\ win.timer <=> win.state = "connected"

CallInv ==
  ChannelsTyped /\ RecordsTyped /\ HandlerIsOfWindow /\ OfferedAlone /\ FollowsCall

(* What the observer lets through is one call at a time, and only a call    *)
(* from here escapes it.                                                    *)
ObservedAlone ==
  /\ \A c \in Channels : Alive(c) /\ ~chan[c].outgoing => c \in observed
  /\ \A c, d \in observed : chan[c].state # "ended" /\ chan[d].state # "ended" => c = d
  /\ \A c \in observed : other => chan[c].state = "ended"

(* The steps of which the window and its handler hear nothing.              *)
LEMMA QuietSteps ==
  ASSUME CallInv, CallAssumption, ~wild, NEW c \in Channels,
         ContactCalls(c) \/ AnswerElsewhere(c) \/ UserCalls(c) \/ OtherCall \/ HangUp
  PROVE  CallInv'
<1>1. ChannelsTyped /\ RecordsTyped /\ HandlerIsOfWindow /\ OfferedAlone /\ FollowsCall
  BY DEF CallInv
<1>2. UNCHANGED <<win, handler, bells, wild>>
  BY DEF ContactCalls, AnswerElsewhere, UserCalls, OtherCall, HangUp
<1>3. RecordsTyped' /\ OfferedAlone' /\ FollowsCall'
  BY <1>1, <1>2 DEF RecordsTyped, OfferedAlone, FollowsCall, WaitingToStart
<1>4. ChannelsTyped' /\ \A d \in Channels : Alive(d) => Alive(d)'
  <2>1. CASE ContactCalls(c)
    <3>1. PICK s \in {"initialising", "initialised"} :
            chan' = [chan EXCEPT ![c] = [state |-> s, outgoing |-> FALSE]]
      BY <2>1 DEF ContactCalls
    <3>2. chan[c].state = "none" /\ observed' \subseteq observed \union {c}
      BY <2>1 DEF ContactCalls, Fresh, Observe
    <3>3. cdo' = [cdo EXCEPT ![c] = "observed"] /\ UNCHANGED <<asked, other>>
      BY <2>1 DEF ContactCalls
    <3>4. Alive(c)' /\ \A d \in Channels : Alive(d) => Alive(d)'
      BY <1>1, <3>1, <3>2 DEF ChannelsTyped, Alive
    <3> QED BY <1>1, <1>2, <3>1, <3>2, <3>3, <3>4 DEF ChannelsTyped, ChannelStates, Operations
  <2>2. CASE UserCalls(c)
    <3>1. chan' = [chan EXCEPT ![c] = [state |-> "initiator", outgoing |-> TRUE]]
      BY <2>2 DEF UserCalls, NewCall
    <3>2. chan[c].state = "none" /\ observed' \subseteq observed \union {c}
      BY <2>2 DEF UserCalls, NewCall, Fresh, Observe
    <3>3. cdo' = [cdo EXCEPT ![c] = "handle late"] /\ UNCHANGED <<asked, other>>
      BY <2>2 DEF UserCalls
    <3>4. Alive(c)' /\ \A d \in Channels : Alive(d) => Alive(d)'
      BY <1>1, <3>1, <3>2 DEF ChannelsTyped, Alive
    <3> QED BY <1>1, <1>2, <3>1, <3>2, <3>3, <3>4 DEF ChannelsTyped, ChannelStates, Operations
  <2>3. CASE AnswerElsewhere(c)
    BY <1>1, <2>3 DEF AnswerElsewhere, ChannelsTyped, Alive, Operations
  <2>4. CASE OtherCall
    BY <1>1, <2>4 DEF OtherCall, ChannelsTyped, Alive
  <2>5. CASE HangUp
    BY <1>1, <2>5 DEF HangUp, ChannelsTyped, RecordsTyped, Handlers, Alive
  <2> QED BY <2>1, <2>2, <2>3, <2>4, <2>5
<1>5. HandlerIsOfWindow'
  BY <1>1, <1>2, <1>4 DEF HandlerIsOfWindow, RecordsTyped, Handlers
<1> QED BY <1>3, <1>4, <1>5 DEF CallInv

(* A call is offered to the window, and the user answers or closes the      *)
(* dialog, or the operation ends.                                           *)
LEMMA OfferSteps ==
  ASSUME CallInv, CallAssumption, ~wild, NEW c \in Channels,
         Offer(c) \/ AnswerDialog \/ RejectDialog \/ CloseDialog \/ FinishOperation(c)
  PROVE  CallInv'
<1>1. ChannelsTyped /\ RecordsTyped /\ HandlerIsOfWindow /\ OfferedAlone /\ FollowsCall
  BY DEF CallInv
<1>2. UNCHANGED <<chan, observed, other, handler>>
  BY DEF Offer, AnswerDialog, RejectDialog, CloseDialog, FinishOperation
<1>3. ChannelsTyped'
  <2>1. cdo' \in [Channels -> Operations]
    <3>1. {"offered", "handle", "handle late", "done"} \subseteq Operations
      BY DEF Operations
    <3>2. cdo \in [Channels -> Operations]
      BY <1>1 DEF ChannelsTyped
    <3>3. CASE AnswerDialog
      BY <3>1, <3>2, <3>3 DEF AnswerDialog
    <3>4. CASE FinishOperation(c)
      BY <3>1, <3>2, <3>4 DEF FinishOperation
    <3> QED BY <3>1, <3>2, <3>3, <3>4 DEF Offer, RejectDialog, CloseDialog
  <2>2. asked' \subseteq {"accept", "hangup", "close"} \X Channels
    <3>1. asked \subseteq {"accept", "hangup", "close"} \X Channels
      BY <1>1 DEF ChannelsTyped
    <3>2. CASE RejectDialog
      <4>1. win.pending # None => win.pending \in Channels
        BY <1>1 DEF RecordsTyped, Windows
      <4>2. asked' \subseteq asked \union {<<"close", win.pending>>} /\ (win.pending = None => asked' = asked)
        BY <3>2 DEF RejectDialog
      <4> QED BY <3>1, <4>1, <4>2
    <3>3. CASE ~RejectDialog
      BY <3>1, <3>3 DEF Offer, AnswerDialog, CloseDialog, FinishOperation
    <3> QED BY <3>2, <3>3
  <2>3. bells' \subseteq Channels /\ wild' \in BOOLEAN
    BY ZenonT(60), <1>1 DEF Offer, AnswerDialog, RejectDialog, CloseDialog, FinishOperation, ChannelsTyped
  <2> QED BY <1>1, <1>2, <2>1, <2>2, <2>3 DEF ChannelsTyped, Alive
<1>4. CASE Offer(c)
  <2>1. CASE win' = win /\ bells' = bells
    BY <1>1, <1>2, <1>3, <2>1
       DEF CallInv, RecordsTyped, HandlerIsOfWindow, OfferedAlone, FollowsCall, WaitingToStart, Alive
  <2>2. CASE ~(win' = win /\ bells' = bells)
    <3>1. /\ win.open /\ win.pending = None /\ win.state # "connected"
          /\ win' = [win EXCEPT !.state = "ringing", !.dialog = "up", !.pending = c,
                                !.crossed = @ \/ Busy]
          /\ bells' = bells \union {c} /\ wild' = wild
      BY <1>4, <2>2 DEF Offer
    <3>2. win' \in Windows
      BY <1>1, <3>1 DEF RecordsTyped, Windows, WindowStates
    <3>3. /\ win'.open /\ win'.state = "ringing" /\ win'.ring = win.ring /\ win'.timer = win.timer
          /\ win'.hangup = win.hangup /\ win'.playing = win.playing /\ win'.startWhenPlaying = win.startWhenPlaying
      BY <1>1, <3>1 DEF RecordsTyped, Windows
    <3>4. ~win'.crossed => ~win.crossed /\ ~Busy
      BY <1>1, <3>1 DEF RecordsTyped, Windows
    <3>5. OfferedAlone' /\ FollowsCall'
      BY <1>1, <1>2, <3>1, <3>3, <3>4 DEF OfferedAlone, FollowsCall, WaitingToStart, Busy
    <3>6. HandlerIsOfWindow'
      BY <1>1, <1>2, <3>3 DEF HandlerIsOfWindow, Alive
    <3> QED BY <1>1, <1>2, <1>3, <3>2, <3>5, <3>6 DEF CallInv, RecordsTyped
  <2> QED BY <2>1, <2>2
<1>5. CASE AnswerDialog \/ CloseDialog
  <2>1. /\ win' = [win EXCEPT !.pending = None] \/ win' = [win EXCEPT !.dialog = "dangling"]
        /\ UNCHANGED <<bells, wild>> /\ win.dialog = "up"
    BY <1>5 DEF AnswerDialog, CloseDialog, DialogUp
  <2>2. win' \in Windows
    BY <1>1, <2>1 DEF RecordsTyped, Windows
  <2>3. /\ win'.open = win.open /\ win'.state = win.state /\ win'.ring = win.ring
        /\ win'.hangup = win.hangup /\ win'.timer = win.timer /\ win'.playing = win.playing
        /\ win'.startWhenPlaying = win.startWhenPlaying /\ win'.crossed = win.crossed
    BY <1>1, <2>1 DEF RecordsTyped, Windows
  <2> QED BY <1>1, <1>2, <1>3, <2>1, <2>2, <2>3
             DEF CallInv, RecordsTyped, HandlerIsOfWindow, OfferedAlone, FollowsCall, WaitingToStart, Alive
<1>6. CASE RejectDialog
  <2>1. /\ win' = [win EXCEPT !.state = "disconnected"] /\ UNCHANGED <<bells, wild>>
        /\ win.dialog = "up"
    BY <1>6 DEF RejectDialog, DialogUp
  <2>2. win' \in Windows
    BY <1>1, <2>1 DEF RecordsTyped, Windows, WindowStates
  <2>3. /\ win'.open = win.open /\ win'.state = "disconnected" /\ win'.ring = win.ring
        /\ win'.hangup = win.hangup /\ win'.timer = win.timer /\ win'.playing = win.playing /\ win'.dialog = win.dialog
        /\ win'.startWhenPlaying = win.startWhenPlaying /\ win'.crossed = win.crossed
    BY <1>1, <2>1 DEF RecordsTyped, Windows
  <2>4. HandlerIsOfWindow'
    BY <1>1, <1>2, <2>1, <2>3 DEF HandlerIsOfWindow, Alive
  <2>5. OfferedAlone' /\ FollowsCall'
    BY <1>1, <1>2, <2>1, <2>3 DEF OfferedAlone, FollowsCall, WaitingToStart
  <2> QED BY <1>1, <1>2, <1>3, <2>2, <2>4, <2>5 DEF CallInv, RecordsTyped
<1>7. CASE FinishOperation(c)
  <2>1. CASE win' = win
    <3>1. bells' \subseteq bells /\ (~wild' => win.dialog = "none" \/ bells' = bells) /\ (wild => wild')
      BY <1>1, <1>7, <2>1 DEF FinishOperation, RecordsTyped, Windows
    <3> QED BY <1>1, <1>2, <1>3, <2>1, <3>1
               DEF CallInv, RecordsTyped, HandlerIsOfWindow, OfferedAlone, FollowsCall, WaitingToStart, Alive
  <2>2. CASE win' # win
    <3>1. /\ c \in bells /\ bells' \subseteq bells /\ wild' = wild
          /\ win' = [win EXCEPT !.state = "disconnected", !.dialog = "none", !.pending = None]
      BY <1>7, <2>2 DEF FinishOperation
    <3>2. win' \in Windows
      BY <1>1, <3>1 DEF RecordsTyped, Windows, WindowStates
    <3>3. /\ win'.open = win.open /\ win'.state = "disconnected" /\ win'.ring = win.ring
          /\ win'.hangup = win.hangup /\ win'.timer = win.timer /\ win'.playing = win.playing /\ win'.dialog = "none"
          /\ win'.startWhenPlaying = win.startWhenPlaying /\ win'.crossed = win.crossed
      BY <1>1, <3>1 DEF RecordsTyped, Windows
    <3>4. HandlerIsOfWindow'
      BY <1>1, <1>2, <3>1, <3>3 DEF HandlerIsOfWindow, Alive
    <3>5. OfferedAlone' /\ FollowsCall'
      BY <1>1, <1>2, <3>1, <3>3 DEF OfferedAlone, FollowsCall, WaitingToStart
    <3> QED BY <1>1, <1>2, <1>3, <3>2, <3>4, <3>5 DEF CallInv, RecordsTyped
  <2> QED BY <2>1, <2>2
<1> QED BY <1>4, <1>5, <1>6, <1>7

(* What start_call () does with a handler.                                  *)
LEMMA StartCallTyped ==
  ASSUME NEW h \in Handlers, CallAssumption
  PROVE  /\ StartCall(h) \in Handlers /\ StartCall(h).call = h.call
         /\ AcceptNow(h) \subseteq {"accept", "hangup", "close"} \X Channels
<1>1. h.call # None => h.call \in Channels
  BY DEF Handlers
<1>2. AcceptNow(h) \subseteq {<<"accept", h.call>>} /\ (h.call = None => AcceptNow(h) = {})
  BY DEF AcceptNow, AcceptsNow
<1>3. AcceptsNow(h) \in BOOLEAN
  BY DEF AcceptsNow
<1>4. StartCall(h) \in Handlers /\ StartCall(h).call = h.call
  <2>1. CASE h.call = None
    BY <2>1 DEF StartCall, Handlers
  <2>2. CASE h.call # None
    <3>1. StartCall(h) = [h EXCEPT !.tfPending = @ \union {h.call}, !.waiting = @ \/ ~AcceptsNow(h)]
      BY <2>2 DEF StartCall
    <3>2. /\ h.call \in Channels /\ h.tf \in Channels \union {None} /\ h.requesting \in BOOLEAN
          /\ h.tfPending \union {h.call} \subseteq Channels
      BY <1>1, <2>2 DEF Handlers
    <3>3. (h.waiting \/ ~AcceptsNow(h)) \in BOOLEAN
      OBVIOUS
    <3> QED BY <3>1, <3>2, <3>3 DEF Handlers
  <2> QED BY <2>1, <2>2
<1> QED BY <1>1, <1>2, <1>4

(* A call (re)starts: the window dials, and rings.                          *)
LEMMA Restarted ==
  ASSUME CallInv, CallAssumption, ~wild, win.open, win.state # "connected", NEW h \in Handlers,
         h.call # None => Alive(h.call), Restart(win, h), wild' \in BOOLEAN,
         UNCHANGED <<chan, observed, other, bells>>, cdo' \in [Channels -> Operations]
  PROVE  CallInv'
<1>1. ChannelsTyped /\ RecordsTyped /\ HandlerIsOfWindow /\ OfferedAlone /\ FollowsCall
  BY DEF CallInv
<1>2. /\ win' = [win EXCEPT !.state = "connecting", !.ring = TRUE, !.hangup = TRUE,
                            !.startWhenPlaying = @ \/ ~win.playing, !.crossed = @ \/ bells # {}]
      /\ handler' = IF win.playing THEN StartCall(h) ELSE h
      /\ asked' = IF win.playing THEN asked \cup AcceptNow(h) ELSE asked
  BY DEF Restart
<1>3. win' \in Windows
  BY ZenonT(60), <1>1, <1>2 DEF RecordsTyped, Windows, WindowStates
<1>4. /\ win'.open /\ win'.state = "connecting" /\ win'.ring /\ win'.hangup /\ win'.timer = win.timer
      /\ win'.dialog = win.dialog
  BY <1>1, <1>2 DEF RecordsTyped, Windows
<1>5. win'.crossed = (win.crossed \/ bells # {})
  BY <1>1, <1>2 DEF RecordsTyped, Windows
<1>6. handler' \in Handlers /\ handler'.call = h.call
  BY <1>2, StartCallTyped
<1>7. ChannelsTyped'
  <2>1. asked' \subseteq {"accept", "hangup", "close"} \X Channels
    BY <1>1, <1>2, StartCallTyped DEF ChannelsTyped
  <2> QED BY <1>1, <2>1 DEF ChannelsTyped, Alive
<1>8. HandlerIsOfWindow'
  BY <1>4, <1>6 DEF HandlerIsOfWindow, Alive
<1>9. OfferedAlone'
  BY <1>1, <1>4, <1>5 DEF OfferedAlone
<1>10. FollowsCall'
  BY <1>1, <1>4, <1>5 DEF FollowsCall
<1> QED BY <1>3, <1>6, <1>7, <1>8, <1>9, <1>10 DEF CallInv, RecordsTyped

(* The window is disconnected while its handler keeps or loses its call.    *)
LEMMA DisconnectedKeeps ==
  ASSUME CallInv, win' = Disconnected(win), UNCHANGED <<bells, wild>>, handler' \in Handlers,
         handler'.call \in {None, handler.call}, handler'.requesting = handler.requesting
  PROVE  RecordsTyped' /\ OfferedAlone' /\ FollowsCall' /\ win'.open = win.open /\ win'.dialog = win.dialog
<1>1. RecordsTyped /\ OfferedAlone /\ FollowsCall
  BY DEF CallInv
<1>2. win' \in Windows
  BY ZenonT(60), <1>1 DEF RecordsTyped, Windows, WindowStates, Disconnected
<1>3. /\ win'.open = win.open /\ win'.dialog = win.dialog /\ win'.crossed = win.crossed
      /\ win'.state = "disconnected" /\ ~win'.timer /\ ~win'.startWhenPlaying
      /\ win'.ring => win.ring /\ win.state # "connecting"
  BY <1>1 DEF RecordsTyped, Windows, Disconnected
<1>4. OfferedAlone'
  BY <1>1, <1>3 DEF OfferedAlone, WaitingToStart
<1>5. FollowsCall'
  BY <1>1, <1>3 DEF FollowsCall
<1> QED BY <1>2, <1>3, <1>4, <1>5 DEF RecordsTyped

(* A call is given to the window, redialled or left.                        *)
LEMMA WindowSteps ==
  ASSUME CallInv, CallAssumption, ~wild, NEW c \in Channels,
         HandleChannels(c) \/ Redial \/ CloseWindow
  PROVE  CallInv'
<1>1. ChannelsTyped /\ RecordsTyped /\ HandlerIsOfWindow /\ OfferedAlone /\ FollowsCall
  BY DEF CallInv
<1>2. CASE Redial
  <2>1. /\ Restart(win, handler) /\ win.open /\ ~win.hangup
        /\ UNCHANGED <<chan, cdo, observed, other, bells, wild>>
    BY <1>2 DEF Redial, UI
  <2>2. /\ win.state # "connected" /\ handler \in Handlers /\ (handler.call # None => Alive(handler.call))
        /\ wild' \in BOOLEAN /\ cdo' \in [Channels -> Operations]
    BY <1>1, <2>1 DEF FollowsCall, RecordsTyped, HandlerIsOfWindow, ChannelsTyped
  <2> QED BY <2>1, <2>2, Restarted
<1>3. CASE CloseWindow
  <2>1. /\ win' = NoWindow /\ handler' = NoHandler /\ UNCHANGED <<chan, cdo, observed, other, bells>>
        /\ wild' = (InFlight(handler) \/ bells # {})
        /\ asked' = IF handler.call = None THEN asked ELSE asked \cup {<<"hangup", handler.call>>}
    BY <1>3 DEF CloseWindow
  <2>2. win' \in Windows /\ handler' \in Handlers
    BY <2>1 DEF NoWindow, NoHandler, Windows, Handlers, WindowStates
  <2>3. /\ ~win'.ring /\ ~win'.timer /\ win'.state = "disconnected" /\ win'.dialog = "none"
        /\ ~win'.startWhenPlaying /\ handler'.call = None /\ ~handler'.requesting
    BY <2>1 DEF NoWindow, NoHandler
  <2>4. ChannelsTyped'
    <3>1. handler.call # None => handler.call \in Channels
      BY <1>1 DEF RecordsTyped, Handlers
    <3>2. asked' \subseteq {"accept", "hangup", "close"} \X Channels
      BY <1>1, <2>1, <3>1 DEF ChannelsTyped
    <3>3. wild' \in BOOLEAN
      BY <1>1, <2>1 DEF InFlight, RecordsTyped, Handlers
    <3> QED BY <1>1, <2>1, <3>2, <3>3 DEF ChannelsTyped, Alive
  <2>5. HandlerIsOfWindow' /\ OfferedAlone' /\ FollowsCall'
    BY <2>1, <2>3 DEF HandlerIsOfWindow, OfferedAlone, FollowsCall, WaitingToStart
  <2> QED BY <2>2, <2>4, <2>5 DEF CallInv, RecordsTyped
<1>4. CASE HandleChannels(c)
  <2> DEFINE dropped == Alive(c) /\ win.open /\ win.state # "disconnected"
  <2>1. cdo' \in [Channels -> Operations] /\ UNCHANGED <<chan, observed, other, bells>>
    <3>1. {"dropped", "handled", "done"} \subseteq Operations
      BY DEF Operations
    <3>2. cdo \in [Channels -> Operations]
      BY <1>1 DEF ChannelsTyped
    <3>3. cdo' = [cdo EXCEPT ![c] = IF dropped THEN "dropped"
                               ELSE IF @ = "handle" THEN "handled" ELSE "done"]
      BY <1>4 DEF HandleChannels
    <3> HIDE DEF dropped
    <3>4. cdo' \in [Channels -> Operations]
      BY <3>1, <3>2, <3>3
    <3> QED BY <1>4, <3>4 DEF HandleChannels
  <2>2. CASE dropped \/ ~Alive(c)
    <3>1. UNCHANGED <<win, handler, asked, wild>>
      BY <1>4, <2>2 DEF HandleChannels
    <3> QED BY <1>1, <2>1, <3>1 DEF CallInv, ChannelsTyped, RecordsTyped, HandlerIsOfWindow,
                                    OfferedAlone, FollowsCall, WaitingToStart, Alive
  <2>3. NewHandler(c) \in Handlers /\ NewHandler(c).call = c /\ ~NewHandler(c).requesting
    BY DEF NewHandler, NoHandler, Handlers
  <2>4. CASE ~(dropped \/ ~Alive(c)) /\ win.open
    <3>1. /\ Restart(win, NewHandler(c)) /\ wild' = InFlight(handler) /\ Alive(c)
          /\ win.state = "disconnected"
      BY <1>4, <2>4 DEF HandleChannels
    <3>2. wild' \in BOOLEAN
      BY <1>1, <3>1 DEF InFlight, RecordsTyped, Handlers
    <3> QED BY <2>1, <2>3, <2>4, <3>1, <3>2, Restarted
  <2>5. CASE ~(dropped \/ ~Alive(c)) /\ ~win.open
    <3>1. /\ win' = [NoWindow EXCEPT !.open = TRUE, !.state = "connecting",
                                     !.ring = chan[c].state = "initiator",
                                     !.startWhenPlaying = TRUE]
          /\ handler' = NewHandler(c) /\ UNCHANGED <<asked, wild>> /\ Alive(c)
      BY <1>4, <2>5 DEF HandleChannels
    <3>2. win' \in Windows
      BY <3>1 DEF NoWindow, Windows, WindowStates
    <3>3. win'.open /\ win'.state = "connecting" /\ ~win'.timer /\ win'.dialog = "none"
      BY <3>1 DEF NoWindow
    <3>4. bells' = {}
      BY <1>1, <2>1, <2>5 DEF HandlerIsOfWindow
    <3>5. HandlerIsOfWindow' /\ OfferedAlone' /\ FollowsCall'
      BY <2>1, <2>3, <3>1, <3>3, <3>4 DEF HandlerIsOfWindow, OfferedAlone, FollowsCall, WaitingToStart, Alive
    <3>6. ChannelsTyped'
      BY <1>1, <2>1, <3>1 DEF ChannelsTyped, Alive
    <3> QED BY <2>3, <3>1, <3>2, <3>5, <3>6 DEF CallInv, RecordsTyped
  <2> QED BY <2>2, <2>4, <2>5
<1> QED BY <1>2, <1>3, <1>4

(* The pipeline, and the answers to what the handler asked.                 *)
LEMMA CallbackSteps ==
  ASSUME CallInv, CallAssumption, ~wild, NEW c \in Channels,
         PipelineReady \/ PipelineError \/ RequestFails \/ FarstreamReady(c) \/ RequestReply(c)
  PROVE  CallInv'
<1>1. ChannelsTyped /\ RecordsTyped /\ HandlerIsOfWindow /\ OfferedAlone /\ FollowsCall
  BY DEF CallInv
<1>2. win \in Windows /\ handler \in Handlers
  BY <1>1 DEF RecordsTyped
<1>3. CASE PipelineReady
  <2>1. /\ win.open /\ ~win.playing /\ win' = [win EXCEPT !.playing = TRUE]
        /\ handler' = IF win.startWhenPlaying THEN StartCall(handler) ELSE handler
        /\ asked' = IF win.startWhenPlaying THEN asked \cup AcceptNow(handler) ELSE asked
        /\ UNCHANGED <<chan, cdo, observed, other, bells, wild>>
    BY <1>3 DEF PipelineReady
  <2>2. /\ win' \in Windows /\ win'.playing
        /\ win'.open = win.open /\ win'.state = win.state /\ win'.ring = win.ring
        /\ win'.timer = win.timer /\ win'.hangup = win.hangup /\ win'.dialog = win.dialog
        /\ win'.crossed = win.crossed
    BY <1>2, <2>1 DEF Windows
  <2>3. handler' \in Handlers /\ handler'.call = handler.call
    BY <1>2, <2>1, StartCallTyped
  <2>4. ChannelsTyped'
    <3>1. asked' \subseteq {"accept", "hangup", "close"} \X Channels
      BY <1>1, <1>2, <2>1, StartCallTyped DEF ChannelsTyped
    <3> QED BY <1>1, <2>1, <3>1 DEF ChannelsTyped, Alive
  <2>5. OfferedAlone' /\ FollowsCall'
    BY <1>1, <2>1, <2>2, <2>3 DEF OfferedAlone, FollowsCall, WaitingToStart
  <2>6. HandlerIsOfWindow'
    BY <1>1, <2>1, <2>2, <2>3 DEF HandlerIsOfWindow, Alive
  <2> QED BY <2>2, <2>3, <2>4, <2>5, <2>6 DEF CallInv, RecordsTyped
<1>4. CASE PipelineError
  <2>1. /\ win' = Disconnected(win) /\ UNCHANGED <<chan, cdo, asked, observed, other, handler, bells, wild>>
    BY <1>4 DEF PipelineError
  <2>2. RecordsTyped' /\ OfferedAlone' /\ FollowsCall' /\ win'.open = win.open /\ win'.dialog = win.dialog
    BY <1>2, <2>1, DisconnectedKeeps
  <2> QED BY <1>1, <2>1, <2>2 DEF CallInv, ChannelsTyped, HandlerIsOfWindow, Alive
<1>5. CASE RequestFails \/ FarstreamReady(c)
  <2>1. /\ handler' \in Handlers /\ handler'.call = handler.call
        /\ handler'.requesting => handler.requesting
    BY <1>2, <1>5 DEF RequestFails, FarstreamReady, Handlers
  <2>2. /\ UNCHANGED <<chan, cdo, asked, observed, other, win, bells>> /\ wild' \in BOOLEAN
    BY <1>1, <1>5 DEF RequestFails, FarstreamReady, ChannelsTyped
  <2> QED BY <1>1, <2>1, <2>2 DEF CallInv, ChannelsTyped, RecordsTyped, HandlerIsOfWindow,
                                  OfferedAlone, FollowsCall, WaitingToStart, Alive
<1>6. CASE RequestReply(c)
  <2>1. /\ handler.requesting /\ chan[c].state = "none" /\ UNCHANGED <<other, win, bells, wild>>
        /\ chan' = [chan EXCEPT ![c] = [state |-> "initiator", outgoing |-> TRUE]]
        /\ observed' \subseteq observed \union {c}
        /\ cdo' = [cdo EXCEPT ![c] = "done"]
        /\ handler' = [handler EXCEPT !.requesting = FALSE, !.call = c, !.tfPending = @ \cup {c}]
        /\ asked' = asked \cup {<<"accept", c>>}
    BY <1>6 DEF RequestReply, NewCall, Observe, Fresh
  <2>2. handler' \in Handlers /\ handler'.call = c /\ ~handler'.requesting
    BY <1>2, <2>1 DEF Handlers
  <2>3. Alive(c)' /\ \A d \in Channels : Alive(d) => Alive(d)'
    BY <1>1, <2>1 DEF ChannelsTyped, Alive
  <2>4. ChannelsTyped'
    <3>1. asked' \subseteq {"accept", "hangup", "close"} \X Channels
      BY <1>1, <2>1 DEF ChannelsTyped
    <3>2. chan' \in [Channels -> [state : ChannelStates, outgoing : BOOLEAN]]
      BY <1>1, <2>1 DEF ChannelsTyped, ChannelStates
    <3>3. cdo' \in [Channels -> Operations]
      BY <1>1, <2>1 DEF ChannelsTyped, Operations
    <3> QED BY <1>1, <2>1, <2>3, <3>1, <3>2, <3>3 DEF ChannelsTyped
  <2>5. HandlerIsOfWindow'
    BY <1>1, <2>1, <2>2, <2>3 DEF HandlerIsOfWindow
  <2>6. OfferedAlone' /\ FollowsCall'
    BY <1>1, <2>1, <2>2 DEF OfferedAlone, FollowsCall, WaitingToStart
  <2> QED BY <1>1, <2>1, <2>2, <2>4, <2>5, <2>6 DEF CallInv, RecordsTyped
<1> QED BY <1>3, <1>4, <1>5, <1>6

(* The channels go their way, and the window follows its own.               *)
LEMMA ChannelSteps ==
  ASSUME CallInv, CallAssumption, ~wild, NEW c \in Channels,
         Initialised(c) \/ CallAccepted(c) \/ CallEnds(c) \/ ChannelCloses(c)
  PROVE  CallInv'
<1>1. ChannelsTyped /\ RecordsTyped /\ HandlerIsOfWindow /\ OfferedAlone /\ FollowsCall
  BY DEF CallInv
<1>2. win \in Windows /\ handler \in Handlers
  BY <1>1 DEF RecordsTyped
<1>3. UNCHANGED <<cdo, other, bells, wild>>
  BY DEF Initialised, CallAccepted, CallEnds, ChannelCloses
<1>4. ChannelsTyped'
  <2>1. PICK s \in {"initialised", "accepted", "ended", "closed"} : chan' = [chan EXCEPT ![c].state = s]
    BY DEF Initialised, CallAccepted, CallEnds, ChannelCloses, Become
  <2>2. chan' \in [Channels -> [state : ChannelStates, outgoing : BOOLEAN]]
    BY <1>1, <2>1 DEF ChannelsTyped, ChannelStates
  <2>3. asked' \subseteq {"accept", "hangup", "close"} \X Channels
    <3>1. asked \subseteq {"accept", "hangup", "close"} \X Channels
      BY <1>1 DEF ChannelsTyped
    <3>2. asked' \subseteq asked \union {<<"accept", c>>, <<"close", c>>}
      BY DEF Initialised, HandlerInitialised, CallAccepted, CallEnds, ChannelCloses
    <3> QED BY <3>1, <3>2
  <2>4. observed' \subseteq {d \in Channels : Alive(d)}'
    <3>1. CASE ChannelCloses(c)
      BY <1>1, <3>1 DEF ChannelCloses, Become, ChannelsTyped, Alive
    <3>2. CASE Initialised(c) \/ CallAccepted(c) \/ CallEnds(c)
      <4>1. observed' = observed /\ \A d \in Channels : Alive(d) => Alive(d)'
        BY <1>1, <3>2 DEF Initialised, CallAccepted, CallEnds, Become, ChannelsTyped, Alive
      <4> QED BY <1>1, <4>1 DEF ChannelsTyped
    <3> QED BY <3>1, <3>2
  <2> QED BY <1>1, <1>3, <2>2, <2>3, <2>4 DEF ChannelsTyped
<1>5. CASE Initialised(c) \/ CallAccepted(c)
  <2>1. \A d \in Channels : Alive(d) => Alive(d)'
    BY <1>1, <1>5 DEF Initialised, CallAccepted, Become, ChannelsTyped, Alive
  <2>2. handler' \in Handlers /\ handler'.call = handler.call /\ handler'.requesting = handler.requesting
    BY <1>2, <1>5 DEF Initialised, CallAccepted, Handlers
  <2>3. CASE win' = win
    <3>1. RecordsTyped' /\ OfferedAlone' /\ FollowsCall'
      BY <1>1, <1>3, <2>2, <2>3 DEF RecordsTyped, OfferedAlone, FollowsCall, WaitingToStart
    <3>2. HandlerIsOfWindow'
      BY <1>1, <1>2, <1>3, <2>1, <2>2, <2>3 DEF HandlerIsOfWindow, Handlers
    <3> QED BY <1>4, <3>1, <3>2 DEF CallInv
  <2>4. CASE win' # win
    <3>1. handler.call = c /\ win' = Accepted(win)
      BY <1>5, <2>4 DEF Initialised, CallAccepted, Follows
    <3>2. win' \in Windows
      BY <1>2, <3>1 DEF Accepted, Windows, WindowStates
    <3>3. /\ win'.open = win.open /\ win'.dialog = win.dialog /\ win'.crossed = win.crossed
          /\ win'.state = "connected" /\ ~win'.ring /\ win'.timer /\ win'.hangup
      BY <1>2, <3>1 DEF Accepted, Windows
    <3>4. c # None
      BY DEF CallAssumption, Channels
    <3>5. OfferedAlone'
      BY <1>1, <1>3, <2>2, <3>1, <3>3, <3>4 DEF OfferedAlone
    <3>6. FollowsCall'
      BY <3>3 DEF FollowsCall
    <3>7. HandlerIsOfWindow'
      BY <1>1, <1>2, <1>3, <2>1, <2>2, <3>3 DEF HandlerIsOfWindow, Handlers
    <3> QED BY <1>4, <2>2, <3>2, <3>5, <3>6, <3>7 DEF CallInv, RecordsTyped
  <2> QED BY <2>3, <2>4
<1>6. CASE CallEnds(c) \/ ChannelCloses(c)
  <2>1. \A d \in Channels : d # c /\ Alive(d) => Alive(d)'
    BY <1>1, <1>6 DEF CallEnds, ChannelCloses, Become, ChannelsTyped, Alive
  <2>2. /\ handler' \in Handlers /\ handler'.requesting = handler.requesting
        /\ handler'.call \in {None, handler.call} /\ (handler.call = c => handler'.call = None)
    <3>1. \/ handler' = handler /\ handler.call # c
          \/ handler' = [handler EXCEPT !.tf = None] /\ handler.call # c
          \/ handler' = [handler EXCEPT !.call = None, !.waiting = FALSE, !.tf = None]
      BY <1>6 DEF CallEnds, ChannelCloses, Follows, Cleared
    <3> QED BY <1>2, <3>1 DEF Handlers
  <2>3. win' \in {win, Disconnected(win)}
    BY <1>6 DEF CallEnds, ChannelCloses
  <2>4. RecordsTyped' /\ OfferedAlone' /\ FollowsCall' /\ win'.open = win.open /\ win'.dialog = win.dialog
    <3>1. CASE win' = win
      BY <1>1, <1>3, <2>2, <3>1 DEF RecordsTyped, OfferedAlone, FollowsCall, WaitingToStart
    <3>2. CASE win' = Disconnected(win)
      BY <1>3, <2>2, <3>2, DisconnectedKeeps
    <3> QED BY <2>3, <3>1, <3>2
  <2>5. HandlerIsOfWindow'
    BY <1>1, <1>2, <1>3, <2>1, <2>2, <2>4 DEF HandlerIsOfWindow, Handlers
  <2> QED BY <1>4, <2>4, <2>5 DEF CallInv
<1> QED BY <1>5, <1>6

LEMMA CallInvStep == ASSUME CallInv, CallAssumption, [Next]_vars PROVE CallInv'
<1>1. CASE UNCHANGED vars
  BY <1>1 DEF vars, CallInv, ChannelsTyped, RecordsTyped, HandlerIsOfWindow, OfferedAlone,
              FollowsCall, WaitingToStart, Alive
<1>2. CASE ~wild /\ (OtherCall \/ HangUp \/ AnswerDialog \/ RejectDialog \/ CloseDialog \/ Redial
                     \/ CloseWindow \/ PipelineReady \/ PipelineError \/ RequestFails)
  <2>1. PICK c \in Channels : TRUE
    BY DEF CallAssumption, Channels
  <2> QED BY <1>2, <2>1, QuietSteps, OfferSteps, WindowSteps, CallbackSteps
<1>3. CASE ~wild /\ \E c \in Channels : ChannelNext(c)
  <2>1. PICK c \in Channels : ChannelNext(c)
    BY <1>3
  <2> QED BY <1>3, <2>1, QuietSteps, OfferSteps, WindowSteps, CallbackSteps, ChannelSteps DEF ChannelNext
<1> QED BY <1>1, <1>2, <1>3 DEF Next, UserNext

LEMMA CallInvStart == ASSUME Init PROVE CallInv
<1>1. ChannelsTyped
  BY DEF Init, ChannelsTyped, ChannelStates, Operations
<1>2. RecordsTyped
  BY DEF Init, NoWindow, NoHandler, RecordsTyped, Windows, Handlers, WindowStates
<1>3. HandlerIsOfWindow /\ OfferedAlone /\ FollowsCall
  BY DEF Init, NoWindow, NoHandler, HandlerIsOfWindow, OfferedAlone, FollowsCall, WaitingToStart
<1> QED BY <1>1, <1>2, <1>3 DEF CallInv

(* The outgoing sound and the timer follow the call: for any number of      *)
(* calls that end, are redialled or replaced in any order.                  *)
THEOREM SoundFollows == Spec => []SoundAndTimerFollowCall
<1>1. Init => CallInv
  BY CallInvStart
<1>2. CallInv /\ [Next]_vars => CallInv'
  BY CallInvStep, CallAssumption
<1>3. CallInv => SoundAndTimerFollowCall
  BY DEF CallInv, ChannelsTyped, RecordsTyped, HandlerIsOfWindow, FollowsCall, Windows,
         SoundAndTimerFollowCall, TypeOK
<1> QED BY <1>1, <1>2, <1>3, PTL DEF Spec

(* What the observer lets through, step by step.  A new channel is observed *)
(* if nothing is going on, and one that is going on never comes back.       *)
LEMMA NewIsObserved ==
  ASSUME ChannelsTyped, ObservedAlone, NEW c \in Channels, Fresh(c), Observe(c),
         NEW s, s.outgoing \/ ~HasOngoingCalls, chan' = [chan EXCEPT ![c] = s], other' = other
  PROVE  ObservedAlone'
<1>1. /\ chan[c].state = "none" /\ c \notin observed
      /\ chan'[c] = s /\ \A d \in Channels \ {c} : chan'[d] = chan[d]
  BY DEF Fresh, ChannelsTyped, Alive
<1>2. observed \subseteq Channels
  BY DEF ChannelsTyped
<1>3. CASE HasOngoingCalls
  BY <1>1, <1>2, <1>3 DEF Observe, ObservedAlone, Alive
<1>4. CASE ~HasOngoingCalls
  <2>1. observed' = observed \union {c} /\ ~other /\ \A d \in observed : chan[d].state = "ended"
    BY <1>4 DEF Observe, HasOngoingCalls
  <2> QED BY <1>1, <1>2, <2>1 DEF ObservedAlone, Alive
<1> QED BY <1>3, <1>4

LEMMA ObservedStep ==
  ASSUME ChannelsTyped, ObservedAlone, [Next]_vars
  PROVE  ObservedAlone'
<1>1. observed \subseteq Channels
  BY DEF ChannelsTyped
<1>2. CASE UNCHANGED <<chan, observed, other>>
  BY <1>2 DEF ObservedAlone, Alive
<1>3. CASE OtherCall
  BY <1>1, <1>3 DEF OtherCall, HasOngoingCalls, ObservedAlone, Alive
<1>4. ASSUME NEW c \in Channels, ContactCalls(c) \/ UserCalls(c) \/ RequestReply(c)
      PROVE  ObservedAlone'
  <2>1. Fresh(c) /\ Observe(c) /\ other' = other
    BY <1>4 DEF ContactCalls, UserCalls, RequestReply, NewCall
  <2>2. \E s : (s.outgoing \/ ~HasOngoingCalls) /\ chan' = [chan EXCEPT ![c] = s]
    BY <1>4 DEF ContactCalls, UserCalls, RequestReply, NewCall
  <2> QED BY <2>1, <2>2, NewIsObserved
<1>5. ASSUME NEW c \in Channels,
             Initialised(c) \/ CallAccepted(c) \/ CallEnds(c) \/ ChannelCloses(c)
      PROVE  ObservedAlone'
  <2>1. /\ chan[c].state # "none" /\ chan[c].state # "closed"
        /\ (chan[c].state = "ended" => chan'[c].state \in {"ended", "closed"})
        /\ chan'[c].outgoing = chan[c].outgoing
        /\ chan'[c].state # "closed" => observed' = observed
        /\ chan'[c].state = "closed" => observed' = observed \ {c}
        /\ other' = other
        /\ \A d \in Channels \ {c} : chan'[d] = chan[d]
    BY <1>5 DEF Initialised, CallAccepted, CallEnds, ChannelCloses, Become, ChannelsTyped, Alive
  <2> QED BY <1>1, <2>1 DEF ObservedAlone, Alive
<1> QED BY <1>2, <1>3, <1>4, <1>5
        DEF Next, UserNext, ChannelNext, vars, AnswerDialog, RejectDialog, CloseDialog, HangUp, Redial,
            CloseWindow, PipelineReady, PipelineError, RequestFails, Offer, AnswerElsewhere,
            FinishOperation, HandleChannels, FarstreamReady

(* Two calls go on at once only if one was called by hand during the other. *)
THEOREM CallsAlone == Spec => []AloneInCall
<1>1. Init => CallInv /\ ObservedAlone
  <2>1. Init => ObservedAlone
    BY DEF Init, ObservedAlone, Alive
  <2> QED BY <2>1, CallInvStart
<1>2. CallInv /\ ObservedAlone /\ [Next]_vars => (CallInv /\ ObservedAlone)'
  BY CallInvStep, ObservedStep, CallAssumption DEF CallInv
<1>3. ChannelsTyped /\ ObservedAlone => AloneInCall
  <2> SUFFICES ASSUME ChannelsTyped, ObservedAlone,
                      ~ \E c \in Channels : CalledDuringCall(c)
               PROVE  Cardinality(InCall) + (IF other THEN 1 ELSE 0) <= 1
    <3>1. Cardinality(InCall) \in Nat
      <4>1. IsFiniteSet(Channels)
        BY FS_Interval, CallAssumption DEF Channels
      <4> QED BY <4>1, FS_Subset, FS_CardinalityType DEF InCall
    <3> QED BY <3>1 DEF AloneInCall
  <2>1. InCall \subseteq observed /\ \A c, d \in InCall : c = d
    BY DEF InCall, CalledDuringCall, ObservedAlone, Alive
  <2>2. other => InCall = {}
    BY <2>1 DEF InCall, ObservedAlone
  <2>3. CASE InCall = {}
    BY <2>3, FS_EmptySet
  <2>4. CASE InCall # {}
    <3>1. PICK c \in InCall : TRUE
      BY <2>4
    <3>2. InCall = {c}
      BY <2>1, <3>1
    <3>3. Cardinality(InCall) = 1
      BY <3>2, FS_Singleton
    <3> QED BY <2>2, <2>4, <3>3
  <2> QED BY <2>3, <2>4
<1> QED BY <1>1, <1>2, <1>3, PTL DEF Spec, CallInv

-----------------------------------------------------------------------------
(* CallCamera.  The types, with those of the two records.                   *)
Requests == {"start", "stop", "add"}

Cams ==
  [call : {"connecting", "connected", "held", "disconnected"}, hangup : BOOLEAN,
   button : BOOLEAN, sensitive : BOOLEAN, on : BOOLEAN, input : BOOLEAN,
   preview : {"none", "hidden", "shown"}, small : {"none", "hidden", "shown", "freed"},
   stray : BOOLEAN, running : BOOLEAN, playing : BOOLEAN, starts : BOOLEAN,
   asked : Seq(Requests), wild : BOOLEAN, unheard : BOOLEAN, woken : BOOLEAN]

CallChannels ==
  [up : BOOLEAN, answered : BOOLEAN, accepted : BOOLEAN, video : BOOLEAN,
   sends : {"none", "pending", "sending"}]

CameraTyped ==
  /\ cam \in Cams /\ channel \in CallChannels
  /\ initial \in BOOLEAN /\ requesting \in BOOLEAN /\ cameras \in 0..2

(* What is filmed needs an input, and what is turned on is seen.            *)
Powered(w) ==
  ~w.wild => /\ w.preview # "none" => w.input
             /\ w.on => w.button /\ w.input
             /\ w.running => w.preview # "none"
             /\ w.running /\ ~w.woken => w.on
Seen(w) ==
  ~w.wild /\ w.running /\ ~w.woken => w.preview = "shown" \/ w.small = "shown"

Filmed(w) == Powered(w) /\ Seen(w)

(* The last request that is on the bus, or the channel as it is, will make  *)
(* it send or not.  A content that is not there does not send.              *)
WillSend(rs, ch) ==
  IF rs = <<>> THEN ch.sends = "sending" \/ (ch.sends = "pending" /\ ~ch.accepted)
  ELSE rs[Len(rs)] \in {"add", "start"}

Tells(on, rs, ch) ==
  /\ on <=> WillSend(rs, ch)
  /\ rs # <<>> /\ rs[Len(rs)] = "start" => ch.video

(* The channel's life, and what a window can say of it.                     *)
ChannelLives(ch) ==
  /\ ch.accepted => ch.answered
  /\ ch.answered => ch.up
  /\ ~ch.video => ch.sends = "none"
  /\ ch.up /\ ~ch.accepted => ch.sends # "sending"

InTouch(w, ch) ==
  /\ w.call \in {"connected", "held"} \/ w.asked # <<>> => ch.accepted
  /\ Len(w.asked) <= MaxAsked

Heard(w, ch) == ~w.wild /\ ~w.unheard => Tells(w.on, w.asked, ch)

CameraInv ==
  /\ CameraTyped /\ Filmed(cam)
  /\ ChannelLives(channel) /\ InTouch(cam, channel)
  /\ requesting => ~channel.up
  /\ channel.answered => Heard(cam, channel)

(* What the functions of the window leave alone.                            *)
SameWindow(r, w) ==
  /\ r.call = w.call /\ r.hangup = w.hangup /\ r.input = w.input
  /\ r.playing = w.playing /\ r.starts = w.starts
SameCamera(r, w) ==
  SameWindow(r, w) /\ r.button = w.button /\ r.on = w.on
SameAsked(r, w) == r.asked = w.asked /\ r.unheard = w.unheard

LEMMA PreviewAdded ==
  ASSUME NEW w \in Cams
  PROVE  /\ AddPreview(w) \in Cams
         /\ SameCamera(AddPreview(w), w) /\ SameAsked(AddPreview(w), w)
         /\ AddPreview(w).running = w.running /\ AddPreview(w).woken = w.woken
         /\ w.preview # "none" => AddPreview(w) = w
         /\ ~AddPreview(w).wild => /\ ~w.wild /\ (w.preview # "none" \/ w.input)
                                   /\ AddPreview(w).preview # "none"
<1>1. CASE w.preview # "none"
  BY <1>1 DEF AddPreview, SameCamera, SameWindow, SameAsked
<1>2. CASE w.preview = "none" /\ ~w.input
  BY <1>2 DEF AddPreview, Crash, SameCamera, SameWindow, SameAsked, Cams
<1>3. CASE w.preview = "none" /\ w.input
  <2>1. AddPreview(w) = [w EXCEPT !.preview = "shown", !.small = "hidden", !.stray = @ \/ w.small = "shown"]
    BY <1>3 DEF AddPreview
  <2> QED BY ZenonT(60), <1>3, <2>1 DEF SameCamera, SameWindow, SameAsked, Cams
<1> QED BY <1>1, <1>2, <1>3

LEMMA PreviewDisplayed ==
  ASSUME NEW w \in Cams, NEW display \in BOOLEAN
  PROVE  /\ DisplayPreview(w, display) \in Cams
         /\ SameCamera(DisplayPreview(w, display), w) /\ SameAsked(DisplayPreview(w, display), w)
         /\ DisplayPreview(w, display).running = display
         /\ DisplayPreview(w, display).woken <=> w.woken /\ ~display
         /\ DisplayPreview(w, display).preview = IF display THEN "shown" ELSE "hidden"
         /\ ~DisplayPreview(w, display).wild => ~w.wild /\ (w.preview # "none" \/ w.input)
<1> DEFINE a == AddPreview(w)
           p == [a EXCEPT !.running = display]
<1>1. /\ a \in Cams /\ SameCamera(a, w) /\ SameAsked(a, w) /\ a.woken = w.woken
      /\ ~a.wild => ~w.wild /\ (w.preview # "none" \/ w.input)
  BY PreviewAdded
<1>2. DisplayPreview(w, display) =
        [p EXCEPT !.preview = IF display THEN "shown" ELSE "hidden", !.woken = @ /\ ~display]
  BY DEF DisplayPreview, PlayCamera
<1> HIDE DEF a
<1>3. /\ p \in Cams /\ SameCamera(p, a) /\ SameAsked(p, a) /\ p.woken = a.woken
      /\ p.wild = a.wild /\ p.running = display
  BY <1>1 DEF Cams, SameCamera, SameWindow, SameAsked
<1> HIDE DEF p
<1> DEFINE r == [p EXCEPT !.preview = IF display THEN "shown" ELSE "hidden", !.woken = @ /\ ~display]
<1>4. /\ SameCamera(r, p) /\ SameAsked(r, p) /\ r.wild = p.wild /\ r.running = p.running
      /\ r.preview = IF display THEN "shown" ELSE "hidden"
  BY <1>3 DEF Cams, SameCamera, SameWindow, SameAsked
<1>5. r.woken <=> p.woken /\ ~display
  BY <1>3 DEF Cams
<1>6. r \in Cams
  <2>1. (IF display THEN "shown" ELSE "hidden") \in {"none", "hidden", "shown"}
    OBVIOUS
  <2>2. (p.woken /\ ~display) \in BOOLEAN
    OBVIOUS
  <2>3. r = [p EXCEPT !.preview = IF display THEN "shown" ELSE "hidden", !.woken = p.woken /\ ~display]
    OBVIOUS
  <2> HIDE DEF r
  <2> DEFINE pre == IF display THEN "shown" ELSE "hidden"
             wk == p.woken /\ ~display
  <2>4. r = [p EXCEPT !.preview = pre, !.woken = wk] /\ pre \in {"none", "hidden", "shown"} /\ wk \in BOOLEAN
    BY <2>1, <2>2, <2>3
  <2> HIDE DEF pre, wk
  <2> QED BY <1>3, <2>4 DEF Cams
<1> HIDE DEF r
<1> QED BY <1>1, <1>2, <1>3, <1>4, <1>5, <1>6 DEF r, SameCamera, SameWindow, SameAsked

(* The requests to the channel of a call in progress tell it the last word. *)
LEMMA VideoSent ==
  ASSUME NEW w \in Cams, NEW send \in BOOLEAN, channel \in CallChannels, ChannelLives(channel)
  PROVE  /\ SendVideo(w, send) \in Cams
         /\ SameCamera(SendVideo(w, send), w)
         /\ SendVideo(w, send).running = w.running /\ SendVideo(w, send).woken = w.woken
         /\ SendVideo(w, send).preview = w.preview /\ SendVideo(w, send).wild = w.wild
         /\ Len(SendVideo(w, send).asked) <= Len(w.asked) + 1
         /\ send => ~SendVideo(w, send).unheard
         /\ ~SendVideo(w, send).unheard => Tells(send, SendVideo(w, send).asked, channel)
<1> DEFINE r == SendVideo(w, send)
<1>1. w.asked \in Seq(Requests)
  BY DEF Cams
<1>2. ASSUME NEW q \in Requests, r = [w EXCEPT !.asked = Append(@, q), !.unheard = FALSE]
      PROVE  /\ r \in Cams /\ SameCamera(r, w) /\ r.running = w.running /\ r.woken = w.woken
             /\ r.preview = w.preview /\ r.wild = w.wild
             /\ r.asked # <<>> /\ r.asked[Len(r.asked)] = q /\ Len(r.asked) = Len(w.asked) + 1
             /\ ~r.unheard
  <2>1. r.asked = Append(w.asked, q)
    BY <1>2 DEF Cams
  <2>2. /\ Append(w.asked, q) \in Seq(Requests) /\ Append(w.asked, q) # <<>>
        /\ Len(Append(w.asked, q)) = Len(w.asked) + 1
        /\ Append(w.asked, q)[Len(w.asked) + 1] = q
    BY <1>1, <1>2
  <2>3. r = [w EXCEPT !.asked = Append(w.asked, q), !.unheard = FALSE]
    BY <1>2
  <2> HIDE DEF r
  <2>4. /\ r \in Cams /\ SameCamera(r, w) /\ r.running = w.running /\ r.woken = w.woken
        /\ r.preview = w.preview /\ r.wild = w.wild /\ r.unheard = FALSE
    BY <2>2, <2>3 DEF Cams, SameCamera, SameWindow
  <2> QED BY <2>1, <2>2, <2>4
<1>3. CASE channel.video
  <2>1. r = [w EXCEPT !.asked = Append(@, IF send THEN "start" ELSE "stop"), !.unheard = FALSE]
    BY <1>3 DEF SendVideo
  <2>2. (IF send THEN "start" ELSE "stop") \in Requests
    BY DEF Requests
  <2>3. r.asked # <<>> /\ r.asked[Len(r.asked)] = IF send THEN "start" ELSE "stop"
    BY <1>2, <2>1, <2>2
  <2>4. Tells(send, r.asked, channel)
    BY <1>3, <2>3 DEF Tells, WillSend
  <2> HIDE DEF r
  <2>5. /\ r \in Cams /\ SameCamera(r, w) /\ r.running = w.running /\ r.woken = w.woken
        /\ r.preview = w.preview /\ r.wild = w.wild /\ Len(r.asked) = Len(w.asked) + 1
        /\ ~r.unheard
    BY <1>2, <2>1, <2>2
  <2>6. Len(w.asked) \in Nat
    BY <1>1
  <2>7. Len(r.asked) <= Len(w.asked) + 1
    BY <2>5, <2>6
  <2> QED BY <2>4, <2>5, <2>7, Zenon DEF r
<1>4. CASE ~channel.video /\ send
  <2>1. r = [w EXCEPT !.asked = Append(@, "add"), !.unheard = FALSE] /\ "add" \in Requests
    BY <1>4 DEF SendVideo, Requests
  <2>3. r.asked # <<>> /\ r.asked[Len(r.asked)] = "add"
    BY <1>2, <2>1
  <2>4. Tells(send, r.asked, channel)
    BY <1>4, <2>3 DEF Tells, WillSend
  <2> HIDE DEF r
  <2>5. /\ r \in Cams /\ SameCamera(r, w) /\ r.running = w.running /\ r.woken = w.woken
        /\ r.preview = w.preview /\ r.wild = w.wild /\ Len(r.asked) = Len(w.asked) + 1
        /\ ~r.unheard
    BY <1>2, <2>1
  <2>6. Len(w.asked) \in Nat
    BY <1>1
  <2>7. Len(r.asked) <= Len(w.asked) + 1
    BY <2>5, <2>6
  <2> QED BY <2>4, <2>5, <2>7, Zenon DEF r
<1>5. CASE ~channel.video /\ ~send
  <2>1. r = [w EXCEPT !.unheard = w.asked # <<>>]
    BY <1>5 DEF SendVideo
  <2>2. /\ r \in Cams /\ SameCamera(r, w) /\ r.running = w.running /\ r.woken = w.woken
        /\ r.preview = w.preview /\ r.wild = w.wild /\ r.asked = w.asked
    BY <2>1 DEF Cams, SameCamera, SameWindow
  <2>3. ~r.unheard => w.asked = <<>>
    BY <2>1 DEF Cams
  <2>4. channel.sends = "none"
    BY <1>5 DEF ChannelLives
  <2>5. Len(w.asked) \in Nat
    BY <1>1
  <2> HIDE DEF r
  <2>6. ~r.unheard => Tells(send, r.asked, channel)
    BY <1>5, <2>2, <2>3, <2>4 DEF Tells, WillSend
  <2>7. Len(r.asked) <= Len(w.asked) + 1
    BY <2>2, <2>5
  <2> QED BY <1>5, <2>2, <2>6, <2>7, Zenon DEF r
<1> QED BY <1>3, <1>4, <1>5

LEMMA SendVideoSet ==
  ASSUME NEW w \in Cams, NEW send \in BOOLEAN, channel \in CallChannels, ChannelLives(channel)
  PROVE  /\ SetSendVideo(w, send) \in Cams
         /\ SameCamera(SetSendVideo(w, send), w)
         /\ SetSendVideo(w, send).running = send
         /\ SetSendVideo(w, send).woken <=> w.woken /\ ~send
         /\ SetSendVideo(w, send).preview = IF send THEN "shown" ELSE "hidden"
         /\ ~SetSendVideo(w, send).wild => ~w.wild /\ (w.preview # "none" \/ w.input)
         /\ Len(SetSendVideo(w, send).asked) <= Len(w.asked) + 1
         /\ w.call # "connected" => SetSendVideo(w, send).asked = w.asked
         /\ w.call = "connected" /\ send => ~SetSendVideo(w, send).unheard
         /\ channel.up /\ ~SetSendVideo(w, send).unheard =>
              Tells(send, SetSendVideo(w, send).asked, channel)
<1> DEFINE v == DisplayPreview(w, send)
           r == SetSendVideo(w, send)
<1>1. /\ v \in Cams /\ SameCamera(v, w) /\ SameAsked(v, w) /\ v.running = send
      /\ v.woken <=> w.woken /\ ~send
      /\ v.preview = IF send THEN "shown" ELSE "hidden"
      /\ ~v.wild => ~w.wild /\ (w.preview # "none" \/ w.input)
  BY PreviewDisplayed
<1>2. Len(w.asked) \in Nat
  BY DEF Cams
<1>3. CASE w.call = "connected"
  <2>1. r = SendVideo(v, send)
    BY <1>3 DEF SetSendVideo
  <2> HIDE DEF r, v
  <2>2. /\ r \in Cams /\ SameCamera(r, v) /\ r.running = v.running /\ r.woken = v.woken
        /\ r.preview = v.preview /\ r.wild = v.wild
        /\ Len(r.asked) <= Len(v.asked) + 1
        /\ send => ~r.unheard
        /\ ~r.unheard => Tells(send, r.asked, channel)
    BY <1>1, <2>1, VideoSent
  <2>3. SameCamera(r, w) /\ Len(r.asked) <= Len(w.asked) + 1
    BY <1>1, <2>2 DEF SameCamera, SameWindow, SameAsked
  <2> QED BY <1>1, <1>3, <2>2, <2>3, Zenon DEF r
<1>4. CASE w.call # "connected"
  <2> DEFINE u == Disagrees(send) \/ w.asked # <<>>
  <2>1. r = [v EXCEPT !.unheard = u]
    BY <1>4 DEF SetSendVideo
  <2>2. u \in BOOLEAN
    OBVIOUS
  <2> HIDE DEF r, v, u
  <2>3. /\ r \in Cams /\ SameCamera(r, v) /\ r.running = v.running /\ r.woken = v.woken
        /\ r.preview = v.preview /\ r.wild = v.wild /\ r.asked = v.asked /\ r.unheard = u
    BY <1>1, <2>1, <2>2 DEF Cams, SameCamera, SameWindow
  <2>4. SameCamera(r, w) /\ r.asked = w.asked
    BY <1>1, <2>3 DEF SameCamera, SameWindow, SameAsked
  <2>5. channel.up /\ ~r.unheard => Tells(send, r.asked, channel)
    BY <2>3, <2>4 DEF u, Disagrees, Tells, WillSend
  <2>6. Len(r.asked) <= Len(w.asked) + 1
    BY <1>2, <2>4
  <2> QED BY <1>1, <1>4, <2>3, <2>4, <2>5, <2>6, Zenon DEF r
<1> QED BY <1>3, <1>4

(* The button turns the camera on and off.                                  *)
LEMMA ButtonSet ==
  ASSUME NEW w \in Cams, NEW active \in BOOLEAN, channel \in CallChannels, ChannelLives(channel),
         Powered(w), Seen(w) \/ ~active
  PROVE  /\ SetButton(w, active) \in Cams /\ SameWindow(SetButton(w, active), w)
         /\ Filmed(SetButton(w, active))
         /\ Len(SetButton(w, active).asked) <= Len(w.asked) + 1
         /\ w.call # "connected" => SetButton(w, active).asked = w.asked
         /\ channel.up /\ Heard(w, channel) => Heard(SetButton(w, active), channel)
<1> DEFINE v == [w EXCEPT !.button = active]
           r == SetButton(w, active)
<1>1. /\ v \in Cams /\ SameWindow(v, w) /\ v.button = active /\ v.on = w.on /\ SameAsked(v, w)
      /\ v.wild = w.wild /\ v.preview = w.preview /\ v.small = w.small
      /\ v.running = w.running /\ v.woken = w.woken
  BY DEF Cams, SameWindow, SameAsked
<1>2. r = IF w.button = active THEN w ELSE IF active THEN EnableCamera(v) ELSE DisableCamera(v)
  BY DEF SetButton
<1>3. Len(w.asked) \in Nat
  BY DEF Cams
<1>4. CASE w.button = active
  <2>1. r = w
    BY <1>2, <1>4
  <2>2. Filmed(w)
    BY <1>4 DEF Filmed, Powered, Seen
  <2> QED BY <1>3, <2>1, <2>2 DEF SameWindow
<1> HIDE DEF v, r
<1>5. ASSUME r = v, ~w.on \/ active
      PROVE  /\ r \in Cams /\ SameWindow(r, w) /\ Filmed(r) /\ Len(r.asked) <= Len(w.asked) + 1
             /\ r.asked = w.asked /\ (Heard(w, channel) => Heard(r, channel))
  <2>1. Filmed(r)
    BY <1>1, <1>5 DEF Filmed, Powered, Seen, SameWindow
  <2>2. Heard(w, channel) => Heard(r, channel)
    BY <1>1, <1>5 DEF Heard, SameAsked
  <2> QED BY <1>1, <1>3, <1>5, <2>1, <2>2 DEF SameAsked
<1>6. CASE w.button # active /\ active
  <2>1. CASE v.on \/ ~v.input
    <3>1. r = v
      BY <1>2, <1>6, <2>1 DEF EnableCamera
    <3> QED BY <1>5, <1>6, <3>1 DEF r
  <2>2. CASE ~(v.on \/ ~v.input)
    <3> DEFINE x == SetSendVideo(v, TRUE)
    <3>1. r = [x EXCEPT !.on = TRUE, !.woken = FALSE]
      BY <1>2, <1>6, <2>2 DEF EnableCamera
    <3>2. /\ x \in Cams /\ SameCamera(x, v) /\ x.running = TRUE /\ x.preview = "shown"
          /\ Len(x.asked) <= Len(v.asked) + 1 /\ (v.call # "connected" => x.asked = v.asked)
          /\ channel.up /\ ~x.unheard => Tells(TRUE, x.asked, channel)
      BY <1>1, SendVideoSet
    <3> HIDE DEF x
    <3>3. /\ r \in Cams /\ SameWindow(r, x) /\ SameAsked(r, x) /\ r.on = TRUE /\ r.button = x.button
          /\ r.preview = x.preview
      BY <3>1, <3>2 DEF Cams, SameWindow, SameAsked
    <3>4. SameWindow(r, w) /\ r.button = active /\ r.input
      BY <1>1, <2>2, <3>2, <3>3 DEF SameWindow, SameCamera
    <3>5. Filmed(r)
      BY <1>6, <3>2, <3>3, <3>4 DEF Filmed, Powered, Seen
    <3>6. channel.up => Heard(r, channel)
      BY <3>2, <3>3 DEF Heard, SameAsked
    <3>7. Len(r.asked) <= Len(w.asked) + 1 /\ (w.call # "connected" => r.asked = w.asked)
      BY <1>1, <3>2, <3>3 DEF SameAsked, SameWindow
    <3> QED BY <3>3, <3>4, <3>5, <3>6, <3>7 DEF r
  <2> QED BY <2>1, <2>2
<1>7. CASE w.button # active /\ ~active
  <2>1. CASE ~v.on
    <3>1. r = v
      BY <1>2, <1>7, <2>1 DEF DisableCamera
    <3>2. ~w.on
      BY <1>1, <2>1
    <3> QED BY <1>5, <3>1, <3>2 DEF r
  <2>2. CASE v.on
    <3> DEFINE x == SetSendVideo(v, FALSE)
    <3>1. r = [x EXCEPT !.on = FALSE]
      BY <1>2, <1>7, <2>2 DEF DisableCamera
    <3>2. /\ x \in Cams /\ SameCamera(x, v) /\ x.running = FALSE /\ x.preview = "hidden"
          /\ Len(x.asked) <= Len(v.asked) + 1 /\ (v.call # "connected" => x.asked = v.asked)
          /\ channel.up /\ ~x.unheard => Tells(FALSE, x.asked, channel)
          /\ ~x.wild => ~v.wild /\ (v.preview # "none" \/ v.input)
      BY <1>1, SendVideoSet
    <3> HIDE DEF x
    <3>3. /\ r \in Cams /\ SameWindow(r, x) /\ SameAsked(r, x) /\ r.on = FALSE /\ r.wild = x.wild
          /\ r.running = x.running
      BY <3>1, <3>2 DEF Cams, SameWindow, SameAsked
    <3>4. SameWindow(r, w)
      BY <1>1, <3>2, <3>3 DEF SameWindow, SameCamera
    <3>5. ~r.wild => r.input
      BY <1>1, <3>2, <3>3, <3>4 DEF Filmed, Powered, Seen, SameWindow
    <3>6. Filmed(r)
      BY <3>2, <3>3, <3>5 DEF Filmed, Powered, Seen
    <3>7. channel.up => Heard(r, channel)
      BY <3>2, <3>3 DEF Heard, SameAsked
    <3>8. Len(r.asked) <= Len(w.asked) + 1 /\ (w.call # "connected" => r.asked = w.asked)
      BY <1>1, <3>2, <3>3 DEF SameAsked, SameWindow
    <3> QED BY <3>3, <3>4, <3>6, <3>7, <3>8 DEF r
  <2> QED BY <2>1, <2>2
<1> QED BY <1>4, <1>6, <1>7

(* What starts with a call, and what is left when it ends.                  *)
LEMMA VideoStarted ==
  ASSUME NEW w \in Cams, NEW video \in BOOLEAN, channel \in CallChannels, ChannelLives(channel),
         Filmed(w)
  PROVE  /\ StartVideo(w, video) \in Cams /\ SameWindow(StartVideo(w, video), w)
         /\ Filmed(StartVideo(w, video))
         /\ Len(StartVideo(w, video).asked) <= Len(w.asked) + 1
         /\ w.call # "connected" => StartVideo(w, video).asked = w.asked
         /\ channel.up => Heard(StartVideo(w, video), channel)
<1> DEFINE u == Disagrees(w.on) \/ w.asked # <<>>
           v == [w EXCEPT !.unheard = u]
           r == StartVideo(w, video)
<1>1. r = IF ~video THEN v
          ELSE IF ~channel.up \/ channel.sends # "none" THEN SetButton(v, TRUE)
          ELSE AddPreview(SetButton(v, FALSE))
  BY DEF StartVideo
<1>2. u \in BOOLEAN
  OBVIOUS
<1> HIDE DEF u, r
<1>3. /\ v \in Cams /\ SameCamera(v, w) /\ v.asked = w.asked /\ v.unheard = u
      /\ v.wild = w.wild /\ v.preview = w.preview /\ v.small = w.small
      /\ v.running = w.running /\ v.woken = w.woken
  BY <1>2 DEF Cams, SameCamera, SameWindow
<1> HIDE DEF v
<1>4. Filmed(v)
  BY <1>3 DEF Filmed, Powered, Seen, SameCamera, SameWindow
<1>5. channel.up => Heard(v, channel)
  BY <1>3 DEF Heard, SameCamera, u, Disagrees, Tells, WillSend
<1>6. Len(w.asked) \in Nat
  BY DEF Cams
<1>7. ASSUME NEW a \in BOOLEAN
      PROVE  LET b == SetButton(v, a) IN
             /\ b \in Cams /\ SameWindow(b, w) /\ Filmed(b) /\ (channel.up => Heard(b, channel))
             /\ Len(b.asked) <= Len(w.asked) + 1 /\ (w.call # "connected" => b.asked = w.asked)
  <2> DEFINE b == SetButton(v, a)
  <2>1. /\ b \in Cams /\ SameWindow(b, v) /\ Filmed(b) /\ (channel.up => Heard(b, channel))
        /\ Len(b.asked) <= Len(v.asked) + 1 /\ (v.call # "connected" => b.asked = v.asked)
    BY <1>3, <1>4, <1>5, ButtonSet DEF Filmed
  <2> HIDE DEF b
  <2>2. SameWindow(b, w) /\ v.call = w.call
    BY <1>3, <2>1 DEF SameWindow, SameCamera
  <2> QED BY <1>3, <2>1, <2>2 DEF b
<1>8. CASE ~video
  <2>1. r = v
    BY <1>1, <1>8
  <2> QED BY <1>3, <1>4, <1>5, <1>6, <2>1 DEF SameCamera, r
<1>9. CASE video /\ (~channel.up \/ channel.sends # "none")
  <2>1. r = SetButton(v, TRUE)
    BY <1>1, <1>9
  <2> QED BY <1>7, <2>1 DEF r
<1>10. CASE video /\ ~(~channel.up \/ channel.sends # "none")
  <2> DEFINE b == SetButton(v, FALSE)
  <2>1. r = AddPreview(b)
    BY <1>1, <1>10
  <2>2. /\ b \in Cams /\ SameWindow(b, w) /\ Filmed(b) /\ (channel.up => Heard(b, channel))
        /\ Len(b.asked) <= Len(w.asked) + 1 /\ (w.call # "connected" => b.asked = w.asked)
    BY <1>7
  <2> HIDE DEF b
  <2>3. /\ r \in Cams /\ SameCamera(r, b) /\ SameAsked(r, b) /\ r.running = b.running /\ r.woken = b.woken
        /\ b.preview # "none" => r = b
        /\ ~r.wild => ~b.wild /\ (b.preview # "none" \/ b.input) /\ r.preview # "none"
    BY <2>1, <2>2, PreviewAdded
  <2>4. Filmed(r)
    BY <2>2, <2>3 DEF Filmed, Powered, Seen, SameCamera, SameWindow
  <2>5. channel.up => Heard(r, channel)
    BY <2>2, <2>3 DEF Heard, SameCamera, SameAsked
  <2>6. SameWindow(r, w)
    BY <2>2, <2>3 DEF SameCamera, SameWindow
  <2> QED BY <2>2, <2>3, <2>4, <2>5, <2>6 DEF SameAsked, r
<1> QED BY <1>8, <1>9, <1>10

LEMMA CallEnded ==
  ASSUME NEW w \in Cams, Filmed(w)
  PROVE  /\ EndOfCall(w) \in Cams /\ Filmed(EndOfCall(w)) /\ EndOfCall(w).call = "disconnected"
         /\ SameAsked(EndOfCall(w), w) /\ EndOfCall(w).on = w.on
         /\ ~EndOfCall(w).wild => ~w.wild
<1> DEFINE v == [w EXCEPT !.preview = "none", !.running = FALSE, !.woken = FALSE,
                     !.playing = FALSE, !.starts = FALSE,
                     !.call = "disconnected", !.hangup = FALSE, !.sensitive = FALSE]
           r == EndOfCall(w)
<1>1. /\ v \in Cams /\ SameAsked(v, w) /\ v.call = "disconnected" /\ v.on = w.on /\ v.button = w.button
      /\ v.input = w.input /\ v.wild = w.wild /\ v.preview = "none" /\ v.running = FALSE
  BY ZenonT(60) DEF Cams, SameAsked
<1>2. r = IF w.on THEN DisplayPreview(v, TRUE) ELSE v
  BY DEF EndOfCall
<1> HIDE DEF v, r
<1>3. CASE w.on
  <2>1. r = DisplayPreview(v, TRUE)
    BY <1>2, <1>3
  <2>2. /\ r \in Cams /\ SameCamera(r, v) /\ SameAsked(r, v) /\ r.preview = "shown"
        /\ ~r.wild => ~v.wild
    BY <1>1, <2>1, PreviewDisplayed
  <2>3. Filmed(r)
    BY <1>1, <1>3, <2>2 DEF Filmed, Powered, Seen, SameCamera, SameWindow
  <2> QED BY <1>1, <2>2, <2>3 DEF SameCamera, SameWindow, SameAsked, r
<1>4. CASE ~w.on
  <2>1. r = v
    BY <1>2, <1>4
  <2>2. Filmed(r)
    BY <1>1, <1>4, <2>1 DEF Filmed, Powered, Seen
  <2> QED BY <1>1, <2>1, <2>2 DEF r
<1> QED BY <1>3, <1>4

(* A step of the window, and one that starts a call.                        *)
LEMMA WindowStepKeeps ==
  ASSUME CameraInv, UNCHANGED <<channel, requesting>>, initial' \in BOOLEAN, cameras' \in 0..2,
         cam' \in Cams, Filmed(cam'), InTouch(cam', channel),
         channel.answered => Heard(cam', channel)
  PROVE  CameraInv'
BY DEF CameraInv, CameraTyped, Filmed, Powered, Seen, InTouch, Heard, Tells, WillSend, ChannelLives

LEMMA StartsKeeps ==
  ASSUME CameraInv, NEW v \in Cams, NEW video \in BOOLEAN, Filmed(v), Starts(v, video),
         InTouch(v, channel), v.call = "connected" => Len(v.asked) < MaxAsked, CameraAssumption,
         initial' \in BOOLEAN, cameras' \in 0..2
  PROVE  CameraInv'
<1> DEFINE r == StartVideo(v, video)
<1>1. /\ CameraTyped /\ channel \in CallChannels /\ ChannelLives(channel)
      /\ requesting => ~channel.up
  BY DEF CameraInv, CameraTyped
<1>2. /\ r \in Cams /\ SameWindow(r, v) /\ Filmed(r) /\ Len(r.asked) <= Len(v.asked) + 1
      /\ v.call # "connected" => r.asked = v.asked
      /\ channel.up => Heard(r, channel)
  BY <1>1, VideoStarted
<1>3. cam' = r
  BY DEF Starts
<1> HIDE DEF r
<1>4. Len(v.asked) \in Nat /\ Len(r.asked) \in Nat /\ MaxAsked \in Nat
  BY <1>2 DEF Cams, CameraAssumption
<1>5. InTouch(r, channel)
  BY <1>2, <1>4 DEF InTouch, SameWindow
<1>6. CASE channel.up
  <2>1. channel' = [channel EXCEPT !.answered = TRUE] /\ requesting' = requesting
    BY <1>6 DEF Starts
  <2>2. /\ channel' \in CallChannels /\ channel'.up /\ channel'.answered
        /\ channel'.accepted <=> channel.accepted
        /\ channel'.video <=> channel.video
        /\ channel'.sends = channel.sends
    BY <1>1, <1>6, <2>1 DEF CallChannels
  <2>3. ChannelLives(channel')
    BY <1>1, <1>6, <2>2 DEF ChannelLives
  <2>4. Heard(r, channel') /\ InTouch(r, channel')
    BY <1>2, <1>5, <1>6, <2>2 DEF Heard, Tells, WillSend, InTouch
  <2>5. CameraTyped'
    BY <1>1, <1>2, <1>3, <2>1, <2>2 DEF CameraTyped
  <2>6. ~requesting'
    BY <1>1, <1>6, <2>1
  <2> QED BY <1>2, <1>3, <2>3, <2>4, <2>5, <2>6
             DEF CameraInv, Filmed, Powered, Seen, InTouch, Heard, Tells, WillSend, ChannelLives
<1>7. CASE ~channel.up
  <2>1. requesting' = TRUE /\ channel' = channel /\ ~channel.answered
    BY <1>1, <1>7 DEF Starts, ChannelLives
  <2>2. CameraTyped'
    BY <1>1, <1>2, <1>3, <2>1 DEF CameraTyped
  <2> QED BY <1>1, <1>2, <1>3, <1>5, <1>7, <2>1, <2>2
             DEF CameraInv, Filmed, Powered, Seen, InTouch, ChannelLives
<1> QED BY <1>6, <1>7

(* The button of the camera and the menus of its preview.                   *)
LEMMA MenuSteps ==
  ASSUME CameraInv, CameraAssumption, ~cam.wild,
         ToggleCamera \/ MenuDisable \/ MenuMinimise \/ MenuMaximise \/ ChangeWebcam
  PROVE  CameraInv'
<1>1. /\ cam \in Cams /\ channel \in CallChannels /\ Filmed(cam) /\ ChannelLives(channel)
      /\ InTouch(cam, channel) /\ (channel.answered => Heard(cam, channel))
      /\ initial \in BOOLEAN /\ cameras \in 0..2 /\ (channel.answered => channel.up)
  BY DEF CameraInv, CameraTyped, ChannelLives
<1>2. UNCHANGED <<channel, initial, requesting, cameras>>
  BY DEF ToggleCamera, MenuDisable, MenuMinimise, MenuMaximise, ChangeWebcam, Rest
<1>3. Len(cam.asked) \in Nat /\ MaxAsked \in Nat
  BY <1>1 DEF Cams, CameraAssumption
<1>4. ASSUME NEW w \in Cams, NEW a \in BOOLEAN, cam' = SetButton(w, a), CanAsk,
             Powered(w), Seen(w) \/ ~a, w.call = cam.call, w.asked = cam.asked, w.unheard = cam.unheard, w.on = cam.on, w.wild = cam.wild
      PROVE  CameraInv'
  <2> DEFINE r == SetButton(w, a)
  <2>1. channel.answered => Heard(w, channel)
    BY <1>1, <1>4 DEF Heard
  <2>2. /\ r \in Cams /\ SameWindow(r, w) /\ Filmed(r) /\ Len(r.asked) <= Len(w.asked) + 1
        /\ w.call # "connected" => r.asked = w.asked
        /\ channel.answered => Heard(r, channel)
    BY <1>1, <1>4, <2>1, ButtonSet
  <2>3. cam' = r
    BY <1>4
  <2> HIDE DEF r
  <2>4. r.call = cam.call /\ Len(r.asked) \in Nat
    BY <1>4, <2>2 DEF SameWindow, Cams
  <2>5. Len(r.asked) <= MaxAsked
    BY <1>3, <1>4, <2>2, <2>4 DEF CanAsk
  <2>6. InTouch(r, channel)
    BY <1>1, <1>4, <2>2, <2>4, <2>5 DEF InTouch, SameWindow
  <2> QED BY <1>1, <1>2, <2>2, <2>3, <2>6, WindowStepKeeps
<1>5. CASE ToggleCamera
  <2>1. cam' = SetButton(cam, ~cam.button) /\ CanAsk
    BY <1>5 DEF ToggleCamera
  <2>2. (~cam.button) \in BOOLEAN
    OBVIOUS
  <2> QED BY <1>1, <1>4, <2>1, <2>2 DEF Filmed
<1>6. ASSUME cam' = Crash(cam)
      PROVE  CameraInv'
  <2>1. cam' \in Cams /\ cam'.wild /\ cam'.call = cam.call /\ cam'.asked = cam.asked
    BY <1>1, <1>6 DEF Cams, Crash
  <2> QED BY <1>1, <1>2, <2>1, WindowStepKeeps DEF Filmed, Powered, Seen, InTouch, Heard
<1>7. CASE MenuDisable
  <2>1. CASE cam.small = "freed"
    BY <1>6, <1>7, <2>1 DEF MenuDisable
  <2>2. CASE cam.small # "freed"
    <3> DEFINE w == [cam EXCEPT !.small = "freed"]
    <3>1. cam' = SetButton(w, FALSE) /\ CanAsk
      BY <1>7, <2>2 DEF MenuDisable
    <3>2. /\ w \in Cams /\ SameCamera(w, cam) /\ w.asked = cam.asked /\ w.unheard = cam.unheard
          /\ w.on = cam.on /\ w.wild = cam.wild /\ w.preview = cam.preview
          /\ w.running = cam.running /\ w.woken = cam.woken
      BY <1>1 DEF Cams, SameCamera, SameWindow
    <3> HIDE DEF w
    <3>3. Powered(w)
      BY <1>1, <3>2 DEF Filmed, Powered, SameCamera, SameWindow
    <3>4. w.call = cam.call
      BY <3>2 DEF SameCamera, SameWindow
    <3> QED BY <1>4, <3>1, <3>2, <3>3, <3>4
  <2> QED BY <2>1, <2>2
<1>8. CASE (MenuMinimise \/ MenuMaximise) /\ cam.small = "freed"
  BY <1>6, <1>8 DEF MenuMinimise, MenuMaximise
<1>9. CASE (MenuMinimise \/ MenuMaximise) /\ cam.small # "freed"
  <2>1. /\ cam' \in Cams /\ SameCamera(cam', cam) /\ SameAsked(cam', cam) /\ cam'.wild = cam.wild
        /\ cam'.running = cam.running /\ cam'.woken = cam.woken
        /\ cam'.preview = "none" <=> cam.preview = "none"
        /\ cam.preview # "none" => cam'.preview = "shown" \/ cam'.small = "shown"
    <3>1. CASE MenuMinimise
      BY <1>1, <1>9, <3>1 DEF MenuMinimise, Cams, SameCamera, SameWindow, SameAsked
    <3>2. CASE MenuMaximise
      BY <1>1, <1>9, <3>2 DEF MenuMaximise, Cams, SameCamera, SameWindow, SameAsked
    <3> QED BY <1>9, <3>1, <3>2
  <2>2. Filmed(cam')
    BY <1>1, <2>1 DEF Filmed, Powered, Seen, SameCamera, SameWindow
  <2>3. InTouch(cam', channel) /\ (channel.answered => Heard(cam', channel))
    BY <1>1, <2>1 DEF InTouch, Heard, SameCamera, SameWindow, SameAsked
  <2> QED BY <1>1, <1>2, <2>1, <2>2, <2>3, WindowStepKeeps
<1>10. CASE ChangeWebcam
  <2>1. CASE ~cam.input
    BY <1>6, <1>10, <2>1 DEF ChangeWebcam
  <2>2. CASE cam.input /\ cam.preview = "none"
    <3>1. cam' = cam
      BY <1>10, <2>2 DEF ChangeWebcam
    <3> QED BY <1>1, <1>2, <3>1, WindowStepKeeps
  <2>3. CASE cam.input /\ cam.preview # "none"
    <3> DEFINE off == [cam EXCEPT !.running = FALSE]
               on == [off EXCEPT !.running = TRUE]
    <3>1. off \in Cams /\ off.preview = cam.preview
      BY <1>1 DEF Cams
    <3>2. AddPreview(cam) = cam /\ AddPreview(off) = off
      BY <2>3, <3>1 DEF AddPreview
    <3>3. cam' = [on EXCEPT !.woken = @ \/ ~cam.running]
      BY <1>10, <2>3, <3>2 DEF ChangeWebcam, PlayCamera
    <3>4. on \in Cams /\ SameCamera(on, cam) /\ SameAsked(on, cam) /\ on.wild = cam.wild
          /\ on.preview = cam.preview /\ on.small = cam.small /\ on.woken = cam.woken
      BY <1>1 DEF Cams, SameCamera, SameWindow, SameAsked
    <3> HIDE DEF off, on
    <3>5. cam' \in Cams /\ SameCamera(cam', on) /\ SameAsked(cam', on) /\ cam'.wild = on.wild
          /\ cam'.preview = on.preview /\ cam'.small = on.small
      BY ZenonT(60), <3>3, <3>4 DEF Cams, SameCamera, SameWindow, SameAsked
    <3>6. cam'.woken <=> on.woken \/ ~cam.running
      BY <3>3, <3>4 DEF Cams
    <3>7. Filmed(cam')
      BY <1>1, <2>3, <3>4, <3>5, <3>6 DEF Filmed, Powered, Seen, SameCamera, SameWindow
    <3>8. InTouch(cam', channel) /\ (channel.answered => Heard(cam', channel))
      BY <1>1, <3>4, <3>5 DEF InTouch, Heard, SameCamera, SameWindow, SameAsked
    <3> QED BY <1>1, <1>2, <3>5, <3>7, <3>8, WindowStepKeeps
  <2> QED BY <2>1, <2>2, <2>3
<1> QED BY <1>5, <1>7, <1>8, <1>9, <1>10

(* Calls, the pipeline and the cameras.                                     *)
LEMMA PipelineSteps ==
  ASSUME CameraInv, CameraAssumption, ~cam.wild,
         \/ AudioCall \/ VideoCall \/ PipelinePlays \/ PipelineFails \/ CameraFails
         \/ \E n \in 0..2 : Plugs(n)
  PROVE  CameraInv'
<1>1. /\ cam \in Cams /\ channel \in CallChannels /\ Filmed(cam) /\ ChannelLives(channel)
      /\ InTouch(cam, channel) /\ (channel.answered => Heard(cam, channel))
      /\ initial \in BOOLEAN /\ cameras \in 0..2 /\ (channel.answered => channel.up)
  BY DEF CameraInv, CameraTyped, ChannelLives
<1>2. Len(cam.asked) \in Nat /\ MaxAsked \in Nat
  BY <1>1 DEF Cams, CameraAssumption
<1>3. ASSUME NEW w \in Cams, NEW video \in BOOLEAN, Redials(w, video), Filmed(w),
             Len(w.asked) <= MaxAsked, w.asked # <<>> => channel.accepted,
             channel.answered => Heard(w, channel)
      PROVE  CameraInv'
  <2> DEFINE v == [w EXCEPT !.call = "connecting", !.hangup = TRUE]
  <2>1. /\ initial' = video /\ cameras' = cameras
        /\ IF cam.playing THEN Starts(v, video)
           ELSE cam' = [v EXCEPT !.starts = TRUE] /\ UNCHANGED <<channel, requesting>>
    BY <1>3 DEF Redials
  <2>2. /\ v \in Cams /\ v.call = "connecting" /\ v.input = w.input /\ v.button = w.button
        /\ v.on = w.on /\ SameAsked(v, w) /\ v.wild = w.wild /\ v.preview = w.preview
        /\ v.small = w.small /\ v.running = w.running /\ v.woken = w.woken
    BY DEF Cams, SameAsked
  <2> HIDE DEF v
  <2>3. Filmed(v)
    BY <1>3, <2>2 DEF Filmed, Powered, Seen
  <2>4. InTouch(v, channel)
    BY <1>3, <2>2 DEF InTouch, SameAsked
  <2>5. CASE cam.playing
    <3>1. Starts(v, video) /\ initial' \in BOOLEAN /\ cameras' \in 0..2
      BY <1>1, <2>1, <2>5
    <3> QED BY <2>2, <2>3, <2>4, <3>1, StartsKeeps
  <2>6. CASE ~cam.playing
    <3>1. cam' = [v EXCEPT !.starts = TRUE] /\ UNCHANGED <<channel, requesting>>
      BY <2>1, <2>6
    <3>2. /\ cam' \in Cams /\ cam'.call = v.call /\ cam'.input = v.input /\ cam'.button = v.button
          /\ cam'.on = v.on /\ SameAsked(cam', v) /\ cam'.wild = v.wild /\ cam'.preview = v.preview
          /\ cam'.small = v.small /\ cam'.running = v.running /\ cam'.woken = v.woken
      BY <2>2, <3>1 DEF Cams, SameAsked
    <3>3. Filmed(cam')
      BY <2>3, <3>2 DEF Filmed, Powered, Seen
    <3>4. InTouch(cam', channel)
      BY <2>4, <3>2 DEF InTouch, SameAsked
    <3>5. channel.answered => Heard(cam', channel)
      BY <1>3, <2>2, <3>2 DEF Heard, SameAsked
    <3>6. initial' \in BOOLEAN /\ cameras' \in 0..2
      BY <1>1, <2>1
    <3> QED BY <3>1, <3>2, <3>3, <3>4, <3>5, <3>6, WindowStepKeeps
  <2> QED BY <2>5, <2>6
<1>4. CASE AudioCall
  BY <1>1, <1>3, <1>4 DEF AudioCall, InTouch
<1>5. CASE VideoCall
  <2> DEFINE x == SetSendVideo(cam, TRUE)
             on == ~cam.on
             not == cam.unheard \/ ~cam.on
             w == [x EXCEPT !.woken = on, !.unheard = not]
  <2>1. CanAsk /\ Redials([x EXCEPT !.woken = ~cam.on, !.unheard = cam.unheard \/ ~cam.on], TRUE)
    BY <1>5 DEF VideoCall
  <2>2. Redials(w, TRUE)
    BY <2>1
  <2>3. /\ x \in Cams /\ SameCamera(x, cam) /\ x.running = TRUE /\ x.preview = "shown"
        /\ ~x.wild => ~cam.wild /\ (cam.preview # "none" \/ cam.input)
        /\ Len(x.asked) <= Len(cam.asked) + 1 /\ (cam.call # "connected" => x.asked = cam.asked)
        /\ cam.call = "connected" => ~x.unheard
        /\ channel.up /\ ~x.unheard => Tells(TRUE, x.asked, channel)
    BY <1>1, SendVideoSet
  <2>4. on \in BOOLEAN /\ not \in BOOLEAN
    OBVIOUS
  <2> HIDE DEF x, on, not
  <2>5. /\ w \in Cams /\ SameCamera(w, x) /\ w.running = x.running /\ w.preview = x.preview
        /\ w.wild = x.wild /\ w.asked = x.asked /\ w.woken = on /\ w.unheard = not
    BY ZenonT(60), <2>3, <2>4 DEF Cams, SameCamera, SameWindow
  <2> HIDE DEF w
  <2>6. w.on = cam.on /\ w.button = cam.button /\ w.input = cam.input
    BY <2>3, <2>5 DEF SameCamera, SameWindow
  <2>7. Filmed(w)
    BY <1>1, <2>3, <2>5, <2>6 DEF Filmed, Powered, Seen, on
  <2>8. Len(w.asked) <= MaxAsked
    <3>1. Len(x.asked) \in Nat
      BY <2>3 DEF Cams
    <3> QED BY <1>2, <2>1, <2>3, <2>5, <3>1 DEF CanAsk
  <2>9. w.asked # <<>> => channel.accepted
    BY <1>1, <2>3, <2>5 DEF InTouch
  <2>10. channel.answered => Heard(w, channel)
    BY <1>1, <2>3, <2>5, <2>6 DEF Heard, not
  <2> QED BY <1>3, <2>2, <2>5, <2>7, <2>8, <2>9, <2>10
<1>6. CASE PipelinePlays
  <2> DEFINE run == cam.preview # "none"
             wake == cam.woken \/ (~cam.running /\ run)
             v == [cam EXCEPT !.playing = TRUE, !.running = run, !.woken = wake]
  <2>1. /\ CanAsk /\ UNCHANGED <<initial, cameras>>
        /\ IF cam.starts THEN Starts(v, initial) ELSE cam' = v /\ UNCHANGED <<channel, requesting>>
    BY <1>6 DEF PipelinePlays
  <2>2. run \in BOOLEAN /\ wake \in BOOLEAN
    OBVIOUS
  <2> HIDE DEF wake
  <2>3. /\ v \in Cams /\ v.call = cam.call /\ v.input = cam.input /\ v.button = cam.button
        /\ v.on = cam.on /\ SameAsked(v, cam) /\ v.wild = cam.wild /\ v.preview = cam.preview
        /\ v.small = cam.small /\ v.running = run /\ v.woken = wake
    BY ZenonT(60), <1>1, <2>2 DEF Cams, SameAsked
  <2> HIDE DEF v
  <2>4. Filmed(v)
    BY <1>1, <2>3 DEF Filmed, Powered, Seen, wake
  <2>5. InTouch(v, channel) /\ (channel.answered => Heard(v, channel)) /\ Len(v.asked) < MaxAsked
    BY <1>1, <2>1, <2>3 DEF InTouch, Heard, SameAsked, CanAsk
  <2>6. initial' \in BOOLEAN /\ cameras' \in 0..2
    BY <1>1, <2>1
  <2>7. CASE cam.starts
    <3>1. Starts(v, initial)
      BY <2>1, <2>7
    <3> QED BY <1>1, <2>3, <2>4, <2>5, <2>6, <3>1, StartsKeeps
  <2>8. CASE ~cam.starts
    <3>1. cam' = v /\ UNCHANGED <<channel, requesting>>
      BY <2>1, <2>8
    <3> QED BY <2>3, <2>4, <2>5, <2>6, <3>1, WindowStepKeeps
  <2> QED BY <2>7, <2>8
<1>7. CASE PipelineFails
  <2>1. cam' = EndOfCall(cam) /\ UNCHANGED <<channel, initial, requesting, cameras>>
    BY <1>7 DEF PipelineFails, Rest
  <2>2. /\ cam' \in Cams /\ Filmed(cam') /\ cam'.call = "disconnected" /\ SameAsked(cam', cam)
        /\ cam'.on = cam.on
    BY <1>1, <2>1, CallEnded
  <2>3. InTouch(cam', channel) /\ (channel.answered => Heard(cam', channel))
    BY <1>1, <2>2 DEF InTouch, Heard, SameAsked
  <2> QED BY <1>1, <2>1, <2>2, <2>3, WindowStepKeeps
<1>8. CASE CameraFails
  <2> DEFINE x == DisableCamera(cam)
  <2>1. /\ CanAsk /\ UNCHANGED <<channel, initial, requesting, cameras>>
        /\ cam' = [x EXCEPT !.input = FALSE, !.preview = "none", !.running = FALSE, !.woken = FALSE,
                            !.sensitive = FALSE]
    BY <1>8 DEF CameraFails, Rest
  <2>2. /\ x \in Cams /\ ~x.on /\ x.call = cam.call
        /\ Len(x.asked) <= Len(cam.asked) + 1 /\ (cam.call # "connected" => x.asked = cam.asked)
        /\ channel.answered => Heard(x, channel)
    <3>1. CASE ~cam.on
      BY <1>1, <1>2, <3>1 DEF DisableCamera
    <3>2. CASE cam.on
      <4> DEFINE y == SetSendVideo(cam, FALSE)
      <4>1. x = [y EXCEPT !.on = FALSE]
        BY <3>2 DEF DisableCamera
      <4>2. /\ y \in Cams /\ SameCamera(y, cam)
            /\ Len(y.asked) <= Len(cam.asked) + 1 /\ (cam.call # "connected" => y.asked = cam.asked)
            /\ channel.up /\ ~y.unheard => Tells(FALSE, y.asked, channel)
        BY <1>1, SendVideoSet
      <4> HIDE DEF x, y
      <4>3. x \in Cams /\ SameWindow(x, y) /\ SameAsked(x, y) /\ x.on = FALSE
        BY <4>1, <4>2 DEF Cams, SameWindow, SameAsked
      <4>4. channel.answered => Heard(x, channel)
        BY <1>1, <4>2, <4>3 DEF Heard, SameAsked
      <4> QED BY <4>2, <4>3, <4>4 DEF SameCamera, SameWindow, SameAsked
    <3> QED BY <3>1, <3>2
  <2> HIDE DEF x
  <2>3. /\ cam' \in Cams /\ cam'.call = x.call /\ SameAsked(cam', x) /\ cam'.on = x.on
        /\ cam'.preview = "none" /\ cam'.running = FALSE /\ cam'.wild = x.wild
    BY <2>1, <2>2 DEF Cams, SameAsked
  <2>4. Filmed(cam')
    BY <2>2, <2>3 DEF Filmed, Powered, Seen
  <2>5. Len(cam'.asked) <= MaxAsked
    <3>1. Len(x.asked) \in Nat
      BY <2>2 DEF Cams
    <3> QED BY <1>2, <2>1, <2>2, <2>3, <3>1 DEF CanAsk, SameAsked
  <2>6. InTouch(cam', channel) /\ (channel.answered => Heard(cam', channel))
    BY <1>1, <2>2, <2>3, <2>5 DEF InTouch, Heard, SameAsked
  <2> QED BY <1>1, <2>1, <2>3, <2>4, <2>6, WindowStepKeeps
<1>9. ASSUME NEW n \in 0..2, Plugs(n)
      PROVE  CameraInv'
  <2> DEFINE s == IF (cameras = 0) # (n = 0) THEN n > 0 ELSE cam.sensitive
             v == [cam EXCEPT !.sensitive = s]
  <2>1. /\ cameras' = n /\ UNCHANGED <<channel, initial, requesting>>
        /\ cam' = IF cam.input THEN v ELSE Crash(v)
    BY <1>9 DEF Plugs
  <2>2. s \in BOOLEAN
    <3>1. cam.sensitive \in BOOLEAN
      BY <1>1 DEF Cams
    <3>2. CASE (cameras = 0) # (n = 0)
      <4>1. s = (n > 0)
        BY <3>2
      <4>2. (n > 0) \in BOOLEAN
        OBVIOUS
      <4> QED BY <4>1, <4>2, Zenon
    <3>3. CASE ~((cameras = 0) # (n = 0))
      BY <3>1, <3>3, Zenon
    <3> QED BY <3>2, <3>3
  <2> HIDE DEF s
  <2>3. /\ v \in Cams /\ SameCamera(v, cam) /\ SameAsked(v, cam) /\ v.wild = cam.wild
        /\ v.preview = cam.preview /\ v.small = cam.small /\ v.running = cam.running
        /\ v.woken = cam.woken
    BY <1>1, <2>2 DEF Cams, SameCamera, SameWindow, SameAsked
  <2> HIDE DEF v
  <2>4. CASE cam' = v
    <3>1. Filmed(cam') /\ InTouch(cam', channel) /\ (channel.answered => Heard(cam', channel))
      BY <1>1, <2>3, <2>4
         DEF Filmed, Powered, Seen, InTouch, Heard, SameCamera, SameWindow, SameAsked
    <3> QED BY <1>1, <1>9, <2>1, <2>3, <2>4, <3>1, WindowStepKeeps
  <2>5. CASE cam' = Crash(v)
    <3>1. cam' \in Cams /\ cam'.wild /\ cam'.call = v.call /\ cam'.asked = v.asked
      BY <2>3, <2>5 DEF Cams, Crash
    <3>2. Filmed(cam') /\ InTouch(cam', channel) /\ Heard(cam', channel)
      BY <1>1, <2>3, <3>1 DEF Filmed, Powered, Seen, InTouch, Heard, SameCamera, SameWindow, SameAsked
    <3> QED BY <1>1, <1>9, <2>1, <3>1, <3>2, WindowStepKeeps
  <2> QED BY <2>1, <2>4, <2>5
<1> QED BY <1>4, <1>5, <1>6, <1>7, <1>8, <1>9

(* What becomes of the channel.                                             *)
LEMMA ChannelStepKeeps ==
  ASSUME CameraInv, cam' \in Cams, channel' \in CallChannels, requesting' \in BOOLEAN,
         UNCHANGED <<initial, cameras>>, Filmed(cam'), ChannelLives(channel'), InTouch(cam', channel'),
         requesting' => ~channel'.up, channel'.answered => Heard(cam', channel')
  PROVE  CameraInv'
BY DEF CameraInv, CameraTyped, Filmed, Powered, Seen, InTouch, Heard, Tells, WillSend, ChannelLives

LEMMA ChannelChanges ==
  ASSUME CameraInv, CameraAssumption, ~cam.wild,
         \/ RequestSucceeds \/ RequestIsLost \/ CallAnswered \/ Asked
         \/ ContactAddsVideo \/ ContactRemovesVideo \/ ContactHolds \/ CallIsOver
  PROVE  CameraInv'
<1>1. /\ cam \in Cams /\ channel \in CallChannels /\ Filmed(cam) /\ ChannelLives(channel)
      /\ InTouch(cam, channel) /\ (channel.answered => Heard(cam, channel))
      /\ initial \in BOOLEAN /\ (requesting => ~channel.up) /\ requesting \in BOOLEAN
      /\ Len(cam.asked) <= MaxAsked
  BY DEF CameraInv, CameraTyped, InTouch
<1>2. Len(cam.asked) \in Nat /\ MaxAsked \in Nat /\ MaxAsked >= 1 /\ cam.asked \in Seq(Requests)
  BY <1>1 DEF Cams, CameraAssumption
<1>3. UNCHANGED <<initial, cameras>>
  BY DEF RequestSucceeds, RequestIsLost, CallAnswered, Asked, ContactAddsVideo, ContactRemovesVideo,
         ContactHolds, CallIsOver, ChannelStep
<1>4. CASE RequestSucceeds
  <2> DEFINE not == cam.on # initial
  <2>1. /\ requesting /\ requesting' = FALSE /\ cam' = [cam EXCEPT !.unheard = not]
        /\ channel' = [up |-> TRUE, answered |-> TRUE, accepted |-> FALSE, video |-> initial,
                       sends |-> IF initial THEN "pending" ELSE "none"]
    BY <1>4 DEF RequestSucceeds, NewChannel, NoChannel
  <2>2. not \in BOOLEAN
    OBVIOUS
  <2> HIDE DEF not
  <2>3. /\ cam' \in Cams /\ SameCamera(cam', cam) /\ cam'.asked = cam.asked /\ cam'.unheard = not
        /\ cam'.wild = cam.wild /\ cam'.preview = cam.preview /\ cam'.small = cam.small
        /\ cam'.running = cam.running /\ cam'.woken = cam.woken
    BY <1>1, <2>1, <2>2 DEF Cams, SameCamera, SameWindow
  <2>4. /\ channel' \in CallChannels /\ channel'.up /\ channel'.answered /\ ~channel'.accepted
        /\ channel'.sends = IF initial THEN "pending" ELSE "none"
        /\ channel'.video <=> initial
    BY <1>1, <2>1 DEF CallChannels
  <2>5. Filmed(cam')
    BY <1>1, <2>3 DEF Filmed, Powered, Seen, SameCamera, SameWindow
  <2>6. cam.asked = <<>> /\ cam.call \notin {"connected", "held"}
    BY <1>1, <2>1 DEF InTouch, ChannelLives
  <2>7. InTouch(cam', channel') /\ ChannelLives(channel')
    BY <1>1, <2>3, <2>4, <2>6 DEF InTouch, ChannelLives, SameCamera, SameWindow
  <2>8. cam.on \in BOOLEAN
    BY <1>1 DEF Cams
  <2>9. Heard(cam', channel')
    BY <1>1, <2>3, <2>4, <2>6, <2>8 DEF Heard, Tells, WillSend, SameCamera, not
  <2> QED BY <1>3, <2>1, <2>3, <2>4, <2>5, <2>7, <2>9, ChannelStepKeeps
<1>5. CASE RequestIsLost
  <2>1. UNCHANGED <<cam, channel>> /\ requesting' = FALSE
    BY <1>5 DEF RequestIsLost
  <2> QED BY <1>1, <1>3, <2>1, ChannelStepKeeps
<1>6. CASE CallAnswered
  <2> DEFINE r == InProgress(cam)
             v == [cam EXCEPT !.call = "connected", !.hangup = TRUE]
             x == IF v.input THEN v ELSE SetSendVideo(v, FALSE)
             s == cam.input /\ cameras > 0
  <2>1. /\ channel.up /\ channel.answered /\ ~channel.accepted /\ requesting' = requesting
        /\ channel' = [channel EXCEPT !.accepted = TRUE,
                                      !.sends = IF @ = "pending" THEN "sending" ELSE @]
        /\ cam' = InProgress(cam)
    BY <1>6 DEF CallAnswered, ChannelStep
  <2>2. cam.asked = <<>> /\ cam.call \notin {"connected", "held"}
    BY <1>1, <2>1 DEF InTouch
  <2>3. v \in Cams /\ v.call = "connected" /\ v.input = cam.input /\ v.button = cam.button
        /\ v.on = cam.on /\ SameAsked(v, cam) /\ v.wild = cam.wild /\ v.preview = cam.preview
        /\ v.small = cam.small /\ v.running = cam.running /\ v.woken = cam.woken
    BY <1>1 DEF Cams, SameAsked
  <2>4. cam' = [x EXCEPT !.sensitive = s]
    <3>1. v.input = cam.input
      BY <2>3
    <3> QED BY <2>1, <2>2, <2>3 DEF InProgress
  <2>5. s \in BOOLEAN
    OBVIOUS
  <2> HIDE DEF v, r, s
  <2>6. Filmed(v) /\ Heard(v, channel)
    BY <1>1, <2>1, <2>3 DEF Filmed, Powered, Seen, Heard, SameAsked
  <2>7. /\ x \in Cams /\ x.call = "connected" /\ Filmed(x) /\ Heard(x, channel)
        /\ Len(x.asked) <= Len(v.asked) + 1
    <3>1. CASE v.input
      BY <1>2, <2>3, <2>6, <3>1 DEF SameAsked
    <3>2. CASE ~v.input
      <4> DEFINE y == SetSendVideo(v, FALSE)
      <4>1. x = y
        BY <3>2
      <4>2. /\ y \in Cams /\ SameCamera(y, v) /\ y.running = FALSE /\ y.preview = "hidden"
            /\ Len(y.asked) <= Len(v.asked) + 1
            /\ ~y.wild => ~v.wild /\ (v.preview # "none" \/ v.input)
            /\ channel.up /\ ~y.unheard => Tells(FALSE, y.asked, channel)
        BY <1>1, <2>3, SendVideoSet
      <4> HIDE DEF x, y
      <4>3. Filmed(y)
        BY <2>6, <3>2, <4>2 DEF Filmed, Powered, Seen
      <4>4. Heard(y, channel)
        BY <2>1, <2>6, <3>2, <4>2 DEF Heard, Filmed, Powered, SameCamera, SameWindow
      <4> QED BY <2>3, <4>1, <4>2, <4>3, <4>4 DEF SameCamera, SameWindow
    <3> QED BY <3>1, <3>2
  <2> HIDE DEF x
  <2>8. /\ cam' \in Cams /\ SameCamera(cam', x) /\ SameAsked(cam', x) /\ cam'.wild = x.wild
        /\ cam'.preview = x.preview /\ cam'.small = x.small /\ cam'.running = x.running
        /\ cam'.woken = x.woken
    BY <2>4, <2>5, <2>7 DEF Cams, SameCamera, SameWindow, SameAsked
  <2>9. /\ channel' \in CallChannels /\ channel'.up /\ channel'.answered /\ channel'.accepted
        /\ channel'.video <=> channel.video
        /\ channel'.sends = IF channel.sends = "pending" THEN "sending" ELSE channel.sends
    BY <1>1, <2>1 DEF CallChannels
  <2>10. Filmed(cam')
    BY <2>7, <2>8 DEF Filmed, Powered, Seen, SameCamera, SameWindow
  <2>11. ChannelLives(channel')
    BY <1>1, <2>9 DEF ChannelLives
  <2>12. InTouch(cam', channel')
    <3>1. Len(v.asked) = 0 /\ Len(x.asked) \in Nat
      BY <2>2, <2>3, <2>7 DEF SameAsked, Cams
    <3> QED BY <1>2, <2>7, <2>8, <2>9, <3>1 DEF InTouch, SameAsked
  <2>13. Heard(cam', channel')
    <3>1. Tells(x.on, x.asked, channel) => Tells(x.on, x.asked, channel')
      BY <2>1, <2>9 DEF Tells, WillSend
    <3> QED BY <2>7, <2>8, <3>1 DEF Heard, SameCamera, SameAsked
  <2> QED BY <1>1, <1>3, <2>1, <2>8, <2>9, <2>10, <2>11, <2>12, <2>13, ChannelStepKeeps
<1>7. CASE Asked
  <2> DEFINE rs == cam.asked
  <2>1. /\ rs # <<>> /\ cam' = [cam EXCEPT !.asked = Tail(rs)] /\ requesting' = requesting
        /\ channel' = CASE Head(rs) = "add" -> [channel EXCEPT !.video = TRUE, !.sends = "sending"]
                  [] Head(rs) = "start" /\ channel.video -> [channel EXCEPT !.sends = "sending"]
                  [] Head(rs) = "stop" /\ channel.video -> [channel EXCEPT !.sends = "none"]
                  [] OTHER -> channel
    BY <1>7 DEF Asked, ChannelStep
  <2>2. rs \in Seq(Requests)
    BY <1>2
  <2> HIDE DEF rs
  <2>3. /\ Head(rs) \in Requests /\ Head(rs) = rs[1] /\ Tail(rs) \in Seq(Requests)
        /\ Len(Tail(rs)) = Len(rs) - 1 /\ Len(rs) >= 1
        /\ Tail(rs) # <<>> => Len(rs) > 1 /\ Tail(rs)[Len(Tail(rs))] = rs[Len(rs)]
        /\ Tail(rs) = <<>> => Len(rs) = 1
    <3>1. /\ Head(rs) \in Requests /\ Head(rs) = rs[1] /\ Tail(rs) \in Seq(Requests)
          /\ Len(rs) \in Nat /\ Len(rs) >= 1 /\ Len(Tail(rs)) = Len(rs) - 1
      BY <2>1, <2>2
    <3>2. Tail(rs) = <<>> <=> Len(Tail(rs)) = 0
      BY <3>1, EmptySeq
    <3>3. \A i \in 1..(Len(rs) - 1) : Tail(rs)[i] = rs[i + 1]
      BY <2>1, <2>2
    <3> QED BY <3>1, <3>2, <3>3
  <2>4. /\ cam' \in Cams /\ SameCamera(cam', cam) /\ cam'.asked = Tail(rs) /\ cam'.unheard = cam.unheard
        /\ cam'.wild = cam.wild /\ cam'.preview = cam.preview /\ cam'.small = cam.small
        /\ cam'.running = cam.running /\ cam'.woken = cam.woken
    BY <1>1, <2>1, <2>3 DEF Cams, SameCamera, SameWindow
  <2>5. /\ channel' \in CallChannels
        /\ channel'.up <=> channel.up
        /\ channel'.answered <=> channel.answered
        /\ channel'.accepted <=> channel.accepted
        /\ channel'.video <=> channel.video \/ Head(rs) = "add"
        /\ channel'.sends = IF Head(rs) = "add" \/ (Head(rs) = "start" /\ channel.video) THEN "sending"
                            ELSE IF Head(rs) = "stop" /\ channel.video THEN "none" ELSE channel.sends
    <3>1. CASE Head(rs) = "add"
      BY <1>1, <2>1, <3>1 DEF CallChannels
    <3>2. CASE Head(rs) = "start" /\ channel.video
      BY <1>1, <2>1, <3>2 DEF CallChannels
    <3>3. CASE Head(rs) = "stop" /\ channel.video
      BY <1>1, <2>1, <3>3 DEF CallChannels
    <3>4. CASE Head(rs) # "add" /\ ~channel.video
      <4>1. channel' = channel
        BY <2>1, <3>4
      <4> QED BY <1>1, <3>4, <4>1
    <3> QED BY <2>3, <3>1, <3>2, <3>3, <3>4 DEF Requests
  <2>6. channel.accepted
    BY <1>1, <2>1 DEF InTouch, rs
  <2>7. Filmed(cam')
    BY <1>1, <2>4 DEF Filmed, Powered, Seen, SameCamera, SameWindow
  <2>8. ChannelLives(channel')
    BY <1>1, <2>5, <2>6 DEF ChannelLives
  <2>9. InTouch(cam', channel')
    BY <1>1, <1>2, <2>3, <2>4, <2>5, <2>6 DEF InTouch, rs
  <2>10. Tells(cam.on, rs, channel) => Tells(cam.on, Tail(rs), channel')
    <3>1. CASE Tail(rs) = <<>>
      <4>1. rs[Len(rs)] = Head(rs)
        BY <2>3, <3>1
      <4>2. Tells(cam.on, rs, channel) =>
              (WillSend(Tail(rs), channel') <=> Head(rs) \in {"add", "start"})
        BY <1>1, <2>1, <2>3, <2>5, <2>6, <3>1, <4>1 DEF Tells, WillSend, ChannelLives, Requests
      <4> QED BY <2>1, <3>1, <4>1, <4>2 DEF Tells, WillSend
    <3>2. CASE Tail(rs) # <<>>
      <4>1. WillSend(Tail(rs), channel') <=> WillSend(rs, channel)
        BY <2>1, <2>3, <3>2 DEF WillSend
      <4> QED BY <2>1, <2>3, <2>5, <3>2, <4>1 DEF Tells
    <3> QED BY <3>1, <3>2
  <2>11. channel'.answered => Heard(cam', channel')
    <3>1. cam'.on = cam.on
      BY <2>4 DEF SameCamera
    <3> QED BY <1>1, <2>4, <2>5, <2>10, <3>1 DEF Heard, rs
  <2> QED BY <1>1, <1>3, <2>1, <2>4, <2>5, <2>7, <2>8, <2>9, <2>11, ChannelStepKeeps
<1>8. CASE ContactAddsVideo
  <2>1. /\ channel.accepted /\ ~channel.video /\ UNCHANGED <<cam, requesting>>
        /\ channel' = [channel EXCEPT !.video = TRUE, !.sends = "pending"]
    BY <1>8 DEF ContactAddsVideo, ChannelStep
  <2>2. /\ channel' \in CallChannels /\ channel'.video /\ channel'.sends = "pending"
        /\ channel'.up <=> channel.up
        /\ channel'.answered <=> channel.answered
        /\ channel'.accepted
    BY <1>1, <2>1 DEF CallChannels
  <2>3. ChannelLives(channel') /\ InTouch(cam, channel')
    BY <1>1, <2>1, <2>2 DEF ChannelLives, InTouch
  <2>4. Tells(cam.on, cam.asked, channel) => Tells(cam.on, cam.asked, channel')
    BY <1>1, <2>1, <2>2 DEF Tells, WillSend, ChannelLives
  <2>5. channel'.answered => Heard(cam, channel')
    BY <1>1, <2>2, <2>4 DEF Heard
  <2> QED BY <1>1, <1>3, <2>1, <2>2, <2>3, <2>5, ChannelStepKeeps
<1>9. CASE ContactRemovesVideo
  <2> DEFINE not == cam.unheard \/ cam.on
  <2>1. /\ channel.accepted /\ channel.video /\ requesting' = requesting
        /\ channel' = [channel EXCEPT !.video = FALSE, !.sends = "none"]
        /\ cam' = [cam EXCEPT !.unheard = not]
    BY <1>9 DEF ContactRemovesVideo, ChannelStep
  <2>2. not \in BOOLEAN
    OBVIOUS
  <2> HIDE DEF not
  <2>3. /\ cam' \in Cams /\ SameCamera(cam', cam) /\ cam'.asked = cam.asked /\ cam'.unheard = not
        /\ cam'.wild = cam.wild /\ cam'.preview = cam.preview /\ cam'.small = cam.small
        /\ cam'.running = cam.running /\ cam'.woken = cam.woken
    BY <1>1, <2>1, <2>2 DEF Cams, SameCamera, SameWindow
  <2>4. /\ channel' \in CallChannels /\ ~channel'.video /\ channel'.sends = "none"
        /\ channel'.up <=> channel.up
        /\ channel'.answered <=> channel.answered
        /\ channel'.accepted
    BY <1>1, <2>1 DEF CallChannels
  <2>5. Filmed(cam')
    BY <1>1, <2>3 DEF Filmed, Powered, Seen, SameCamera, SameWindow
  <2>6. ChannelLives(channel') /\ InTouch(cam', channel')
    BY <1>1, <2>1, <2>3, <2>4 DEF ChannelLives, InTouch, SameCamera, SameWindow
  <2>7. ~cam.on /\ Tells(cam.on, cam.asked, channel) => Tells(cam.on, cam.asked, channel')
    BY <2>1, <2>4 DEF Tells, WillSend
  <2>8. channel'.answered => Heard(cam', channel')
    <3>1. cam'.on = cam.on
      BY <2>3 DEF SameCamera
    <3> QED BY <1>1, <2>3, <2>4, <2>7, <3>1 DEF Heard, not
  <2> QED BY <1>1, <1>3, <2>1, <2>3, <2>4, <2>5, <2>6, <2>8, ChannelStepKeeps
<1>10. CASE ContactHolds
  <2> DEFINE s == IF cam.call = "held" THEN "connected" ELSE "held"
  <2>1. channel.accepted /\ channel' = channel /\ requesting' = requesting /\ cam' = [cam EXCEPT !.call = s]
    BY <1>10 DEF ContactHolds, ChannelStep
  <2>2. s \in {"held", "connected"}
    OBVIOUS
  <2> HIDE DEF s
  <2>3. /\ cam' \in Cams /\ cam'.on = cam.on /\ cam'.button = cam.button /\ cam'.input = cam.input
        /\ SameAsked(cam', cam) /\ cam'.wild = cam.wild /\ cam'.preview = cam.preview
        /\ cam'.small = cam.small /\ cam'.running = cam.running /\ cam'.woken = cam.woken
    BY <1>1, <2>1, <2>2 DEF Cams, SameAsked
  <2>4. Filmed(cam')
    BY <1>1, <2>3 DEF Filmed, Powered, Seen
  <2>5. InTouch(cam', channel) /\ (channel.answered => Heard(cam', channel))
    BY <1>1, <2>1, <2>3 DEF InTouch, Heard, SameAsked
  <2> QED BY <1>1, <1>3, <2>1, <2>3, <2>4, <2>5, ChannelStepKeeps
<1>11. CASE CallIsOver
  <2> DEFINE r == EndOfCall(cam)
  <2>1. /\ channel.up /\ requesting' = requesting /\ channel' = NoChannel
        /\ cam' = [r EXCEPT !.asked = <<>>, !.unheard = FALSE]
    BY <1>11 DEF CallIsOver, ChannelStep
  <2>2. r \in Cams /\ Filmed(r) /\ r.call = "disconnected"
    BY <1>1, CallEnded
  <2>3. <<>> \in Seq(Requests) /\ Len(<<>>) = 0
    OBVIOUS
  <2> HIDE DEF r
  <2>4. /\ cam' \in Cams /\ SameCamera(cam', r) /\ cam'.asked = <<>> /\ cam'.wild = r.wild
        /\ cam'.preview = r.preview /\ cam'.small = r.small /\ cam'.running = r.running
        /\ cam'.woken = r.woken
    BY <2>1, <2>2, <2>3 DEF Cams, SameCamera, SameWindow
  <2>5. channel' \in CallChannels /\ ~channel'.up /\ ~channel'.answered /\ ~channel'.accepted
        /\ channel'.sends = "none"
    BY <2>1 DEF NoChannel, CallChannels
  <2>6. Filmed(cam')
    BY <2>2, <2>4 DEF Filmed, Powered, Seen, SameCamera, SameWindow
  <2>7. ChannelLives(channel') /\ InTouch(cam', channel')
    BY <1>2, <2>2, <2>3, <2>4, <2>5 DEF ChannelLives, InTouch, SameCamera, SameWindow
  <2>8. requesting' \in BOOLEAN
    BY <1>1, <2>1
  <2> QED BY <1>3, <2>4, <2>5, <2>6, <2>7, <2>8, ChannelStepKeeps
<1> QED BY <1>4, <1>5, <1>6, <1>7, <1>8, <1>9, <1>10, <1>11

(* The camera films only what the user sees and turned on, and the channel  *)
(* sends what the camera's state says once the requests have arrived: for   *)
(* any bound on the requests that are on the bus.                           *)
THEOREM CameraIsTrue == CameraSpec => []CameraTellsTruth
<1>1. CameraInit => CameraInv
  <2> SUFFICES ASSUME CameraInit PROVE CameraInv
    OBVIOUS
  <2>1. PICK s \in {"pending", "none"} :
          channel = [NewChannel(initial) EXCEPT !.sends = IF initial THEN s ELSE "none"]
    BY DEF CameraInit
  <2>2. channel \in CallChannels /\ ~channel.answered /\ ~channel.accepted /\ ChannelLives(channel)
    BY <2>1 DEF CameraInit, NewChannel, NoChannel, CallChannels, ChannelLives
  <2>3. /\ cam = NewWindow /\ (cameras > 0) \in BOOLEAN
        /\ <<>> \in Seq(Requests) /\ Len(<<>>) = 0
    BY DEF CameraInit
  <2>4. /\ cam \in Cams /\ cam.call = "connecting" /\ cam.asked = <<>> /\ ~cam.on
        /\ ~cam.running /\ cam.preview = "none"
    BY <2>3 DEF NewWindow, Cams
  <2>5. Filmed(cam) /\ InTouch(cam, channel)
    BY <2>3, <2>4, CameraAssumption DEF Filmed, Powered, Seen, InTouch, CameraAssumption
  <2>6. initial \in BOOLEAN /\ requesting = FALSE /\ cameras \in 0..2
    BY DEF CameraInit
  <2> QED BY <2>2, <2>4, <2>5, <2>6 DEF CameraInv, CameraTyped
<1>2. CameraInv /\ [CameraNext]_cameraVars => CameraInv'
  <2> SUFFICES ASSUME CameraInv, [CameraNext]_cameraVars PROVE CameraInv'
    OBVIOUS
  <2>1. CASE UNCHANGED cameraVars
    BY <2>1 DEF cameraVars, CameraInv, CameraTyped, Filmed, Powered, Seen, ChannelLives, InTouch,
                Heard, Tells, WillSend
  <2>2. CASE CameraNext
    BY <2>2, MenuSteps, PipelineSteps, ChannelChanges, CameraAssumption DEF CameraNext
  <2> QED BY <2>1, <2>2
<1>3. CameraInv => CameraTellsTruth
  <2> SUFFICES ASSUME CameraInv PROVE CameraTellsTruth
    OBVIOUS
  <2>1. /\ cam \in Cams /\ channel \in CallChannels /\ Filmed(cam) /\ ChannelLives(channel)
        /\ Len(cam.asked) <= MaxAsked /\ (channel.answered => Heard(cam, channel))
    BY DEF CameraInv, CameraTyped, InTouch
  <2>2. CameraTypeOK
    BY <2>1 DEF CameraTypeOK, Cams, CallChannels, Requests
  <2>3. ~cam.wild => FilmedIsShown
    BY <2>1 DEF Filmed, Powered, Seen, FilmedIsShown, Previewing
  <2>4. ~cam.wild => SentIsAsked
    BY <2>1 DEF SentIsAsked, Heard, Tells, WillSend, ChannelLives
  <2> QED BY <2>2, <2>3, <2>4 DEF CameraTellsTruth
<1> QED BY <1>1, <1>2, <1>3, PTL DEF CameraSpec
=============================================================================
