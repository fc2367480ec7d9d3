----------------------------- MODULE CallCamera -----------------------------
(***************************************************************************)
(* The user's camera in the window of a call (empathy-call-window.c, with   *)
(* empathy-camera-menu.c and empathy-camera-monitor.c): its button, its     *)
(* preview and the menus of the preview, the input and the pipeline it is   *)
(* in, and what is asked of the channel's video contents.  The contact can  *)
(* have video calls.                                                        *)
(*                                                                         *)
(* CallWindow has the life of calls and handlers: here one channel comes    *)
(* after the other.                                                         *)
(***************************************************************************)
EXTENDS Naturals, Sequences

CONSTANT MaxAsked   \* bound: the requests to a channel that are on the bus
ASSUME CameraAssumption == MaxAsked \in Nat \ {0}

VARIABLES
  cam,        \* the window
  channel,    \* the call channel, as the connection manager has it
  initial,    \* initial_video of the handler
  requesting, \* the handler is requesting a channel
  cameras     \* the number of cameras that are plugged

cameraVars == <<cam, channel, initial, requesting, cameras>>

NoChannel == [up |-> FALSE, answered |-> FALSE, accepted |-> FALSE,
              video |-> FALSE, sends |-> "none"]
NewChannel(video) ==
  [NoChannel EXCEPT !.up = TRUE, !.video = video, !.sends = IF video THEN "pending" ELSE "none"]

(* What the channel sends, or will once it is accepted.                     *)
Disagrees(on) ==
  channel.up /\ on # (\/ channel.sends = "sending"
                      \/ channel.sends = "pending" /\ ~channel.accepted)

(* The user sees the preview, or the button of a minimised one.            *)
Previewing == cam.preview = "shown" \/ cam.small = "shown"

-----------------------------------------------------------------------------
(* The window's functions, on its record.  History: `wild', an assertion    *)
(* fails or freed memory is used; `unheard', the channel has another state  *)
(* than the camera and nothing will tell it; `woken', the camera was        *)
(* started by something else than its button.                               *)

NewWindow ==
  [call |-> "connecting", hangup |-> TRUE,
   button |-> FALSE, sensitive |-> cameras > 0, on |-> FALSE,
   input |-> TRUE, preview |-> "none", small |-> "none", stray |-> FALSE, running |-> FALSE,
   playing |-> FALSE, starts |-> TRUE, asked |-> <<>>,
   wild |-> FALSE, unheard |-> FALSE, woken |-> FALSE]

Crash(w) == [w EXCEPT !.wild = TRUE]

(* create_video_preview () and add_video_preview_to_pipeline (), which       *)
(* asserts that there is an input.  `small' is the button of a preview that  *)
(* is minimised; one of an earlier preview that is on screen stays there.   *)
AddPreview(w) ==
  IF w.preview # "none" THEN w
  ELSE IF ~w.input THEN Crash(w)
  ELSE [w EXCEPT !.preview = "shown", !.small = "hidden", !.stray = @ \/ w.small = "shown"]

PlayCamera(w, play) == [AddPreview(w) EXCEPT !.running = play]

(* Mutant: the camera goes on behind the hidden preview. *)
DisplayPreviewFilms(w, display) ==
  [AddPreview(w) EXCEPT !.preview = IF display THEN "shown" ELSE "hidden",
                        !.running = @ \/ display, !.woken = @ /\ ~display]

(* display_video_preview () *)
DisplayPreview(w, display) ==
  [PlayCamera(w, display) EXCEPT !.preview = IF display THEN "shown" ELSE "hidden",
                                 !.woken = @ /\ ~display]

(* empathy_call_channel_send_video (): the contents that are there are told, *)
(* and one is added to start sending when there is none.                    *)
SendVideo(w, send) ==
  IF channel.video
  THEN [w EXCEPT !.asked = Append(@, IF send THEN "start" ELSE "stop"), !.unheard = FALSE]
  ELSE IF send THEN [w EXCEPT !.asked = Append(@, "add"), !.unheard = FALSE]
  ELSE [w EXCEPT !.unheard = w.asked # <<>>]

(* empathy_call_window_set_send_video (): only a call in progress is told.   *)
SetSendVideo(w, send) ==
  LET v == DisplayPreview(w, send) IN
  IF w.call = "connected" THEN SendVideo(v, send)
  ELSE [v EXCEPT !.unheard = Disagrees(send) \/ w.asked # <<>>]

DisableCamera(w) ==
  IF ~w.on THEN w ELSE [SetSendVideo(w, FALSE) EXCEPT !.on = FALSE]

EnableCamera(w) ==
  IF w.on \/ ~w.input THEN w
  ELSE [SetSendVideo(w, TRUE) EXCEPT !.on = TRUE, !.woken = FALSE]

(* gtk_toggle_button_set_active () and                                     *)
(* empathy_call_window_camera_toggled_cb ()                                *)
SetButton(w, active) ==
  LET v == [w EXCEPT !.button = active] IN
  IF w.button = active THEN w
  ELSE IF active THEN EnableCamera(v) ELSE DisableCamera(v)

(* start_call (), after empathy_call_handler_start_call () *)
StartVideo(w, video) ==
  LET v == [w EXCEPT !.unheard = Disagrees(w.on) \/ w.asked # <<>>] IN
  IF ~video THEN v
  ELSE IF ~channel.up \/ channel.sends # "none" THEN SetButton(v, TRUE)
  ELSE AddPreview(SetButton(v, FALSE))

Starts(w, video) ==
  /\ cam' = StartVideo(w, video)
  /\ IF channel.up
     THEN channel' = [channel EXCEPT !.answered = TRUE] /\ UNCHANGED requesting
     ELSE requesting' = TRUE /\ UNCHANGED channel

(* empathy_call_window_disconnected (): the new pipeline gets the input and  *)
(* a preview if the camera is on.                                           *)
EndOfCall(w) ==
  LET v == [w EXCEPT !.preview = "none", !.running = FALSE, !.woken = FALSE,
                     !.playing = FALSE, !.starts = FALSE,
                     !.call = "disconnected", !.hangup = FALSE, !.sensitive = FALSE]
  IN  IF w.on THEN DisplayPreview(v, TRUE) ELSE v

(* empathy_call_window_state_changed_cb (): a window that has lost its input *)
(* stops sending, which needs one.                                          *)
InProgress(w) ==
  IF w.call = "connected" THEN w
  ELSE LET v == [w EXCEPT !.call = "connected", !.hangup = TRUE] IN
       [IF v.input THEN v ELSE SetSendVideo(v, FALSE)
          EXCEPT !.sensitive = w.input /\ cameras > 0]

-----------------------------------------------------------------------------
CameraInit ==
  /\ cameras \in 0..2 /\ initial \in BOOLEAN /\ requesting = FALSE
  /\ \E s \in {"pending", "none"} :
       channel = [NewChannel(initial) EXCEPT !.sends = IF initial THEN s ELSE "none"]
  /\ cam = NewWindow

(* What the user does.                                                     *)

CanAsk == Len(cam.asked) < MaxAsked
Rest == UNCHANGED <<channel, initial, requesting, cameras>>

ToggleCamera ==
  /\ cam.sensitive /\ CanAsk
  /\ cam' = SetButton(cam, ~cam.button) /\ Rest

(* The menus of the preview, and of the button of a minimised one:          *)
(* empathy_call_window_disable_camera_cb () destroys that button, and keeps  *)
(* the pointer.                                                             *)
MenuDisable ==
  /\ (Previewing \/ cam.stray) /\ CanAsk
  /\ cam' = IF cam.small = "freed" THEN Crash(cam)
            ELSE SetButton([cam EXCEPT !.small = "freed"], FALSE)
  /\ Rest

MenuMinimise ==
  /\ cam.preview = "shown"
  /\ cam' = IF cam.small = "freed" THEN Crash(cam)
            ELSE [cam EXCEPT !.preview = "hidden", !.small = "shown"]
  /\ Rest

MenuMaximise ==
  /\ cam.small = "shown" \/ cam.stray
  /\ cam' = IF cam.small = "freed" THEN Crash(cam)
            ELSE [cam EXCEPT !.small = "hidden", !.preview = IF @ = "none" THEN @ ELSE "shown"]
  /\ Rest

(* empathy_camera_menu_activate_cb () and empathy_call_window_change_webcam  *)
(* (), also by way of the setting and empathy_call_window_swap_camera_cb (): *)
(* "Restart the camera only if it's already running" takes one whose        *)
(* preview is hidden for running.                                           *)
ChangeWebcam ==
  /\ cameras > 1
  /\ cam' = IF ~cam.input THEN Crash(cam)
            ELSE IF cam.preview = "none" THEN cam
            ELSE [PlayCamera(PlayCamera(cam, FALSE), TRUE)
                    EXCEPT !.woken = @ \/ ~cam.running]
  /\ Rest

(* The call buttons, and empathy_call_window_restart_call ().  Bound: one    *)
(* channel is requested at a time.                                          *)
Redials(w, video) ==
  LET v == [w EXCEPT !.call = "connecting", !.hangup = TRUE] IN
  /\ ~cam.hangup /\ ~requesting
  /\ initial' = video
  /\ IF cam.playing THEN Starts(v, video)
     ELSE cam' = [v EXCEPT !.starts = TRUE] /\ UNCHANGED <<channel, requesting>>
  /\ UNCHANGED cameras

AudioCall == Redials(cam, FALSE)
VideoCall ==
  /\ CanAsk
  /\ Redials([SetSendVideo(cam, TRUE) EXCEPT !.woken = ~cam.on, !.unheard = cam.unheard \/ ~cam.on], TRUE)

-----------------------------------------------------------------------------
(* The pipeline and the cameras.                                           *)

(* empathy_call_window_bus_message (): all that is in the pipeline plays.   *)
PipelinePlays ==
  LET v == [cam EXCEPT !.playing = TRUE, !.running = cam.preview # "none",
                       !.woken = @ \/ (~cam.running /\ cam.preview # "none")]
  IN
  /\ ~cam.playing /\ CanAsk
  /\ IF cam.starts THEN Starts(v, initial) ELSE cam' = v /\ UNCHANGED <<channel, requesting>>
  /\ UNCHANGED <<initial, cameras>>

PipelineFails == cam' = EndOfCall(cam) /\ Rest

(* empathy_call_window_remove_video_input (): "Remove the video input and    *)
(* continue".                                                               *)
CameraFails ==
  /\ cam.running /\ CanAsk
  /\ cam' = [DisableCamera(cam) EXCEPT !.input = FALSE, !.preview = "none",
                                       !.running = FALSE, !.woken = FALSE,
                                       !.sensitive = FALSE]
  /\ Rest

(* on_camera_added () and on_camera_removed (): the button follows           *)
(* "available", and the menu asks the input for its device.                 *)
Plugs(n) ==
  LET v == [cam EXCEPT !.sensitive = IF (cameras = 0) # (n = 0) THEN n > 0 ELSE @] IN
  /\ n \in 0..2 /\ n \in {cameras - 1, cameras + 1}
  /\ cameras' = n
  /\ cam' = IF cam.input THEN v ELSE Crash(v)
  /\ UNCHANGED <<channel, initial, requesting>>

-----------------------------------------------------------------------------
(* The channel.  Streams that wait for us send once the call is accepted.   *)

ChannelStep == UNCHANGED <<initial, requesting, cameras>>

RequestSucceeds ==
  /\ requesting /\ requesting' = FALSE
  /\ channel' = [NewChannel(initial) EXCEPT !.answered = TRUE]
  /\ cam' = [cam EXCEPT !.unheard = cam.on # initial]
  /\ UNCHANGED <<initial, cameras>>

RequestIsLost == requesting /\ requesting' = FALSE /\ UNCHANGED <<cam, channel, initial, cameras>>

CallAnswered ==
  /\ channel.up /\ channel.answered /\ ~channel.accepted
  /\ channel' = [channel EXCEPT !.accepted = TRUE,
                                !.sends = IF @ = "pending" THEN "sending" ELSE @]
  /\ cam' = InProgress(cam)
  /\ ChannelStep

Asked ==
  /\ cam.asked # <<>>
  /\ cam' = [cam EXCEPT !.asked = Tail(@)]
  /\ channel' = CASE Head(cam.asked) = "add" -> [channel EXCEPT !.video = TRUE, !.sends = "sending"]
                  [] Head(cam.asked) = "start" /\ channel.video -> [channel EXCEPT !.sends = "sending"]
                  [] Head(cam.asked) = "stop" /\ channel.video -> [channel EXCEPT !.sends = "none"]
                  [] OTHER -> channel
  /\ ChannelStep

(* The contact adds video to the call, which waits for us, or removes it.   *)
ContactAddsVideo ==
  /\ channel.accepted /\ ~channel.video
  /\ channel' = [channel EXCEPT !.video = TRUE, !.sends = "pending"]
  /\ UNCHANGED cam /\ ChannelStep

ContactRemovesVideo ==
  /\ channel.accepted /\ channel.video
  /\ channel' = [channel EXCEPT !.video = FALSE, !.sends = "none"]
  /\ cam' = [cam EXCEPT !.unheard = @ \/ cam.on]
  /\ ChannelStep

(* empathy_call_window_members_changed_cb (), whatever the window is doing. *)
ContactHolds ==
  /\ channel.accepted
  /\ cam' = [cam EXCEPT !.call = IF @ = "held" THEN "connected" ELSE "held"]
  /\ UNCHANGED channel /\ ChannelStep

CallIsOver ==
  /\ channel.up
  /\ channel' = NoChannel
  /\ cam' = [EndOfCall(cam) EXCEPT !.asked = <<>>, !.unheard = FALSE]
  /\ ChannelStep

-----------------------------------------------------------------------------
CameraNext ==
  /\ ~cam.wild
  /\ \/ ToggleCamera \/ MenuDisable \/ MenuMinimise \/ MenuMaximise \/ ChangeWebcam
     \/ AudioCall \/ VideoCall \/ PipelinePlays \/ PipelineFails \/ CameraFails
     \/ \E n \in 0..2 : Plugs(n)
     \/ RequestSucceeds \/ RequestIsLost \/ CallAnswered \/ Asked
     \/ ContactAddsVideo \/ ContactRemovesVideo \/ ContactHolds \/ CallIsOver

CameraSpec == CameraInit /\ [][CameraNext]_cameraVars

-----------------------------------------------------------------------------
(* The type invariant. *)
CameraTypeOK ==
  /\ cam.call \in {"connecting", "connected", "held", "disconnected"}
  /\ cam.preview \in {"none", "hidden", "shown"}
  /\ cam.small \in {"none", "hidden", "shown", "freed"}
  /\ cam.asked \in Seq({"start", "stop", "add"}) /\ Len(cam.asked) <= MaxAsked
  /\ channel.sends \in {"none", "pending", "sending"}

(* NEWS, #601288, "Video preview should always be displayed when we are     *)
(* sending video": the camera films only while it is turned on and the user  *)
(* sees the preview, or the button of a minimised one, unless a change of    *)
(* webcam, a new pipeline or a video call started it before its button did.  *)
(* And what the channel sends is what the camera's state says, once the      *)
(* requests have arrived, unless nothing was told: the call was not in       *)
(* progress when the camera was turned on or off, the contact removed the    *)
(* video, or the content that was asked for came after it was turned off.    *)
FilmedIsShown ==
  /\ cam.running => cam.input
  /\ cam.running /\ ~cam.woken => cam.on /\ cam.button /\ Previewing
SentIsAsked ==
  cam.call = "connected" /\ channel.accepted /\ cam.asked = <<>> /\ ~cam.unheard
    => (cam.on <=> channel.sends = "sending")

CameraTellsTruth ==
  CameraTypeOK /\ (~cam.wild => FilmedIsShown /\ SentIsAsked)
=============================================================================
