----------------------------- MODULE CallOutput -----------------------------
(***************************************************************************)
(* The contact's video in the window of a call (empathy-call-window.c): a   *)
(* streaming thread links the pad of the video to a sink and probes it, the *)
(* main thread shows the video or the contact's avatar.                     *)
(***************************************************************************)
EXTENDS Naturals

CONSTANT MaxRedials   \* bound: the calls that are redialled
ASSUME OutputAssumption == MaxRedials \in Nat

VARIABLES
  talk,      \* the call: its state in the window
  redials,   \* the calls that were redialled
  sends,     \* the contact sends video
  linked,    \* the pad of the video is linked and probed
  probe,     \* the streaming thread is in the middle of the probe
  gotVideo,  \* priv->got_video
  watch,     \* the timer priv->got_video_src
  shows,     \* idle callbacks that show the video: with a reference or without
  output,    \* the widget of the video
  freedUse   \* history: an idle callback uses a window that is freed

outputVars == <<talk, redials, sends, linked, probe, gotVideo, watch, shows, output, freedUse>>

OutputInit ==
  /\ talk = "connecting" /\ redials = 0 /\ sends = FALSE /\ linked = FALSE
  /\ probe = FALSE /\ gotVideo = FALSE /\ watch = FALSE /\ shows = {}
  /\ output = "shown" /\ freedUse = FALSE

-----------------------------------------------------------------------------
(* The streaming thread.                                                   *)

ContactSends ==
  /\ talk = "connected" /\ sends' = ~sends
  /\ UNCHANGED <<talk, redials, linked, probe, gotVideo, watch, shows, output, freedUse>>

(* empathy_call_window_src_added_cb (), again for each stream: the callback  *)
(* that shows the video has no reference to the window.                     *)
SrcAdded ==
  /\ talk \in {"connecting", "connected"}
  /\ linked' = TRUE /\ watch' = TRUE /\ shows' = shows \union {"bare"}
  /\ UNCHANGED <<talk, redials, sends, probe, gotVideo, output, freedUse>>

(* empathy_call_window_video_probe_cb () reads the flag and sets it without  *)
(* a lock.                                                                  *)
ProbeShows ==
  /\ linked /\ sends /\ ~probe /\ ~gotVideo
  /\ probe' = TRUE /\ shows' = shows \union {"referenced"}
  /\ UNCHANGED <<talk, redials, sends, linked, gotVideo, watch, output, freedUse>>

ProbeNotes ==
  /\ probe /\ probe' = FALSE /\ gotVideo' = TRUE
  /\ UNCHANGED <<talk, redials, sends, linked, watch, shows, output, freedUse>>

-----------------------------------------------------------------------------
(* The main thread.                                                        *)

Shown(show) == IF output = "none" THEN output ELSE IF show THEN "shown" ELSE "hidden"

(* empathy_call_window_show_video_output_cb () *)
IdleShows(r) ==
  /\ r \in shows /\ shows' = shows \ {r}
  /\ IF talk = "closed" THEN freedUse' = (r = "bare") /\ UNCHANGED output
     ELSE output' = Shown(TRUE) /\ UNCHANGED freedUse
  /\ UNCHANGED <<talk, redials, sends, linked, probe, gotVideo, watch>>

(* Mutant: the flag is not reset. *)
CheckVideoKeepsFlag ==
  /\ watch
  /\ output' = IF gotVideo THEN output ELSE Shown(FALSE)
  /\ UNCHANGED <<talk, redials, sends, linked, probe, gotVideo, watch, shows, freedUse>>

(* empathy_call_window_check_video_cb (), each second. *)
CheckVideo ==
  /\ watch
  /\ gotVideo' = FALSE
  /\ output' = IF gotVideo THEN output ELSE Shown(FALSE)
  /\ UNCHANGED <<talk, redials, sends, linked, probe, watch, shows, freedUse>>

(* empathy_call_window_state_changed_cb (), once the idle callbacks have run:*)
(* the network is slower than they are.                                     *)
AnswerComes ==
  /\ talk = "connecting" /\ shows = {}
  /\ talk' = "connected" /\ output' = Shown(FALSE)
  /\ UNCHANGED <<redials, sends, linked, probe, gotVideo, watch, shows, freedUse>>

(* empathy_call_window_content_removed_cb (): the timer goes on.           *)
ContentRemoved ==
  /\ linked /\ linked' = FALSE
  /\ probe' = FALSE /\ gotVideo' = (gotVideo \/ probe)
  /\ UNCHANGED <<talk, redials, sends, watch, shows, output, freedUse>>

(* empathy_call_window_disconnected (): the thread ends with its pipeline.  *)
OutputDestroyed ==
  /\ linked' = FALSE /\ sends' = FALSE /\ probe' = FALSE
  /\ gotVideo' = (gotVideo \/ probe)
  /\ watch' = FALSE /\ output' = "none"

TalkEnds ==
  /\ talk \in {"connecting", "connected"}
  /\ talk' = "disconnected" /\ OutputDestroyed
  /\ UNCHANGED <<redials, shows, freedUse>>

(* create_video_output_widget (), by empathy_call_window_restart_call () *)
TalkAgain ==
  /\ talk = "disconnected" /\ redials < MaxRedials
  /\ redials' = redials + 1 /\ talk' = "connecting" /\ output' = "shown"
  /\ UNCHANGED <<sends, linked, probe, gotVideo, watch, shows, freedUse>>

(* A reference of an idle callback keeps the window, which is disposed of   *)
(* all the same.                                                            *)
TalkCloses ==
  /\ talk # "closed" /\ talk' = "closed" /\ OutputDestroyed
  /\ UNCHANGED <<redials, shows, freedUse>>

OutputNext ==
  /\ ~freedUse
  /\ \/ ContactSends \/ SrcAdded \/ ProbeShows \/ ProbeNotes
     \/ \E r \in {"bare", "referenced"} : IdleShows(r)
     \/ CheckVideo \/ AnswerComes \/ ContentRemoved \/ TalkEnds \/ TalkAgain \/ TalkCloses

(* The main loop runs its callbacks and the thread goes on.                 *)
OutputFairness ==
  /\ WF_outputVars(~freedUse /\ CheckVideo)
  /\ WF_outputVars(~freedUse /\ ProbeNotes)
  /\ \A r \in {"bare", "referenced"} : WF_outputVars(~freedUse /\ IdleShows(r))

OutputSpec == OutputInit /\ [][OutputNext]_outputVars /\ OutputFairness

-----------------------------------------------------------------------------
(* NEWS, #582810, "When we stop receiving video in a call, we should not see *)
(* the last video frame": once no video comes in a call, the avatar is back, *)
(* whatever the probe and the timer read and set in between.  (Each stream   *)
(* that is added shows the output for a second.)                            *)
LastFrameGoes ==
  <>[](talk = "connected" /\ ~(sends /\ linked)) /\ <>[][~SrcAdded]_outputVars
    => <>[](output # "shown")
=============================================================================
