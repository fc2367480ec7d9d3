---------------------------- MODULE SoundManager ----------------------------
(***************************************************************************)
(* libempathy-gtk/empathy-sound-manager.c: sounds played once or in a loop.*)
(* libcanberra plays at most one sound per id here, because each play      *)
(* cancels the id first, and calls a loop back once per play: when it ends *)
(* or is cancelled, in that very step or later (late).                     *)
(***************************************************************************)
CONSTANT Sounds        \* EmpathySound

VARIABLES
  late,                \* finish callbacks come after the end they report
  enabled,             \* empathy_sound_pref_is_enabled ()
  loop,                \* the entry of repeating_sounds: "waiting" has a timer
  widget,              \* the entry's widget
  sounding, callback,  \* at libcanberra: what is heard, and the report to come
  wanted               \* history: started since the last stop

vars == <<late, enabled, loop, widget, sounding, callback, wanted>>

Init ==
  /\ late \in BOOLEAN
  /\ enabled \in [Sounds -> BOOLEAN]
  /\ loop = [s \in Sounds |-> "none"]
  /\ widget = [s \in Sounds |-> "none"]
  /\ sounding = [s \in Sounds |-> "no"]
  /\ callback = [s \in Sounds |-> "none"]
  /\ wanted = [s \in Sounds |-> FALSE]

(* playing_finished_cb () with an error forgets the loop. *)
Forget(s) ==
  /\ loop' = [loop EXCEPT ![s] = "none"]
  /\ widget' = [widget EXCEPT ![s] = "none"]

(* ca_context_cancel () *)
Cancel(s) ==
  /\ sounding' = [sounding EXCEPT ![s] = "no"]
  /\ IF sounding[s] # "loop" THEN UNCHANGED <<loop, widget, callback>>
     ELSE IF late
     THEN callback' = [callback EXCEPT ![s] = "error"] /\ UNCHANGED <<loop, widget>>
     ELSE Forget(s) /\ UNCHANGED callback

-----------------------------------------------------------------------------
(* empathy_sound_manager_play (): not while the sound is in a loop. *)
Play(s) ==
  /\ enabled[s] /\ loop[s] = "none"
  /\ sounding' = [sounding EXCEPT ![s] = "shot"]
  /\ UNCHANGED <<late, enabled, loop, widget, callback, wanted>>

(* empathy_sound_manager_start_playing (): the result of ca_context_play_full *)
(* () is not looked at, so that a play that fails leaves an entry which no   *)
(* callback will ever forget.                                                *)
StartPlaying(s, w, plays) ==
  /\ wanted' = [wanted EXCEPT ![s] = TRUE]
  /\ IF enabled[s] /\ loop[s] = "none"
     THEN /\ loop' = [loop EXCEPT ![s] = "playing"]
          /\ widget' = [widget EXCEPT ![s] = w]
          /\ sounding' = [sounding EXCEPT ![s] = IF plays THEN "loop" ELSE "no"]
     ELSE UNCHANGED <<loop, widget, sounding>>
  /\ UNCHANGED <<late, enabled, callback>>

(* Mutant: the entry goes even when its play is under way. *)
StopForgets(s) ==
  /\ wanted' = [wanted EXCEPT ![s] = FALSE]
  /\ Forget(s)
  /\ UNCHANGED <<late, enabled, sounding, callback>>

(* Mutant: a loop between two plays is not looked for. *)
StopOnlyCancels(s) ==
  /\ wanted' = [wanted EXCEPT ![s] = FALSE]
  /\ Cancel(s)
  /\ UNCHANGED <<late, enabled>>

(* empathy_sound_manager_stop () *)
Stop(s) ==
  /\ wanted' = [wanted EXCEPT ![s] = FALSE]
  /\ IF loop[s] = "waiting" THEN Forget(s) /\ UNCHANGED <<sounding, callback>>
     ELSE Cancel(s)
  /\ UNCHANGED <<late, enabled>>

(* playing_finished_cb () without an error: a timer for the next play. *)
Await(s) ==
  /\ loop' = [loop EXCEPT ![s] = "waiting"]
  /\ UNCHANGED widget

(* libcanberra reaches the end of a sound. *)
SoundEnds(s) ==
  /\ sounding[s] # "no"
  /\ sounding' = [sounding EXCEPT ![s] = "no"]
  /\ IF sounding[s] = "shot" THEN UNCHANGED <<loop, widget, callback>>
     ELSE IF late
     THEN callback' = [callback EXCEPT ![s] = "ok"] /\ UNCHANGED <<loop, widget>>
     ELSE Await(s) /\ UNCHANGED callback
  /\ UNCHANGED <<late, enabled, wanted>>

(* playing_finished_cb () *)
PlayingFinished(s) ==
  /\ callback[s] # "none"
  /\ callback' = [callback EXCEPT ![s] = "none"]
  /\ IF callback[s] = "ok" THEN Await(s) ELSE Forget(s)
  /\ UNCHANGED <<late, enabled, sounding, wanted>>

(* playing_timeout_cb (): the preference is not looked at again, and a play *)
(* that cannot be set up ends the loop.                                     *)
PlayingTimeout(s) ==
  /\ loop[s] = "waiting"
  /\ \/ /\ loop' = [loop EXCEPT ![s] = "playing"]
        /\ \E heard \in {"loop", "no"} : sounding' = [sounding EXCEPT ![s] = heard]
        /\ UNCHANGED widget
     \/ Forget(s) /\ UNCHANGED sounding
  /\ UNCHANGED <<late, enabled, callback, wanted>>

(* empathy_sound_widget_destroyed_cb (): "if it is waiting for replay,      *)
(* remove it [...] otherwise playing_finished_cb will be called with an     *)
(* error".                                                                  *)
WidgetDestroyed(s) ==
  /\ widget[s] = "alive"
  /\ IF loop[s] = "waiting" THEN Forget(s) /\ UNCHANGED <<sounding, callback>>
     ELSE IF sounding[s] = "loop" /\ ~late
     THEN Cancel(s)
     ELSE /\ widget' = [widget EXCEPT ![s] = "destroyed"]
          /\ IF sounding[s] = "loop"
             THEN /\ sounding' = [sounding EXCEPT ![s] = "no"]
                  /\ callback' = [callback EXCEPT ![s] = "error"]
             ELSE UNCHANGED <<sounding, callback>>
          /\ UNCHANGED loop
  /\ UNCHANGED <<late, enabled, wanted>>

PrefChanges(s) ==
  /\ enabled' = [enabled EXCEPT ![s] = ~@]
  /\ UNCHANGED <<late, loop, widget, sounding, callback, wanted>>

Next == \E s \in Sounds :
  \/ Play(s) \/ Stop(s) \/ SoundEnds(s) \/ PlayingFinished(s) \/ PlayingTimeout(s)
  \/ \E w \in {"none", "alive"}, plays \in BOOLEAN : StartPlaying(s, w, plays)
  \/ WidgetDestroyed(s) \/ PrefChanges(s)

(* Sounds end, callbacks and timers come. *)
Fairness == \A s \in Sounds :
  WF_vars(SoundEnds(s)) /\ WF_vars(PlayingFinished(s)) /\ WF_vars(PlayingTimeout(s))

Spec == Init /\ [][Next]_vars /\ Fairness

-----------------------------------------------------------------------------
(* The type invariant; only an entry listens to a widget. *)
TypeOK ==
  /\ enabled \in [Sounds -> BOOLEAN]
  /\ loop \in [Sounds -> {"none", "playing", "waiting"}]
  /\ widget \in [Sounds -> {"none", "alive", "destroyed"}]
  /\ sounding \in [Sounds -> {"no", "shot", "loop"}]
  /\ callback \in [Sounds -> {"none", "ok", "error"}]
  /\ late \in BOOLEAN /\ wanted \in [Sounds -> BOOLEAN]
  /\ \A s \in Sounds : loop[s] = "none" => widget[s] = "none"

(* The user data of a finish callback, the entry, is never freed before the *)
(* callback comes, and there is never a second callback with it: the entry  *)
(* is "playing" until then.                                                 *)
CallbackHasEntry == \A s \in Sounds :
  /\ sounding[s] = "loop" \/ callback[s] # "none" => loop[s] = "playing"
  /\ ~(sounding[s] = "loop" /\ callback[s] # "none")

(* A sound that is stopped falls silent for good, unless it is started again *)
(* and as long as no callback is late.                                       *)
Silent(s) == loop[s] # "waiting" /\ sounding[s] # "loop"
StopSilences == \A s \in Sounds : (~late /\ ~wanted[s]) ~> (wanted[s] \/ Silent(s))
=============================================================================
