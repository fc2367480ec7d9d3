-------------------------------- MODULE MCCalls --------------------------------
(* The window of a call and its camera, each explored while the other      *)
(* rests, with none of its fair actions enabled.                           *)
EXTENDS CallWindow, CallCamera

VARIABLE part

AtRest == part # "camera" => cameras = 0 /\ ~initial

MCInit ==
  /\ part \in {"window", "camera"}
  /\ Init /\ CameraInit
  /\ AtRest

MCNext ==
  /\ \/ part = "window" /\ Next /\ UNCHANGED cameraVars
     \/ part = "camera" /\ CameraNext /\ UNCHANGED vars
  /\ UNCHANGED part

MCSpec == MCInit /\ [][MCNext]_<<vars, cameraVars, part>> /\ Fairness
=============================================================================
