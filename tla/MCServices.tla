------------------------------ MODULE MCServices ------------------------------
(* Five parts that work in the background, each explored while the others  *)
(* rest, with none of their fair actions enabled: sounds, presence,         *)
(* favorite rooms, file transfers and the streaming thread of a call.       *)
EXTENDS SoundManager, PresenceManager, ChatroomManager, FTManager, CallOutput

CONSTANT r1
VARIABLE part

(* One favorite room is joined automatically. *)
MCFavorites == <<Chatroom(r1, "auto", FALSE)>>

AtRest ==
  /\ part # "sounds" => ~late /\ \A s \in Sounds : enabled[s]
  /\ part # "transfers" => incoming
  /\ part # "presence" => wish = "available" /\ autoAway

MCInit ==
  /\ part \in {"sounds", "presence", "rooms", "transfers", "output"}
  /\ Init /\ PresenceInit /\ RoomsInit /\ ManagerInit /\ OutputInit
  /\ AtRest

MCNext ==
  /\ \/ part = "sounds" /\ Next /\ UNCHANGED <<presenceVars, roomsVars, allVars, outputVars>>
     \/ part = "presence" /\ PresenceNext /\ UNCHANGED <<vars, roomsVars, allVars, outputVars>>
     \/ part = "rooms" /\ RoomsNext /\ UNCHANGED <<vars, presenceVars, allVars, outputVars>>
     \/ part = "transfers" /\ ManagerNext /\ UNCHANGED <<vars, presenceVars, roomsVars, outputVars>>
     \/ part = "output" /\ OutputNext /\ UNCHANGED <<vars, presenceVars, roomsVars, allVars>>
  /\ UNCHANGED part

MCSpec ==
  /\ MCInit /\ [][MCNext]_<<vars, presenceVars, roomsVars, allVars, outputVars, part>>
  /\ Fairness /\ HandlerFairness /\ PresenceFairness /\ RoomsFairness /\ OutputFairness
=============================================================================
