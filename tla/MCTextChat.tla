------------------------------ MODULE MCTextChat ------------------------------
(* The four modules of text chats, explored one at a time: the messages of a *)
(* conversation, the password of a room, a channel that gets ready, and the  *)
(* windows, two at a time.  The others rest meanwhile, with none of their    *)
(* fair actions enabled.                                                     *)
EXTENDS ChatMessages, ChatPassword, TpChat, ChatManager

VARIABLE part

(* Chats of one account: the room r, the contact p, and q, which is p by SMS. *)
MCId(c) == IF c = "q" THEN "p" ELSE c

AtRest ==
  /\ part # "messages" => room /\ queue = {}
  /\ part # "password" => ~asked /\ channel = CHOOSE c \in RoomChannels : TRUE
  /\ part # "channel" => ~hasGroup /\ ~reporting

MCInit ==
  /\ part \in {"messages", "password", "channel", "windows"}
  /\ MessagesInit /\ PasswordInit /\ TpChatInit /\ WindowsInit
  /\ AtRest

MCNext ==
  /\ \/ part = "messages" /\ MessagesNext /\ UNCHANGED <<passwordVars, tpChatVars, windowsVars>>
     \/ part = "password" /\ PasswordNext /\ UNCHANGED <<messagesVars, tpChatVars, windowsVars>>
     \/ part = "channel" /\ TpChatNext /\ UNCHANGED <<messagesVars, passwordVars, windowsVars>>
     \/ /\ part = "windows" /\ WindowsNext /\ Len(windows') <= 2
        /\ UNCHANGED <<messagesVars, passwordVars, tpChatVars>>
  /\ UNCHANGED part

MCSpec ==
  /\ MCInit /\ [][MCNext]_<<messagesVars, passwordVars, tpChatVars, windowsVars, part>>
  /\ MessagesFairness /\ PasswordFairness
=============================================================================
