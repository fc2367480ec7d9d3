---------------------------- MODULE ChatPassword ----------------------------
(***************************************************************************)
(* The password of a room, in libempathy-gtk/empathy-chat.c: looked up in  *)
(* the keyring when a channel needs one, and asked for in an info bar when *)
(* the keyring has none or it is wrong.  The chat survives its channels;   *)
(* each of them starts one lookup at most, so what that lookup leads to is *)
(* kept under the channel that started it.                                 *)
(***************************************************************************)
EXTENDS Naturals, FiniteSets

CONSTANTS
  RoomChannels,            \* the successive channels of the room
  NoChannel
ASSUME PasswordAssumption == NoChannel \notin RoomChannels

Answers == {"ok", "wrong", "error"}              \* of ProvidePassword

VARIABLES
  channel, used,       \* priv->tp_chat, and the channels there were
  asked,              \* tp_channel_password_needed () of the channel
  stage, on,           \* per lookup: where it is; the channel its bar listens to
  input, paned         \* sensitive: input_text_view, and hpaned around it

passwordVars == <<channel, used, asked, stage, on, input, paned>>

Bars == {"asking", "providing", "stuck", "saving"}
Shown == {c \in RoomChannels : stage[c] \in Bars}

-----------------------------------------------------------------------------
(* The chat is created for its first channel. *)
PasswordInit ==
  /\ channel \in RoomChannels /\ used = {channel} /\ asked \in BOOLEAN
  /\ stage = [c \in RoomChannels |-> IF c = channel /\ asked THEN "lookup" ELSE "none"]
  /\ on = [c \in RoomChannels |-> NoChannel]
  /\ input = TRUE /\ paned = TRUE

(* empathy_chat_set_tp_chat () and chat_password_needed_changed_cb () *)
Connected(c, need) ==
  /\ channel = NoChannel /\ c \notin used
  /\ channel' = c /\ used' = used \union {c} /\ asked' = need
  /\ stage' = [stage EXCEPT ![c] = IF need THEN "lookup" ELSE "none"]
  /\ input' = TRUE
  /\ UNCHANGED <<on, paned>>

(* Mutant: the info bars are kept. *)
RoomInvalidatedKeepsBars ==
  /\ channel # NoChannel /\ channel' = NoChannel /\ asked' = FALSE
  /\ stage' = [c \in RoomChannels |-> IF stage[c] \in {"saved", "gave up"} THEN "done" ELSE stage[c]]
  /\ input' = FALSE
  /\ UNCHANGED <<used, on, paned>>

(* chat_invalidated_cb () and infobar_chat_invalidated_cb (); the calls to  *)
(* the channel end in an error that their callbacks ignore.                 *)
RoomInvalidated ==
  /\ channel # NoChannel /\ channel' = NoChannel /\ asked' = FALSE
  /\ stage' = [c \in RoomChannels |->
       IF stage[c] \in {"saved", "gave up"} \/ (c \in Shown /\ on[c] = channel) THEN "done"
       ELSE IF stage[c] = "providing" THEN "stuck" ELSE stage[c]]
  /\ input' = FALSE
  /\ UNCHANGED <<used, on, paned>>

(* display_password_info_bar (), and its callers *)
DisplayInfoBar(c) ==
  /\ stage' = [stage EXCEPT ![c] = "asking"]
  /\ on' = [on EXCEPT ![c] = channel]
  /\ input' = FALSE /\ paned' = FALSE

(* chat_room_got_password_cb (): the password goes to the channel of now,   *)
(* and nowhere without one.                                                 *)
GotPassword(c) ==
  /\ stage[c] = "lookup"
  /\ stage' = [stage EXCEPT ![c] = IF channel = NoChannel THEN "done" ELSE "saved"]
  /\ UNCHANGED <<channel, used, asked, on, input, paned>>

NoPassword(c) ==
  /\ stage[c] = "lookup"
  /\ DisplayInfoBar(c)
  /\ UNCHANGED <<channel, used, asked>>

(* Mutant: the saved password is taken for right. *)
SavedAnsweredIgnored(c, answer) ==
  /\ stage[c] = "saved"
  /\ stage' = [stage EXCEPT ![c] = "done"]
  /\ paned' = TRUE /\ asked' = (asked /\ answer # "ok")
  /\ UNCHANGED <<channel, used, on, input>>

(* provide_saved_password_cb () *)
SavedAnswered(c, answer) ==
  /\ stage[c] = "saved"
  /\ \/ /\ answer = "ok" /\ asked' = FALSE
        /\ stage' = [stage EXCEPT ![c] = "done"] /\ paned' = TRUE
        /\ UNCHANGED <<on, input>>
     \/ /\ answer = "wrong" /\ DisplayInfoBar(c)
        /\ UNCHANGED asked
     \/ /\ answer = "error" /\ stage' = [stage EXCEPT ![c] = "gave up"]
        /\ UNCHANGED <<asked, on, input, paned>>
  /\ UNCHANGED <<channel, used>>

(* password_infobar_response_cb (): the bar waits, for a channel or not. *)
Join(c) ==
  /\ stage[c] = "asking"
  /\ stage' = [stage EXCEPT ![c] = IF channel = NoChannel THEN "stuck" ELSE "providing"]
  /\ UNCHANGED <<channel, used, asked, on, input, paned>>

(* provide_password_cb () *)
BarAnswered(c, answer) ==
  /\ stage[c] = "providing"
  /\ stage' = [stage EXCEPT ![c] = CASE answer = "ok" -> "saving"
                                     [] answer = "wrong" -> "asking"
                                     [] answer = "error" -> "stuck"]
  /\ asked' = (asked /\ answer # "ok")
  /\ input' = (input \/ answer = "ok") /\ paned' = (paned \/ answer = "ok")
  /\ UNCHANGED <<channel, used, on>>

(* remember_password_infobar_response_cb () *)
Remember(c) ==
  /\ stage[c] = "saving"
  /\ stage' = [stage EXCEPT ![c] = "done"]
  /\ UNCHANGED <<channel, used, asked, on, input, paned>>

PasswordNext ==
  \/ \E c \in RoomChannels, need \in BOOLEAN : Connected(c, need)
  \/ RoomInvalidated
  \/ \E c \in RoomChannels : GotPassword(c) \/ NoPassword(c) \/ Join(c) \/ Remember(c)
  \/ \E c \in RoomChannels, answer \in Answers :
       SavedAnswered(c, answer) \/ BarAnswered(c, answer)

(* The keyring and the connection manager answer. *)
PasswordFairness ==
  \A c \in RoomChannels :
    /\ WF_passwordVars(GotPassword(c) \/ NoPassword(c))
    /\ WF_passwordVars(\E answer \in Answers : SavedAnswered(c, answer))

PasswordSpec == PasswordInit /\ [][PasswordNext]_passwordVars /\ PasswordFairness

-----------------------------------------------------------------------------
(* The type invariant. *)
PasswordTypeOK ==
  /\ channel \in RoomChannels \union {NoChannel} /\ used \subseteq RoomChannels
  /\ stage \in [RoomChannels -> Bars \union {"none", "lookup", "saved", "gave up", "done"}]
  /\ on \in [RoomChannels -> used \union {NoChannel}]
  /\ {asked, input, paned} \subseteq BOOLEAN
  /\ \A c \in RoomChannels : stage[c] \in {"saved", "providing"} => channel # NoChannel

(* "so we don't have multiple infobars when the MUC is rejoined": a bar     *)
(* that was displayed for a channel goes with it.                           *)
BarsGoWithTheirChannel == PasswordTypeOK /\ \A c \in Shown : on[c] \in {channel, NoChannel}

(* The user is never left waiting in a room that needs a password: it is    *)
(* joined, left, or a bar asks for the password.  The code has a FIXME for  *)
(* a saved password that meets another error than being wrong.              *)
NeededIsAskedFor ==
  \A c \in RoomChannels : (channel = c /\ asked) ~>
    (channel # c \/ ~asked \/ Shown # {} \/ \E d \in RoomChannels : stage[d] = "gave up")
=============================================================================
