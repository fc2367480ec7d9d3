------------------------------- MODULE TpChat -------------------------------
(***************************************************************************)
(* A text channel as libempathy/empathy-tp-chat.c prepares and follows it: *)
(* when it is ready to be shown, who is in it, and which of the messages   *)
(* sent are still on their way.  Messages received are in ChatMessages.    *)
(***************************************************************************)
EXTENDS Naturals, Sequences, FiniteSets, SequencesExt

CONSTANTS
  Contacts,            \* who may be in the channel; Self is among them
  Self,
  Tokens, Old,         \* messages sent; those an earlier handler sent
  Groups, Reporting,   \* the values of: has a group, supports delivery reports
  MaxReports           \* bound on the reports that wait
ASSUME TpChatAssumption ==
  /\ Self \in Contacts /\ IsFiniteSet(Contacts)
  /\ Old \subseteq Tokens /\ Groups \union Reporting \subseteq BOOLEAN

VARIABLES
  hasGroup, reporting,
  group, me,           \* the members on the server, and which of them is us
  members, user,       \* priv->members, priv->user
  preparing,           \* ready_result is set
  preparingPassword, needed,   \* needed: tp_channel_password_needed ()
  attached,            \* an EmpathyChat listens
  out,                 \* what became of each message on the server
  reports,             \* delivery reports that wait in the channel
  sending,             \* messages_being_sent
  told                 \* failures a listening chat was told of

groupVars == <<group, me, members, user>>
readyVars == <<preparing, preparingPassword, needed>>
sentVars == <<out, reports, sending, told>>
tpChatVars == <<hasGroup, reporting, groupVars, readyVars, attached, sentVars>>

(* tp_chat_set_delivery_status () *)
Sending(on) == IF reporting THEN on ELSE {}

(* Mutant: a failure leaves the table alone. *)
AfterReportsNotFailed(rs) ==
  {t \in Tokens :
     LET own == {k \in DOMAIN rs : rs[k].token = t /\ rs[k].status # "failed"} IN
     IF own = {} THEN t \in sending ELSE rs[Max(own)].status = "accepted"}

(* The table of messages being sent, after handle_delivery_report () for    *)
(* one report after another: the last one of a message counts.              *)
AfterReports(rs) ==
  {t \in Tokens :
     LET own == {k \in DOMAIN rs : rs[k].token = t} IN
     IF own = {} THEN t \in sending ELSE rs[Max(own)].status = "accepted"}

HandleReports(rs) ==
  /\ sending' = Sending(AfterReports(rs))
  /\ told' = told \union {r.token : r \in {s \in ToSet(rs) : attached /\ s.status = "failed"}}

(* check_almost_ready () and check_ready (): with members, a remote contact *)
(* or a password to ask for, what is pending is read and the chat is ready. *)
CheckReady(ms, password, need) ==
  IF preparing /\ ~password /\ (need \/ ms # <<>> \/ ~hasGroup)
  THEN preparing' = FALSE /\ reports' = <<>> /\ HandleReports(reports)
  ELSE UNCHANGED <<preparing, reports, sending, told>>

-----------------------------------------------------------------------------
(* tp_chat_prepare_ready_async (): what is known at once, with the password *)
(* still to come.  A channel without a password has it prepared at once.    *)
TpChatInit ==
  /\ hasGroup \in Groups /\ reporting \in Reporting
  /\ group \in (IF hasGroup THEN SUBSET Contacts ELSE {{}})
  /\ me = Self /\ user = Self
  /\ members \in SetToSeqs(group)
  /\ preparing = TRUE /\ preparingPassword = TRUE /\ needed = FALSE
  /\ attached = FALSE
  /\ out = [t \in Tokens |-> IF t \in Old THEN "sent" ELSE "new"]
  /\ reports = <<>> /\ sending = {} /\ told = {}

(* password_feature_prepare_cb () *)
PasswordPrepared(need) ==
  /\ preparingPassword /\ preparingPassword' = FALSE
  /\ (need => hasGroup) /\ needed' = need
  /\ CheckReady(members, FALSE, need)
  /\ UNCHANGED <<hasGroup, reporting, groupVars, attached, out>>

PasswordGiven ==
  /\ needed /\ needed' = FALSE
  /\ UNCHANGED <<hasGroup, reporting, groupVars, preparing, preparingPassword, attached, sentVars>>

(* add_members_contact () *)
Added(c) ==
  /\ hasGroup /\ c \notin group
  /\ group' = group \union {c} /\ members' = <<c>> \o members
  /\ CheckReady(members', preparingPassword, needed)
  /\ UNCHANGED <<hasGroup, reporting, me, user, preparingPassword, needed, attached, out>>

(* remove_member (); we may be removed too. *)
Removed(c) ==
  /\ c \in group
  /\ group' = group \ {c} /\ members' = RemoveFirst(members, c)
  /\ UNCHANGED <<hasGroup, reporting, me, user, readyVars, attached, sentVars>>

(* contact_renamed () *)
Renamed(c, d) ==
  /\ c \in group /\ d \notin group /\ (d = me => c = me)
  /\ group' = (group \ {c}) \union {d} /\ me' = IF c = me THEN d ELSE me
  /\ members' = RemoveFirst(<<d>> \o members, c)
  /\ user' = IF user = c THEN d ELSE user
  /\ CheckReady(members', preparingPassword, needed)
  /\ UNCHANGED <<hasGroup, reporting, preparingPassword, needed, attached, out>>

(* The handler gives the channel to a chat, which connects to its signals. *)
Attach ==
  /\ ~preparing /\ ~attached /\ attached' = TRUE
  /\ UNCHANGED <<hasGroup, reporting, groupVars, readyVars, sentVars>>

(* empathy_tp_chat_send () *)
Send(t) ==
  /\ attached /\ out[t] = "new" /\ out' = [out EXCEPT ![t] = "calling"]
  /\ UNCHANGED <<hasGroup, reporting, groupVars, readyVars, attached, reports, sending, told>>

(* message_send_cb () *)
SendReply(t, accepted) ==
  /\ out[t] = "calling"
  /\ IF accepted
     THEN /\ out' = [out EXCEPT ![t] = "sent"]
          /\ sending' = Sending(sending \union {t}) /\ UNCHANGED told
     ELSE /\ out' = [out EXCEPT ![t] = "failed"]
          /\ told' = told \union {t} /\ UNCHANGED sending
  /\ UNCHANGED <<hasGroup, reporting, groupVars, readyVars, attached, reports>>

(* handle_incoming_message (), or what list_pending_messages () finds later. *)
Report(t, status) ==
  /\ out[t] = "sent" /\ (preparing => Len(reports) < MaxReports)
  /\ out' = [out EXCEPT ![t] = IF status = "accepted" THEN "sent" ELSE status]
  /\ IF preparing THEN reports' = Append(reports, [token |-> t, status |-> status])
                       /\ UNCHANGED <<sending, told>>
     ELSE HandleReports(<<[token |-> t, status |-> status]>>) /\ UNCHANGED reports
  /\ UNCHANGED <<hasGroup, reporting, groupVars, readyVars, attached>>

TpChatNext ==
  \/ \E need \in BOOLEAN : PasswordPrepared(need)
  \/ PasswordGiven \/ Attach
  \/ \E c \in Contacts : Added(c) \/ Removed(c)
  \/ \E c, d \in Contacts : Renamed(c, d)
  \/ \E t \in Tokens : Send(t)
  \/ \E t \in Tokens, accepted \in BOOLEAN : SendReply(t, accepted)
  \/ \E t \in Tokens, status \in {"accepted", "delivered", "failed"} : Report(t, status)

TpChatSpec == TpChatInit /\ [][TpChatNext]_tpChatVars

-----------------------------------------------------------------------------
(* The type invariant. *)
TpChatTypeOK ==
  /\ group \subseteq Contacts /\ members \in Seq(Contacts)
  /\ {me, user} \subseteq Contacts
  /\ {preparing, preparingPassword, needed, attached} \subseteq BOOLEAN
  /\ out \in [Tokens -> {"new", "calling", "sent", "delivered", "failed"}]
  /\ sending \subseteq Tokens /\ told \subseteq Tokens
  /\ attached => ~preparing

(* A chat is only held back from the user as long as there is nothing to    *)
(* show of it: nobody in it, and no password to ask for.  The members are   *)
(* those of the server, each of them once, and we are who we are there,     *)
(* after joins, parts and renames before and after it is ready.             *)
MembersFollowGroup ==
  /\ TpChatTypeOK
  /\ preparing /\ ~preparingPassword => hasGroup /\ ~needed /\ group = {}
  /\ ToSet(members) = group /\ IsInjective(members) /\ user = me

(* "The number of messages being sent": those sent here and not answered    *)
(* for, and of others none that was; and (#636463, "Display delivery        *)
(* reports") whoever reads a failure of a message sent here shows it.       *)
SendingIsExact ==
  /\ reporting => \A t \in Tokens \ Old : out[t] = "sent" => t \in sending
  /\ \A t \in sending : out[t] = "sent"
  /\ \A t \in Tokens \ Old : out[t] = "failed" /\ reports = <<>> => t \in told

(* What the channel says is what the server says: who is there, and which   *)
(* messages are on their way or failed.                                     *)
ChannelFollowsServer == MembersFollowGroup /\ SendingIsExact
=============================================================================
