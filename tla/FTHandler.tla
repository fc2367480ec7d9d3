------------------------------ MODULE FTHandler ------------------------------
(***************************************************************************)
(* libempathy/empathy-ft-handler.c: one file transfer, from its creation   *)
(* by the factory (libempathy/empathy-ft-factory.c) to its last signal,    *)
(* with the file chooser of incoming transfers                             *)
(* (libempathy-gtk/empathy-ui-utils.c) and the callbacks of src/empathy.c. *)
(*                                                                         *)
(* Threads: the main loop runs every callback, a worker of the I/O         *)
(* scheduler hashes the file.  The channel is the connection manager's: it *)
(* moves bytes, completes, or is cancelled by either side.                 *)
(***************************************************************************)
EXTENDS Integers, Sequences, FiniteSets, SequencesExt

CONSTANT Size          \* total_bytes, in chunks
ASSUME SizeAssumption == Size \in Nat \ {0}

VARIABLES
  incoming,            \* ~tp_channel_get_requested ()
  step,                \* what the handler waits for
  cancelled,           \* priv->cancellable
  useHash, completed, bytes, hasChannel,    \* priv->...
  refs,                \* who holds a reference on the handler
  reply,               \* of ProvideFile or AcceptFile
  chan, sent, closing, \* the channel at the connection manager
  read, idles, job,    \* the hashing job and its main loop callbacks
  signals,             \* emitted by the last step
  failed, stopped      \* history: an error was emitted, a stop was asked

chanVars == <<chan, sent, closing, reply>>
jobVars  == <<read, idles, job>>
privVars == <<incoming, cancelled, useHash, completed, bytes, hasChannel>>
histVars == <<failed, stopped>>
handlerVars == <<incoming, step, cancelled, useHash, completed, bytes, hasChannel, refs,
          reply, chan, sent, closing, read, idles, job, signals, failed,
          stopped>>

Alive == refs # {}

Emit(names) == signals' = names

(* emit_error_signal () *)
EmitError ==
  /\ cancelled' = TRUE /\ failed' = TRUE
  /\ Emit(<<"error">>)
  /\ UNCHANGED <<incoming, useHash, completed, bytes, hasChannel, stopped>>

(* do_dispose () closes the channel. *)
DisposeIf(empty) == closing' = (closing \/ (empty /\ hasChannel))

-----------------------------------------------------------------------------
(* Creation.  The references: the creator's, dropped by new_ft_handler_cb;  *)
(* CallbacksData's, which channel_get_all_properties_cb only drops on error;*)
(* the manager's, for the row it adds in either case.                       *)

HandlerInit ==
  /\ incoming \in BOOLEAN
  /\ step = IF incoming THEN "properties" ELSE "query"
  /\ cancelled = FALSE /\ useHash = FALSE /\ completed = FALSE /\ bytes = 0
  /\ hasChannel = incoming
  /\ refs = {"creator", "callbacks"}
  /\ reply = "none" /\ closing = FALSE /\ sent = 0
  /\ chan = IF incoming THEN "pending" ELSE "none"
  /\ read = 0 /\ idles = 0 /\ job = "none"
  /\ signals = <<>>
  /\ failed = FALSE /\ stopped = FALSE

(* A file that cannot be sent, a contact that cannot receive it, or a       *)
(* channel without properties: the row only shows the error.  Nobody drops  *)
(* the creator's reference of an incoming handler.                          *)
CreationFails ==
  /\ step \in {"query", "properties"}
  /\ step' = "refused"
  /\ cancelled' = TRUE
  /\ refs' = {"manager"} \union (IF incoming THEN {"creator"} ELSE {})
  /\ Emit(<<"ready-error">>)
  /\ UNCHANGED <<incoming, useHash, completed, bytes, hasChannel, chanVars, jobVars, histVars>>

(* ft_handler_gfile_ready_cb (), check_hashing (), and by way of the        *)
(* factory ft_manager_start_transfer (): hash the file if the contact can   *)
(* check it, else request the channel.                                      *)
GFileReady(hash) ==
  /\ step = "query"
  /\ useHash' = hash
  /\ step' = IF hash THEN "read" ELSE "request"
  /\ refs' = {"manager"}
  /\ Emit(<<"ready">>)
  /\ UNCHANGED <<incoming, cancelled, completed, bytes, hasChannel, chanVars, jobVars, histVars>>

(* channel_get_all_properties_cb (): the file chooser opens. *)
PropertiesReady ==
  /\ step = "properties"
  /\ step' = "choosing"
  /\ Emit(<<>>)
  /\ UNCHANGED <<privVars, refs, chanVars, jobVars, histVars>>

(* file_manager_receive_file_response_cb (): a destination, and the transfer *)
(* starts; the sender may have offered a hash.                              *)
ChooseDestination(hash) ==
  /\ step = "choosing"
  /\ useHash' = hash
  /\ step' = "channel" /\ reply' = "pending"
  /\ refs' = (refs \ {"creator"}) \union {"manager"}
  /\ Emit(<<"ready">>)
  /\ UNCHANGED <<incoming, cancelled, completed, bytes, hasChannel, chan, sent, closing,
                 jobVars, histVars>>

(* ... or the chooser is dismissed. *)
DismissChooser ==
  /\ step = "choosing"
  /\ step' = "refused"
  /\ refs' = refs \ {"creator"}
  /\ DisposeIf(refs' = {})
  /\ Emit(<<>>)
  /\ UNCHANGED <<privVars, chan, sent, reply, jobVars, histVars>>

-----------------------------------------------------------------------------
(* Hashing. *)

StartJob ==
  /\ refs' = refs \union {"job"}
  /\ job' = "running" /\ read' = 0 /\ idles' = 0

(* ft_handler_read_async_cb () *)
ReadAsyncReady ==
  /\ step = "read" /\ Alive
  /\ \/ /\ step' = "over" /\ EmitError
        /\ UNCHANGED <<refs, jobVars>>
     \/ /\ step' = "hash" /\ StartJob
        /\ Emit(<<"hashing-started">>)
        /\ UNCHANGED <<privVars, histVars>>
  /\ UNCHANGED chanVars

(* do_hash_job () in the worker: reads notice the cancellable, and any read *)
(* may fail.                                                                *)
HashChunk ==
  /\ job = "running"
  /\ \/ /\ ~cancelled /\ read < Size
        /\ read' = read + 1 /\ idles' = idles + 1 /\ UNCHANGED job
     \/ /\ ~cancelled /\ read = Size
        /\ job' = "ok" /\ UNCHANGED <<read, idles>>
     \/ job' = "error" /\ UNCHANGED <<read, idles>>
  /\ Emit(<<>>)
  /\ UNCHANGED <<privVars, step, refs, chanVars, histVars>>

(* emit_hashing_progress () *)
HashProgress ==
  /\ idles > 0
  /\ idles' = idles - 1
  /\ Emit(<<"hashing-progress">>)
  /\ UNCHANGED <<privVars, step, refs, chanVars, read, job, histVars>>

(* hash_job_done (), behind the progress callbacks in the same queue. *)
HashJobDone ==
  /\ job \in {"ok", "error"} /\ idles = 0
  /\ job' = "none"
  /\ refs' = refs \ {"job"}
  /\ DisposeIf(refs' = {})
  /\ \/ /\ job = "error" \/ incoming                \* a hash that does not match
        /\ step' = "over" /\ EmitError
     \/ /\ job = "ok"
        /\ step' = IF incoming THEN "over" ELSE "request"
        /\ Emit(<<"hashing-done">>)
        /\ UNCHANGED <<privVars, histVars>>
  /\ UNCHANGED <<read, idles, chan, sent, reply>>

-----------------------------------------------------------------------------
(* The channel. *)

(* ft_handler_create_channel_cb (): a channel that comes after the stop is  *)
(* unreferenced, not closed.                                                *)
ChannelCreated ==
  /\ step = "request" /\ Alive
  /\ chan' = "pending"
  /\ \/ /\ cancelled
        /\ step' = "over" /\ EmitError
        /\ UNCHANGED reply
     \/ /\ ~cancelled
        /\ step' = "channel" /\ hasChannel' = TRUE /\ reply' = "pending"
        /\ Emit(<<>>)
        /\ UNCHANGED <<incoming, cancelled, useHash, completed, bytes, histVars>>
  /\ UNCHANGED <<refs, sent, closing, jobVars>>

ChannelNotCreated ==
  /\ step = "request" /\ Alive
  /\ step' = "over" /\ EmitError
  /\ UNCHANGED <<refs, chanVars, jobVars>>

(* ft_transfer_provide_cb () and ft_transfer_accept_cb () *)
FileReplied(ok) ==
  /\ reply = "pending" /\ (Alive \/ ok)
  /\ ok => chan \in {"pending", "open"}
  /\ reply' = IF ok THEN "ok" ELSE "failed"
  /\ IF ok THEN Emit(<<>>) /\ UNCHANGED <<privVars, histVars>> ELSE EmitError
  /\ UNCHANGED <<step, refs, chan, sent, closing, jobVars>>

(* Notifications reach a handler that listens: from the moment it provides  *)
(* or accepts the file, until it is freed.                                  *)
Listening == Alive /\ hasChannel /\ reply # "none"

(* The other side accepts the offer, or it is our own acceptance. *)
ChannelOpens ==
  /\ chan = "pending" /\ ~closing /\ (incoming => reply # "none")
  /\ chan' = "open"
  /\ Emit(<<>>)
  /\ UNCHANGED <<privVars, step, refs, sent, closing, reply, jobVars, histVars>>

(* Mutant: no look at the cancellable. *)
BytesTransferredAnyway ==
  /\ chan = "open" /\ reply \in {"ok", "failed"} /\ sent < Size
  /\ sent' = sent + 1
  /\ IF Listening
     THEN /\ bytes' = sent'
          /\ Emit(IF bytes = 0 THEN <<"started", "progress">> ELSE <<"progress">>)
     ELSE Emit(<<>>) /\ UNCHANGED bytes
  /\ UNCHANGED <<incoming, cancelled, useHash, completed, hasChannel, step, refs, chan,
                 closing, reply, jobVars, histVars>>

(* ft_transfer_transferred_bytes_cb () *)
BytesTransferred ==
  /\ chan = "open" /\ reply \in {"ok", "failed"} /\ sent < Size
  /\ sent' = sent + 1
  /\ IF Listening /\ ~cancelled
     THEN /\ bytes' = sent'
          /\ Emit(IF bytes = 0 THEN <<"started", "progress">> ELSE <<"progress">>)
     ELSE Emit(<<>>) /\ UNCHANGED bytes
  /\ UNCHANGED <<incoming, cancelled, useHash, completed, hasChannel, step, refs, chan,
                 closing, reply, jobVars, histVars>>

(* ft_transfer_state_cb (), completed: the last bytes need not have been    *)
(* notified.  The received file is then checked.                            *)
ChannelCompletes ==
  /\ chan = "open" /\ reply = "ok"
  /\ chan' = "completed"
  /\ IF Listening
     THEN /\ completed' = TRUE /\ closing' = TRUE
          /\ IF incoming /\ useHash
             THEN step' = "hash" /\ StartJob /\ Emit(<<"done", "hashing-started">>)
             ELSE step' = "over" /\ Emit(<<"done">>) /\ UNCHANGED <<refs, jobVars>>
     ELSE Emit(<<>>) /\ UNCHANGED <<completed, closing, step, refs, jobVars>>
  /\ UNCHANGED <<incoming, cancelled, useHash, bytes, hasChannel, sent, reply, histVars>>

(* ft_transfer_state_cb (), cancelled: by the other side, or closed by us. *)
ChannelCancelled ==
  /\ chan \in {"pending", "open"}
  /\ chan' = "cancelled"
  /\ IF Listening THEN step' = "over" /\ EmitError
     ELSE Emit(<<>>) /\ UNCHANGED <<step, privVars, histVars>>
  /\ UNCHANGED <<refs, sent, closing, reply, jobVars>>

-----------------------------------------------------------------------------
(* Mutant: the cancellable is left alone. *)
CancelTransferClosesOnly ==
  /\ "manager" \in refs /\ step # "refused"
  /\ stopped' = TRUE
  /\ closing' = (closing \/ hasChannel)
  /\ Emit(<<>>)
  /\ UNCHANGED <<incoming, useHash, completed, bytes, hasChannel, step, refs, chan, sent,
                 reply, jobVars, cancelled, failed>>

(* empathy_ft_handler_cancel_transfer () *)
CancelTransfer ==
  /\ "manager" \in refs /\ step # "refused"
  /\ stopped' = TRUE
  /\ IF hasChannel THEN closing' = TRUE /\ UNCHANGED cancelled
     ELSE cancelled' = TRUE /\ UNCHANGED closing
  /\ Emit(<<>>)
  /\ UNCHANGED <<incoming, useHash, completed, bytes, hasChannel, step, refs, chan, sent,
                 reply, jobVars, failed>>

(* Everything that is not done by the transfer's window. *)
HandlerNext ==
  \/ CreationFails \/ PropertiesReady \/ DismissChooser
  \/ \E hash \in BOOLEAN : GFileReady(hash) \/ ChooseDestination(hash)
  \/ ReadAsyncReady \/ HashChunk \/ HashProgress \/ HashJobDone
  \/ ChannelCreated \/ ChannelNotCreated
  \/ \E ok \in BOOLEAN : FileReplied(ok)
  \/ ChannelOpens \/ BytesTransferred \/ ChannelCompletes \/ ChannelCancelled

(* Callbacks run, the worker runs, requests are answered, a channel that was *)
(* asked to close does, and a file cannot be accepted from a channel that    *)
(* is gone.  The other side owes us nothing.                                 *)
HandlerFairness ==
  /\ WF_handlerVars(ReadAsyncReady) /\ WF_handlerVars(HashChunk)
  /\ WF_handlerVars(HashProgress) /\ WF_handlerVars(HashJobDone)
  /\ WF_handlerVars(ChannelCreated \/ ChannelNotCreated)
  /\ WF_handlerVars(closing /\ ChannelCancelled)
  /\ WF_handlerVars(chan = "cancelled" /\ FileReplied(FALSE))

-----------------------------------------------------------------------------
Steps == {"query", "properties", "choosing", "refused", "read", "hash",
          "request", "channel", "over"}

(* The type invariant. *)
HandlerTypeOK ==
  /\ step \in Steps
  /\ {incoming, cancelled, useHash, completed, hasChannel, closing} \subseteq BOOLEAN
  /\ {failed, stopped} \subseteq BOOLEAN
  /\ bytes \in 0..Size /\ sent \in 0..Size /\ read \in 0..Size /\ idles \in 0..Size
  /\ refs \subseteq {"creator", "callbacks", "manager", "job"}
  /\ reply \in {"none", "pending", "ok", "failed"}
  /\ chan \in {"none", "pending", "open", "completed", "cancelled"}
  /\ job \in {"none", "running", "ok", "error"}

(* The handler keeps to the protocol its header describes, for both         *)
(* directions, with and without hashing: the phase a client can infer from  *)
(* the signals is the one the handler is in.                                *)
Phase ==
  CASE failed -> "failed"
    [] ~failed /\ step \in {"query", "properties", "choosing"} -> "preparing"
    [] ~failed /\ step = "refused" -> "refused"
    [] ~failed /\ step = "read" -> "opening"
    [] ~failed /\ step = "hash" -> IF completed THEN "checking" ELSE "hashing"
    [] ~failed /\ step \in {"request", "channel"} ->
         IF bytes = 0 THEN "offered" ELSE "transferring"
    [] OTHER -> "finished"

Protocol == INSTANCE TransferProtocol WITH phase <- Phase, signals <- signals
ProtocolSpec == Protocol!Spec

(* A transfer that the user stopped comes to an end, whatever the other     *)
(* side does and in whatever step the stop was asked; its handler may also  *)
(* be freed with its row in the meantime.                                   *)
StopEnds == stopped ~> (failed \/ step = "over" \/ ~Alive)
=============================================================================
