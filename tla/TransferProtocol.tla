-------------------------- MODULE TransferProtocol --------------------------
(***************************************************************************)
(* What the header comment of libempathy/empathy-ft-handler.c promises of  *)
(* the signals of a transfer: hashing before the transfer when sending,    *)
(* after it when receiving, and an error at any time between the start and *)
(* the last signal; nothing but another error follows an error.  `signals' *)
(* is what one step of the main loop emits, in order.                      *)
(***************************************************************************)
VARIABLES phase, signals

Phases == {"preparing", "refused", "opening", "hashing", "offered",
           "transferring", "checking", "finished", "failed"}

(* After the start, and before the last signal. *)
Running == {"opening", "hashing", "offered", "transferring", "checking"}

Emit(from, to, names) == phase = from /\ phase' = to /\ signals' = names

Init == phase = "preparing" /\ signals = <<>>

Begin ==                       \* the factory's "new-ft-handler"
  \/ \E p \in {"opening", "offered"} : Emit("preparing", p, <<"ready">>)
  \/ Emit("preparing", "refused", <<"ready-error">>)
  \/ Emit("preparing", "refused", <<>>)

HashFirst ==
  \/ Emit("opening", "hashing", <<"hashing-started">>)
  \/ Emit("hashing", "hashing", <<"hashing-progress">>)
  \/ Emit("hashing", "offered", <<"hashing-done">>)

Transfer ==
  \/ Emit("offered", "transferring", <<"started", "progress">>)
  \/ Emit("transferring", "transferring", <<"progress">>)
  \/ \E p \in {"offered", "transferring"} :
       \/ Emit(p, "finished", <<"done">>)
       \/ Emit(p, "checking", <<"done", "hashing-started">>)

HashLast ==
  \/ Emit("checking", "checking", <<"hashing-progress">>)
  \/ Emit("checking", "finished", <<"hashing-done">>)

Fail == \E p \in Running \union {"failed"} : Emit(p, "failed", <<"error">>)

Quiet == phase' = phase /\ signals' = <<>>

Next == Begin \/ HashFirst \/ Transfer \/ HashLast \/ Fail \/ Quiet

Spec == Init /\ [][Next]_<<phase, signals>>
=============================================================================
