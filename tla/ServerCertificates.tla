------------------------- MODULE ServerCertificates -------------------------
(***************************************************************************)
(* The certificates of servers, in empathy-auth-client: the handler of     *)
(* libempathy/empathy-server-tls-handler.c prepares one, the verifier of   *)
(* libempathy/empathy-tls-verifier.c judges it, and src/empathy-auth-      *)
(* client.c asks the user about those it refuses.  The process quits after *)
(* a minute, which the open questions are counted to prevent.              *)
(***************************************************************************)
EXTENDS Naturals, FiniteSets, FiniteSetsExt

CONSTANTS
  Certs,               \* the certificates that servers present over time
  Chains               \* what they may be: the same chain, the same certificate
ASSUME ChainsAssumption ==
  \A ch \in Chains : ch.hostMatches \in BOOLEAN /\ ch.res \in {"success", "insufficient-credentials", "constraint-error", "error"}

VARIABLES
  useTimer,            \* EMPATHY_PERSIST is not set
  chain,               \* of each certificate
  cert,                \* where each of them is
  alive,               \* those whose channel is still there
  pinned,              \* chains that were stored as exceptions
  numWindows, timer,   \* num_windows, timeout_id
  choice,              \* history: the answer that was last to be remembered
  lost                 \* history: a dialog went without an answer

certVars == <<chain, cert, alive, pinned, choice, lost>>
timerVars == <<useTimer, numWindows, timer>>

Dialogs == {c \in Certs : cert[c] = "dialog"}

-----------------------------------------------------------------------------
(* verification_output_to_reason (): the first of them that applies. *)
VerificationOutputToReason(ch) ==
  CASE ch.res = "insufficient-credentials" -> "untrusted"
    [] ch.res = "constraint-error" -> "limit-exceeded"
    [] ch.res = "error" -> "unknown"
    [] ch.res = "success" ->
         IF "invalid" \notin ch.output THEN "none"
         ELSE IF "signer-not-found" \in ch.output THEN "self-signed"
         ELSE IF "signer-not-ca" \in ch.output THEN "untrusted"
         ELSE IF "insecure-algorithm" \in ch.output THEN "insecure"
         ELSE IF "not-activated" \in ch.output THEN "not-activated"
         ELSE IF "expired" \in ch.output THEN "expired" ELSE "unknown"

(* perform_verification (): a pinned certificate is not looked at. *)
PerformVerification(ch) ==
  IF ch \in pinned THEN "none"
  ELSE IF VerificationOutputToReason(ch) # "none" THEN VerificationOutputToReason(ch)
  ELSE IF ch.hostMatches THEN "none" ELSE "hostname-mismatch"

-----------------------------------------------------------------------------
(* come: the certificates that will be presented *)
CertsInit(come) ==
  /\ useTimer \in BOOLEAN /\ timer = useTimer /\ numWindows = 0
  /\ chain \in [Certs -> Chains]
  /\ cert = [c \in Certs |-> IF c \in come THEN "new" ELSE "gone"] /\ alive = {} /\ pinned = {}
  /\ choice = [ch \in Chains |-> "none"] /\ lost = FALSE

(* handle_channels () and tls_handler_init_async () *)
HandleTls(c) ==
  /\ cert[c] = "new"
  /\ cert' = [cert EXCEPT ![c] = "preparing"] /\ alive' = alive \union {c}
  /\ UNCHANGED <<chain, pinned, choice, lost, timerVars>>

(* empathy_tls_verifier_verify_async () *)
Verify(c) == cert' = [cert EXCEPT ![c] = "verifying"]

(* tls_certificate_prepared_cb (), server_tls_handler_ready_cb () and       *)
(* auth_factory_new_tls_handler_cb (); a failure refuses the channel.       *)
TlsHandlerReady(c, ok) ==
  /\ cert[c] = "preparing" /\ (ok => c \in alive)
  /\ IF ok THEN Verify(c) ELSE cert' = [cert EXCEPT ![c] = "refused"]
  /\ UNCHANGED <<chain, alive, pinned, choice, lost, timerVars>>

(* display_interactive_dialog () *)
DisplayInteractiveDialog(c) ==
  /\ cert' = [cert EXCEPT ![c] = "dialog"]
  /\ numWindows' = numWindows + 1 /\ timer' = FALSE

(* verifier_verify_cb () *)
Verified(c) ==
  /\ cert[c] = "verifying"
  /\ IF PerformVerification(chain[c]) = "none"
     THEN cert' = [cert EXCEPT ![c] = "accepted"] /\ UNCHANGED <<numWindows, timer>>
     ELSE DisplayInteractiveDialog(c)
  /\ UNCHANGED <<chain, alive, pinned, choice, lost, useTimer>>

(* Mutant: any answer starts the timer. *)
AnswerRestarts == numWindows' = numWindows - 1 /\ timer' = useTimer

(* "restart the timeout" *)
Answered ==
  /\ numWindows' = numWindows - 1
  /\ timer' = IF numWindows' > 0 THEN timer ELSE useTimer

(* empathy_tls_verifier_store_exception () *)
StoreException(ch) == pinned' = pinned \union {ch}

(* tls_dialog_response_cb (): what is to be remembered is stored as an      *)
(* exception, whatever the answer was.                                      *)
TlsDialogResponse(c, yes, remember) ==
  /\ cert[c] = "dialog"
  /\ cert' = [cert EXCEPT ![c] = IF yes THEN "confirmed" ELSE "rejected"]
  /\ IF remember THEN StoreException(chain[c]) ELSE UNCHANGED pinned
  /\ choice' = IF remember THEN [choice EXCEPT ![chain[c]] = IF yes THEN "yes" ELSE "no"] ELSE choice
  /\ Answered
  /\ UNCHANGED <<chain, alive, lost, useTimer>>

(* The channel goes.  certificate_invalidated_cb () destroys the dialog,    *)
(* without a response; a dialog that is made later never hears of it.       *)
CertInvalidated(c) ==
  /\ c \in alive /\ alive' = alive \ {c}
  /\ cert' = [cert EXCEPT ![c] = IF @ = "dialog" THEN "gone" ELSE @]
  /\ lost' = (lost \/ cert[c] = "dialog")
  /\ UNCHANGED <<chain, pinned, choice, timerVars>>

(* timeout_cb (): the next channel starts the process again. *)
CertsQuit ==
  /\ timer
  /\ cert' = [c \in Certs |-> IF cert[c] = "new" THEN "new" ELSE "gone"]
  /\ alive' = {} /\ lost' = FALSE
  /\ UNCHANGED <<chain, pinned, choice, timerVars>>

CertsNext ==
  \E c \in Certs :
    \/ HandleTls(c) \/ Verified(c) \/ CertInvalidated(c)
    \/ \E ok \in BOOLEAN : TlsHandlerReady(c, ok)
    \/ \E yes, remember \in BOOLEAN : TlsDialogResponse(c, yes, remember)

-----------------------------------------------------------------------------
(* The type invariant. *)
CertsTypeOK ==
  /\ chain \in [Certs -> Chains]
  /\ cert \in [Certs -> {"new", "preparing", "verifying", "dialog", "accepted", "confirmed",
                         "rejected", "refused", "gone"}]
  /\ alive \subseteq Certs /\ pinned \subseteq Chains
  /\ {useTimer, timer, lost} \subseteq BOOLEAN /\ numWindows \in Nat
  /\ choice \in [Chains -> {"none", "yes", "no"}]

(* The process does not quit under a question about a certificate, several  *)
(* of them included, and does quit when the last was answered, unless one   *)
(* of them was destroyed with its channel.                                  *)
TimerFollowsDialogs ==
  /\ CertsTypeOK
  /\ numWindows >= Cardinality(Dialogs)
  /\ timer => Dialogs = {}
  /\ useTimer /\ ~lost /\ Dialogs = {} => timer

(* "Remember this choice for future connections": a choice not to continue  *)
(* is no reason to accept the certificate the next time.                    *)
RememberedChoice ==
  [][\A c \in Certs :
       cert[c] = "verifying" /\ cert'[c] = "accepted" => choice[chain[c]] # "no"]_<<certVars, timerVars>>
=============================================================================
