---------------------------- MODULE MCAuthClient ----------------------------
(* Chains of certificates for TLC: in order, for another host, self-signed. *)
EXTENDS AuthClient, LocationManager

VARIABLE part

Chain(res, output, hostMatches) == [res |-> res, output |-> output, hostMatches |-> hostMatches]
MCChains == {Chain("success", {}, TRUE), Chain("success", {}, FALSE),
             Chain("success", {"invalid", "signer-not-found", "expired"}, TRUE)}

(* The account and the certificates only share their process, and the       *)
(* location, of another process, nothing: each is checked with the others   *)
(* at rest.                                                                 *)
AtRest ==
  /\ part # "account" => kind = "other" /\ keyring = None /\ ~maySave /\ ~samePath
                         /\ right = CHOOSE p \in Passwords : TRUE
  /\ part # "certificates" => chain = [c \in Certs |-> CHOOSE ch \in Chains : TRUE]
  /\ part = "location" => ~useTimer
  /\ part # "location" => publish /\ ~reduce /\ \A a \in LocAccounts : conn[a] = "invalid"

MCInit ==
  /\ part \in {"account", "certificates", "location"}
  /\ AuthInit(IF part = "account" THEN Channels ELSE {})
  /\ CertsInit(IF part = "certificates" THEN Certs ELSE {})
  /\ LocationInit /\ AtRest

(* What is not reduced comes with what is. *)
ReportedTogether ==
  /\ location'["street"] = "exact" => location'["place"] = "exact"
  /\ location'["coordinates"] = "none" <=> location'["altitude"] = "none"

MCNext ==
  /\ \/ part # "location" /\ Next /\ UNCHANGED locationVars
     \/ part = "location" /\ LocationNext /\ ReportedTogether /\ UNCHANGED clientVars
  /\ UNCHANGED part

MCSpec == MCInit /\ [][MCNext]_<<clientVars, locationVars, part>> /\ Fairness
=============================================================================
