-------------------------- MODULE MCEventListeners --------------------------
(* Instance of EventListeners: one operation of each announced type, and a  *)
(* contact whose events carry no approval.                                  *)
EXTENDS EventListeners

Single(type) == <<[type |-> type, invalidated |-> FALSE]>>
MCBundles == {Single(t) : t \in {"text", "ft"}}

(* No step depends on the signals of the one before it. *)
WithoutSignals ==
  <<cdo, chan, callEnded, requests, approvals, events, ringing, phone,
    contacts, display, missed, listenerVars>>
=============================================================================
