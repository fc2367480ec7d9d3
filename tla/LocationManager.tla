--------------------------- MODULE LocationManager ---------------------------
(***************************************************************************)
(* The user's location (empathy-location-manager.c): GeoClue reports an     *)
(* address and a position, a timer collects what changed, and all accounts  *)
(* are told.  The place is the address but its street; coordinates are the  *)
(* latitude and longitude; the altitude stands for the accuracy in metres,   *)
(* too.                                                                     *)
(***************************************************************************)
EXTENDS Naturals

CONSTANTS
  LocAccounts,    \* the accounts of the user
  MaxPublishing   \* bound: publications that wait for the account manager
ASSUME LocationAssumption == MaxPublishing \in Nat \ {0}

VARIABLES
  publish,     \* the setting "publish"
  reduce,      \* the setting "reduce-accuracy", and priv->reduce_accuracy
  calls,       \* what GeoClue has been asked
  sources,     \* the objects of GeoClue whose changes are signalled
  location,    \* priv->location
  planned,     \* priv->timeout_id
  publishing,  \* publications that wait for the account manager
  prepared,    \* the account manager is
  watched,     \* the accounts whose status is
  conn,        \* the connection of each account
  told,        \* what each connection was last told
  reported,    \* history: GeoClue reported something since publish was turned off
  reduced      \* history: the objects that reported since reduce was turned on

locationVars == <<publish, reduce, calls, sources, location, planned, publishing,
                  prepared, watched, conn, told, reported, reduced>>

Sources == {"address", "position"}
PartsOf == [s \in Sources |-> IF s = "address" THEN {"street", "place"}
                              ELSE {"coordinates", "altitude"}]
Parts == {"street", "place", "coordinates", "altitude"}
Nowhere == [p \in Parts |-> "none"]

(* geoclue_is_setup: the address is what is created last. *)
IsSetup == "address" \in sources

(* publish_cb () at startup: the location is empty. *)
LocationInit ==
  /\ publish \in BOOLEAN /\ reduce \in BOOLEAN
  /\ calls = (IF publish THEN {"client"} ELSE {}) /\ sources = {}
  /\ location = Nowhere /\ planned = FALSE
  /\ publishing = (IF publish THEN 0 ELSE 1)
  /\ prepared = FALSE /\ watched = {}
  /\ conn \in [LocAccounts -> {"invalid", "connecting", "connected"}]
  /\ told = [a \in LocAccounts |-> Nowhere]
  /\ reported = FALSE /\ reduced = Sources

-----------------------------------------------------------------------------
(* The settings.                                                           *)

(* publish_cb ().  What GeoClue is asked when the settings change, here, in   *)
(* accuracy_cb () and in resource_cb (), its answer may come at any time, as  *)
(* its signals do: see Reported.                                            *)
PublishOn ==
  /\ ~publish /\ publish' = TRUE /\ reported' = FALSE
  /\ calls' = calls \union IF IsSetup THEN {} ELSE {"client"}
  /\ UNCHANGED <<reduce, sources, location, planned, publishing, prepared, watched,
                 conn, told, reduced>>

(* Mutant: publish_location () is not forced, and sees the setting. *)
PublishOffUnforced ==
  /\ publish /\ publish' = FALSE
  /\ location' = Nowhere /\ reported' = FALSE
  /\ UNCHANGED <<reduce, calls, sources, planned, publishing, prepared, watched,
                 conn, told, reduced>>

(* "send an empty location to have remove current location from the servers" *)
PublishOff ==
  /\ publish /\ publish' = FALSE
  /\ publishing < MaxPublishing /\ publishing' = publishing + 1
  /\ location' = Nowhere /\ reported' = FALSE
  /\ UNCHANGED <<reduce, calls, sources, planned, prepared, watched, conn, told, reduced>>

(* accuracy_cb () *)
AccuracyChanged ==
  /\ reduce' = ~reduce /\ reduced' = IF reduce THEN Sources ELSE {}
  /\ UNCHANGED <<publish, calls, sources, location, planned, publishing, prepared, watched,
                 conn, told, reported>>

-----------------------------------------------------------------------------
(* GeoClue.  An answer may be an error, which goes to the debug log.        *)

(* setup_geoclue (), with the callbacks create_client_cb () and             *)
(* create_client_set_requirements_cb (), create_position_cb () and          *)
(* create_address_cb ().  A set-up that is started twice makes the objects  *)
(* twice.                                                                   *)
FollowUp(c) == CASE c = "client" -> {"position"} [] c = "position" -> {"address"} [] OTHER -> {}

GeoclueAnswers(c) ==
  /\ c \in calls
  /\ \/ calls' = (calls \ {c}) \union FollowUp(c) /\ sources' = sources \union ({c} \intersect Sources)
     \/ calls' = calls \ {c} /\ UNCHANGED sources
  /\ UNCHANGED <<publish, reduce, location, planned, publishing, prepared, watched,
                 conn, told, reported, reduced>>

(* Mutant: the coordinates keep the accuracy that they were reported with. *)
AccuracyForgets(part) == IF reduce /\ part = "street" THEN "none" ELSE "exact"

(* What is kept of a part that is reported: reduced, the street is left out  *)
(* and the coordinates are truncated; the rest is never touched.            *)
Accuracy(part) ==
  CASE reduce /\ part = "street" -> "none"
    [] reduce /\ part = "coordinates" -> "reduced"
    [] OTHER -> "exact"

(* address_changed_cb () and position_changed_cb (): a signal, or an answer  *)
(* (initial_address_cb () and initial_position_cb ()).  What is not reported *)
(* any more is removed, but for the locality.  An empty address plans        *)
(* nothing, and a position of no accuracy does nothing.                     *)
Reported(source, fields) ==
  /\ source \in sources /\ fields \subseteq PartsOf[source]
  /\ \E kept \in {"none", location["place"]} :
       location' = [p \in Parts |->
         IF p \in fields THEN Accuracy(p)
         ELSE IF p \notin PartsOf[source] THEN location[p]
         ELSE IF p = "place" THEN kept ELSE "none"]
  /\ LET empty == source = "address" /\ fields = {}
     IN /\ planned' = (planned \/ ~empty)
        /\ reduced' = IF empty THEN reduced ELSE reduced \union {source}
  /\ reported' = ~publish
  /\ UNCHANGED <<publish, reduce, calls, sources, publishing, prepared, watched, conn, told>>

-----------------------------------------------------------------------------
(* The accounts.                                                           *)

(* publish_on_idle () *)
TimerFires ==
  /\ planned /\ planned' = FALSE
  /\ publishing < MaxPublishing /\ publishing' = publishing + 1
  /\ UNCHANGED <<publish, reduce, calls, sources, location, prepared, watched,
                 conn, told, reported, reduced>>

(* account_manager_prepared_cb () *)
AccountsPrepared ==
  /\ ~prepared /\ prepared' = TRUE
  /\ watched' = {a \in LocAccounts : conn[a] # "invalid"}
  /\ UNCHANGED <<publish, reduce, calls, sources, location, planned, publishing,
                 conn, told, reported, reduced>>

(* publish_to_all_am_prepared_cb (): forced, whatever the setting. *)
PublishToAll ==
  /\ publishing > 0 /\ publishing' = publishing - 1 /\ prepared
  /\ told' = [a \in LocAccounts |-> IF conn[a] = "connected" THEN location ELSE told[a]]
  /\ UNCHANGED <<publish, reduce, calls, sources, location, planned, prepared,
                 watched, conn, reported, reduced>>

(* new_connection_cb (): "Don't publish if it is already planned".           *)
StatusChanged(a, status) ==
  /\ conn[a] # status /\ (status = "invalid" => conn[a] # "connected")
  /\ conn' = [conn EXCEPT ![a] = status]
  /\ told' = [told EXCEPT ![a] = IF status # "connected" THEN Nowhere
                                 ELSE IF a \in watched /\ ~planned /\ publish THEN location
                                 ELSE @]
  /\ UNCHANGED <<publish, reduce, calls, sources, location, planned, publishing,
                 prepared, watched, reported, reduced>>

-----------------------------------------------------------------------------
LocationNext ==
  \/ PublishOn \/ PublishOff \/ AccuracyChanged
  \/ \E c \in calls : GeoclueAnswers(c)
  \/ \E s \in sources : \E fields \in SUBSET PartsOf[s] : Reported(s, fields)
  \/ TimerFires \/ AccountsPrepared \/ PublishToAll
  \/ \E a \in LocAccounts, s \in {"invalid", "connecting", "connected"} : StatusChanged(a, s)

LocationSpec == LocationInit /\ [][LocationNext]_locationVars

-----------------------------------------------------------------------------
(* The type invariant. *)
LocationTypeOK ==
  /\ {publish, reduce, planned, prepared, reported} \subseteq BOOLEAN
  /\ calls \subseteq {"client", "position", "address"}
  /\ sources \union reduced \subseteq Sources
  /\ location \in [Parts -> {"none", "reduced", "exact"}]
  /\ told \in [LocAccounts -> [Parts -> {"none", "reduced", "exact"}]]
  /\ conn \in [LocAccounts -> {"invalid", "connecting", "connected"}]
  /\ watched \subseteq LocAccounts /\ publishing \in 0..MaxPublishing

(* Once all that is planned was done, contacts see nothing of a user who    *)
(* turned publication off, unless GeoClue reported something since; and of   *)
(* one who turned the reduced accuracy on neither a street nor coordinates   *)
(* of more than one decimal, as soon as GeoClue has reported both the        *)
(* address and the position anew: also on accounts that connected or         *)
(* appeared meanwhile.  Of the other parts (area, postal code, altitude,     *)
(* accuracy) it says nothing: the code publishes them as they are.          *)
Told(a) == {told[a][p] : p \in Parts}
SettingsAreHeeded ==
  /\ LocationTypeOK
  /\ publishing = 0 => \A a \in LocAccounts :
       /\ ~publish /\ ~reported => Told(a) = {"none"}
       /\ reduce /\ reduced = Sources /\ ~planned =>
            told[a]["street"] = "none" /\ told[a]["coordinates"] # "exact"
=============================================================================
