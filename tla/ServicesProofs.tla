--------------------------- MODULE ServicesProofs ---------------------------
(***************************************************************************)
(* What runs in the background, for any accounts, rooms, sounds and bounds: *)
(* the user's location, presence, favorite rooms, file transfers and sounds. *)
(***************************************************************************)
EXTENDS LocationManager, PresenceManager, ChatroomManager, FTManager, SoundManager, ListFacts,
        TLAPS

-----------------------------------------------------------------------------
(* The location.  A setting is heeded once every publication that waits is   *)
(* done: what is told to an account next is what the location is now, and    *)
(* that already heeds the setting.                                           *)

LocationHeeds ==
  /\ ~publish /\ ~reported => location = Nowhere
  /\ reduce /\ "address" \in reduced => location["street"] = "none"
  /\ reduce /\ "position" \in reduced => location["coordinates"] # "exact"

OfflineIsToldNothing == \A a \in LocAccounts : conn[a] # "connected" => told[a] = Nowhere

ToldHeeds ==
  publishing = 0 => \A a \in LocAccounts :
    /\ ~publish /\ ~reported => told[a] = Nowhere
    /\ reduce /\ reduced = Sources /\ ~planned =>
         told[a]["street"] = "none" /\ told[a]["coordinates"] # "exact"

LocInv == LocationTypeOK /\ LocationHeeds /\ OfflineIsToldNothing /\ ToldHeeds

LEMMA NowhereType ==
  /\ Nowhere \in [Parts -> {"none", "reduced", "exact"}]
  /\ \A p \in Parts : Nowhere[p] = "none"
  /\ Nowhere["street"] = "none" /\ Nowhere["coordinates"] # "exact"
  BY DEF Nowhere, Parts

LEMMA LocationInitially == LocationInit => LocInv
<1> SUFFICES ASSUME LocationInit PROVE LocInv
  OBVIOUS
<1>1. publishing \in 0..MaxPublishing
  BY LocationAssumption DEF LocationInit
<1>2. LocationTypeOK
  BY <1>1, NowhereType DEF LocationInit, LocationTypeOK
<1> QED BY <1>2, NowhereType DEF LocationInit, LocInv, LocationHeeds, OfflineIsToldNothing, ToldHeeds

LEMMA LocTyped ==
  ASSUME LocInv
  PROVE  /\ publishing \in 0..MaxPublishing /\ publishing \in Nat /\ MaxPublishing \in Nat
         /\ {publish, reduce, planned, reported} \subseteq BOOLEAN
  BY LocationAssumption DEF LocInv, LocationTypeOK

(* Steps that neither publish nor connect keep what the accounts were told. *)
LEMMA LocationSettings ==
  ASSUME LocInv, PublishOn \/ PublishOff \/ AccuracyChanged
  PROVE  LocInv'
<1>1. CASE PublishOn
  <2>1. LocationTypeOK'
    BY <1>1 DEF PublishOn, LocInv, LocationTypeOK, IsSetup
  <2> QED BY <1>1, <2>1 DEF PublishOn, LocInv, LocationHeeds, OfflineIsToldNothing, ToldHeeds
<1>2. CASE PublishOff
  <2>1. publishing' \in 0..MaxPublishing /\ publishing' # 0
    BY <1>2, LocTyped DEF PublishOff
  <2>2. LocationTypeOK'
    BY <1>2, <2>1, NowhereType DEF PublishOff, LocInv, LocationTypeOK
  <2>3. LocationHeeds'
    BY <1>2, NowhereType DEF PublishOff, LocInv, LocationTypeOK, LocationHeeds
  <2> QED BY <1>2, <2>1, <2>2, <2>3 DEF PublishOff, LocInv, OfflineIsToldNothing, ToldHeeds
<1>3. CASE AccuracyChanged
  <2>1. LocationTypeOK'
    BY <1>3 DEF AccuracyChanged, LocInv, LocationTypeOK
  <2>2. reduce' => reduced' = {} /\ reduced' # Sources
    BY <1>3 DEF AccuracyChanged, Sources
  <2> QED BY <1>3, <2>1, <2>2 DEF AccuracyChanged, LocInv, LocationHeeds, OfflineIsToldNothing, ToldHeeds
<1> QED BY <1>1, <1>2, <1>3

(* A report of the address leaves the coordinates alone, one of the position *)
(* the street; neither leaves what is to be reduced.                         *)
LEMMA LocationReported ==
  ASSUME LocInv, NEW source \in Sources, NEW fields \in SUBSET PartsOf[source],
         Reported(source, fields)
  PROVE  LocInv'
<1>1. Sources = {"address", "position"} /\ Parts = {"street", "place", "coordinates", "altitude"}
  BY DEF Sources, Parts
<1>2. /\ "street" \in PartsOf[source] <=> source = "address"
      /\ "coordinates" \in PartsOf[source] <=> source = "position"
  BY <1>1 DEF PartsOf
<1>3. \A p \in Parts : Accuracy(p) \in {"none", "reduced", "exact"}
  BY DEF Accuracy
<1>4. /\ location' \in [Parts -> {"none", "reduced", "exact"}]
      /\ location'["street"] = IF "street" \in fields THEN Accuracy("street")
                               ELSE IF source = "address" THEN "none" ELSE location["street"]
      /\ location'["coordinates"] = IF "coordinates" \in fields THEN Accuracy("coordinates")
                                    ELSE IF source = "position" THEN "none"
                                    ELSE location["coordinates"]
  <2>1. PICK kept \in {"none", location["place"]} :
          location' = [p \in Parts |->
            IF p \in fields THEN Accuracy(p)
            ELSE IF p \notin PartsOf[source] THEN location[p]
            ELSE IF p = "place" THEN kept ELSE "none"]
    BY DEF Reported
  <2>2. location \in [Parts -> {"none", "reduced", "exact"}]
    BY DEF LocInv, LocationTypeOK
  <2>3. kept \in {"none", "reduced", "exact"}
    BY <1>1, <2>2
  <2> QED BY <1>1, <1>2, <1>3, <2>1, <2>2, <2>3
<1>5. /\ reduce' = reduce /\ publish' = publish /\ (~publish' => reported')
      /\ reduced' \subseteq reduced \union {source}
  BY DEF Reported
<1>6. LocationTypeOK'
  BY <1>4, <1>5 DEF Reported, LocInv, LocationTypeOK
<1>7. LocationHeeds'
  <2>1. reduce => Accuracy("street") = "none" /\ Accuracy("coordinates") = "reduced"
    BY DEF Accuracy
  <2>2. "street" \in fields => source = "address"
    BY <1>2
  <2>3. "coordinates" \in fields => source = "position"
    BY <1>2
  <2>4. reduce' /\ "address" \in reduced' => location'["street"] = "none"
    BY <1>4, <1>5, <2>1, <2>2 DEF LocInv, LocationHeeds
  <2>5. reduce' /\ "position" \in reduced' => location'["coordinates"] # "exact"
    BY <1>4, <1>5, <2>1, <2>3 DEF LocInv, LocationHeeds
  <2> QED BY <1>5, <2>4, <2>5 DEF LocationHeeds
<1>8. ToldHeeds'
  <2>1. planned' \/ (planned' = planned /\ reduced' = reduced)
    <3>1. CASE source = "address" /\ fields = {}
      BY <3>1, LocTyped DEF Reported
    <3>2. CASE ~(source = "address" /\ fields = {})
      BY <3>2 DEF Reported
    <3> QED BY <3>1, <3>2
  <2> QED BY <1>5, <2>1 DEF Reported, LocInv, ToldHeeds
<1> QED BY <1>6, <1>7, <1>8 DEF Reported, LocInv, OfflineIsToldNothing

(* What heeds the settings: the location and what is nothing both do.        *)
HeedsThem(loc) ==
  /\ ~publish /\ ~reported => loc = Nowhere
  /\ reduce /\ reduced = Sources => loc["street"] = "none" /\ loc["coordinates"] # "exact"

LEMMA LocationKept ==
  ASSUME LocInv
  PROVE  HeedsThem(location) /\ HeedsThem(Nowhere)
<1>1. "address" \in Sources /\ "position" \in Sources
  BY DEF Sources
<1>2. HeedsThem(location)
  BY <1>1 DEF LocInv, LocationHeeds, HeedsThem
<1>3. HeedsThem(Nowhere)
  BY NowhereType DEF HeedsThem
<1> QED BY <1>2, <1>3

LEMMA LocationPublished ==
  ASSUME LocInv, PublishToAll
  PROVE  LocInv'
<1>1. publishing' \in 0..MaxPublishing
  BY LocTyped DEF PublishToAll
<1>2. LocationTypeOK'
  BY <1>1 DEF PublishToAll, LocInv, LocationTypeOK
<1>3. \A a \in LocAccounts : told'[a] = location \/ told'[a] = Nowhere
  BY DEF PublishToAll, LocInv, OfflineIsToldNothing
<1>4. ToldHeeds'
  <2>1. \A a \in LocAccounts : HeedsThem(told'[a])
    BY <1>3, LocationKept
  <2> QED BY <2>1 DEF PublishToAll, ToldHeeds, HeedsThem
<1>5. OfflineIsToldNothing'
  BY DEF PublishToAll, LocInv, OfflineIsToldNothing
<1> QED BY <1>2, <1>4, <1>5 DEF PublishToAll, LocInv, LocationHeeds

LEMMA LocationStatus ==
  ASSUME LocInv, NEW a \in LocAccounts, NEW s \in {"invalid", "connecting", "connected"},
         StatusChanged(a, s)
  PROVE  LocInv'
<1>1. LocationTypeOK'
  BY NowhereType DEF StatusChanged, LocInv, LocationTypeOK
<1>2. told'[a] = Nowhere \/ (s = "connected" /\ publish /\ ~planned /\ told'[a] = location)
  BY DEF StatusChanged, LocInv, LocationTypeOK, OfflineIsToldNothing
<1>3. \A b \in LocAccounts \ {a} : told'[b] = told[b] /\ conn'[b] = conn[b]
  BY DEF StatusChanged, LocInv, LocationTypeOK
<1>4. conn'[a] = s
  BY DEF StatusChanged, LocInv, LocationTypeOK
<1>5. OfflineIsToldNothing'
  BY <1>2, <1>3, <1>4 DEF LocInv, OfflineIsToldNothing
<1>6. ToldHeeds'
  <2>1. publishing' = publishing /\ planned' = planned /\ publish' = publish
        /\ reported' = reported /\ reduce' = reduce /\ reduced' = reduced
    BY DEF StatusChanged
  <2>2. HeedsThem(told'[a])
    BY <1>2, LocationKept
  <2>3. publishing = 0 /\ ~planned => \A b \in LocAccounts \ {a} : HeedsThem(told'[b])
    BY <1>3 DEF LocInv, ToldHeeds, HeedsThem
  <2>4. publishing = 0 => \A b \in LocAccounts \ {a} : ~publish /\ ~reported => told'[b] = Nowhere
    BY <1>3 DEF LocInv, ToldHeeds
  <2> QED BY <2>1, <2>2, <2>3, <2>4 DEF ToldHeeds, HeedsThem
<1> QED BY <1>1, <1>5, <1>6 DEF StatusChanged, LocInv, LocationHeeds

LEMMA LocationStep == LocInv /\ [LocationNext]_locationVars => LocInv'
<1> SUFFICES ASSUME LocInv, [LocationNext]_locationVars PROVE LocInv'
  OBVIOUS
<1>1. CASE UNCHANGED locationVars
  BY <1>1 DEF locationVars, LocInv, LocationTypeOK, LocationHeeds, OfflineIsToldNothing, ToldHeeds
<1>2. ASSUME NEW c \in calls, GeoclueAnswers(c) PROVE LocInv'
  <2>1. LocationTypeOK'
    BY <1>2 DEF GeoclueAnswers, FollowUp, LocInv, LocationTypeOK, Sources
  <2> QED BY <1>2, <2>1 DEF GeoclueAnswers, LocInv, LocationHeeds, OfflineIsToldNothing, ToldHeeds
<1>3. CASE TimerFires
  <2>1. publishing' \in 0..MaxPublishing /\ publishing' # 0
    BY <1>3, LocTyped DEF TimerFires
  <2>2. LocationTypeOK'
    BY <1>3, <2>1 DEF TimerFires, LocInv, LocationTypeOK
  <2> QED BY <1>3, <2>1, <2>2 DEF TimerFires, LocInv, LocationHeeds, OfflineIsToldNothing, ToldHeeds
<1>4. CASE AccountsPrepared
  <2>1. LocationTypeOK'
    BY <1>4 DEF AccountsPrepared, LocInv, LocationTypeOK
  <2> QED BY <1>4, <2>1 DEF AccountsPrepared, LocInv, LocationHeeds, OfflineIsToldNothing, ToldHeeds
<1>5. ASSUME NEW s \in sources, NEW fields \in SUBSET PartsOf[s], Reported(s, fields)
      PROVE  LocInv'
  BY <1>5, LocationReported DEF LocInv, LocationTypeOK
<1> QED BY <1>1, <1>2, <1>3, <1>4, <1>5, LocationSettings, LocationPublished, LocationStatus
        DEF LocationNext

(* However the settings, GeoClue's reports, the publications that wait and   *)
(* the connections of any number of accounts interleave: once nothing waits, *)
(* no contact sees the location of a user who turned publication off, nor    *)
(* the street or the exact coordinates of one who reduced the accuracy, once *)
(* the address and the position were reported anew (empathy-location-        *)
(* manager.c:299-304, 352-356).  The code publishes the other parts as they  *)
(* are, and the theorem says nothing of them.                                *)
THEOREM LocationIsHeeded == LocationSpec => []SettingsAreHeeded
<1>1. LocInv => SettingsAreHeeded
  <2> SUFFICES ASSUME LocInv PROVE SettingsAreHeeded
    OBVIOUS
  <2>1. ASSUME NEW a \in LocAccounts, told[a] = Nowhere PROVE Told(a) = {"none"}
    BY <2>1, NowhereType DEF Told, Parts
  <2> QED BY <2>1 DEF LocInv, ToldHeeds, SettingsAreHeeded
<1> QED BY <1>1, LocationInitially, LocationStep, PTL DEF LocationSpec

-----------------------------------------------------------------------------
(* The presence.  The state is saved when nothing is under way, so that it   *)
(* is what the user asked for; until the user is back only away and          *)
(* extended away are requested, and then what was saved.                     *)

Aways == {"away", "xa"}

LastRequested == IF requests = <<>> THEN applied ELSE requests[Len(requests)]

StateIsApplied == state = IF online THEN applied ELSE "offline"

WentAway ==
  /\ isIdle /\ autoAway /\ online
  /\ saved = wish /\ wish \notin {"offline", "hidden"}
  /\ LastRequested \in Aways /\ \A i \in 1..Len(requests) : requests[i] \in Aways
  /\ ~idle => applied \in Aways

StayedHere ==
  /\ ~extAway /\ LastRequested = wish
  /\ idle \/ isIdle => requests = <<>>

PresInv ==
  /\ PresenceTypeOK /\ StateIsApplied
  /\ ~rough => IF saved = "unset" THEN StayedHere ELSE WentAway

LEMMA PresTyped ==
  ASSUME PresInv
  PROVE  /\ requests \in Seq(Presences) /\ Len(requests) \in Nat /\ wish \in Chosen
         /\ applied \in Presences /\ state \in Presences /\ saved \in Presences \union {"unset"}
         /\ Chosen \subseteq Presences /\ wish # "unset"
  BY PresenceAssumption DEF PresInv, PresenceTypeOK, Presences, Aways

(* What is requested is what was requested last. *)
LEMMA Requested ==
  ASSUME PresInv, NEW p \in Presences, SetState(p), UNCHANGED applied
  PROVE  /\ requests' \in Seq(Presences) /\ LastRequested' = p /\ requests' # <<>>
         /\ (\A i \in 1..Len(requests) : requests[i] \in Aways) /\ p \in Aways =>
              \A i \in 1..Len(requests') : requests'[i] \in Aways
<1>1. requests \in Seq(Presences) /\ Len(requests) \in Nat
  BY PresTyped
<1>2. /\ requests' \in Seq(Presences) /\ Len(requests') = Len(requests) + 1
      /\ requests'[Len(requests) + 1] = p
      /\ \A i \in 1..Len(requests) : requests'[i] = requests[i]
  BY <1>1 DEF SetState
<1>3. requests' # <<>>
  BY <1>1, <1>2
<1> QED BY <1>1, <1>2, <1>3 DEF LastRequested

LEMMA PresenceApplied ==
  ASSUME PresInv, Applied
  PROVE  PresInv'
<1>1. /\ requests' \in Seq(Presences) /\ applied' = requests[1] /\ applied' \in Presences
      /\ Len(requests') = Len(requests) - 1 /\ Len(requests) > 0
      /\ \A i \in 1..Len(requests') : requests'[i] = requests[i + 1]
  BY PresTyped DEF Applied
<1>2. LastRequested' = LastRequested
  <2>1. CASE requests' = <<>>
    <3>1. Len(requests') = 0
      BY <2>1
    <3>2. Len(requests) = 1 /\ requests # <<>>
      BY <1>1, <3>1, PresTyped
    <3> QED BY <1>1, <2>1, <3>2 DEF LastRequested
  <2>2. CASE requests' # <<>>
    BY <1>1, <2>2, PresTyped DEF LastRequested
  <2> QED BY <2>1, <2>2
<1>3. requests # <<>>
  BY <1>1
<1>4. state' = IF online' THEN applied' ELSE "offline"
  BY <1>1, PresTyped DEF Applied, Signalled
<1>5. PresenceTypeOK'
  BY <1>1, <1>4 DEF Applied, PresInv, PresenceTypeOK, Presences
<1>6. CASE ~rough /\ saved = "unset"
  <2>1. StayedHere'
    BY <1>2, <1>3, <1>6 DEF Applied, PresInv, StayedHere
  <2> QED BY <1>4, <1>5, <1>6, <2>1 DEF Applied, PresInv, StateIsApplied
<1>7. CASE ~rough /\ saved # "unset"
  <2>1. /\ \A i \in 1..Len(requests') : i + 1 \in 1..Len(requests)
        /\ 1 \in 1..Len(requests)
    BY <1>1, PresTyped
  <2>2. applied' \in Aways /\ \A i \in 1..Len(requests') : requests'[i] \in Aways
    BY <1>1, <1>7, <2>1 DEF PresInv, WentAway
  <2>3. WentAway'
    BY <1>2, <1>7, <2>2 DEF Applied, PresInv, WentAway
  <2> QED BY <1>4, <1>5, <1>7, <2>3 DEF Applied, PresInv, StateIsApplied
<1> QED BY <1>4, <1>5, <1>6, <1>7 DEF Applied, PresInv, StateIsApplied

LEMMA PresenceWorld ==
  ASSUME PresInv, NetworkChanges \/ (\E on \in BOOLEAN : SetAutoAway(on)) \/ SessionChanges
  PROVE  PresInv'
<1>1. CASE NetworkChanges
  <2>1. PresenceTypeOK'
    BY <1>1 DEF NetworkChanges, Signalled, PresInv, PresenceTypeOK, Presences
  <2>2. ~rough' => ~rough /\ ~isIdle
    BY <1>1 DEF NetworkChanges
  <2>3. ~rough' /\ saved' = "unset" => StayedHere'
    BY <1>1, <2>2 DEF NetworkChanges, PresInv, StayedHere, LastRequested
  <2> QED BY <1>1, <2>1, <2>2, <2>3
      DEF NetworkChanges, Signalled, PresInv, StateIsApplied, WentAway
<1>2. ASSUME NEW on \in BOOLEAN, SetAutoAway(on) PROVE PresInv'
  <2>1. PresenceTypeOK'
    BY <1>2 DEF SetAutoAway, managerVars, PresInv, PresenceTypeOK
  <2>2. ~rough' => ~rough /\ ~isIdle
    BY <1>2 DEF SetAutoAway
  <2>3. ~rough' /\ saved' = "unset" => StayedHere'
    BY <1>2, <2>2 DEF SetAutoAway, managerVars, PresInv, StayedHere, LastRequested
  <2> QED BY <1>2, <2>1, <2>2, <2>3
      DEF SetAutoAway, managerVars, PresInv, StateIsApplied, WentAway
<1>3. CASE SessionChanges
  <2>1. PresenceTypeOK'
    BY <1>3 DEF SessionChanges, managerVars, PresInv, PresenceTypeOK
  <2>2. ~rough' => ~rough /\ requests = <<>>
    BY <1>3 DEF SessionChanges
  <2>3. LastRequested' = LastRequested /\ (requests = <<>> => LastRequested = applied)
    BY <1>3 DEF SessionChanges, managerVars, LastRequested
  <2>4. ~rough' /\ saved' = "unset" => StayedHere'
    BY <1>3, <2>2, <2>3 DEF SessionChanges, managerVars, PresInv, StayedHere
  <2>5. ~rough' /\ saved' # "unset" => WentAway'
    BY <1>3, <2>2, <2>3 DEF SessionChanges, managerVars, PresInv, WentAway
  <2> QED BY <1>3, <2>1, <2>4, <2>5 DEF SessionChanges, managerVars, PresInv, StateIsApplied
<1> QED BY <1>1, <1>2, <1>3

LEMMA PresenceAsked ==
  ASSUME PresInv, (\E p \in Chosen : UserChooses(p)) \/ ExtAway
  PROVE  PresInv'
<1>1. ASSUME NEW p \in Chosen, UserChooses(p) PROVE PresInv'
  <2>1. requests' \in Seq(Presences) /\ LastRequested' = p
    BY <1>1, PresTyped, Requested DEF UserChooses, managerVars
  <2>2. PresenceTypeOK'
    BY <1>1, <2>1 DEF UserChooses, managerVars, PresInv, PresenceTypeOK
  <2>3. ~rough => saved = "unset"
    BY <1>1 DEF UserChooses, PresInv, WentAway
  <2>4. ~rough' => StayedHere'
    BY <1>1, <2>1, <2>3 DEF UserChooses, managerVars, PresInv, StayedHere
  <2> QED BY <1>1, <2>2, <2>3, <2>4 DEF UserChooses, managerVars, PresInv, StateIsApplied
<1>2. CASE ExtAway
  <2>1. "xa" \in Presences /\ "xa" \in Aways
    BY DEF Presences, Aways
  <2>2. /\ requests' \in Seq(Presences) /\ LastRequested' = "xa"
        /\ (\A i \in 1..Len(requests) : requests[i] \in Aways) =>
             \A i \in 1..Len(requests') : requests'[i] \in Aways
    BY <1>2, <2>1, Requested DEF ExtAway, managerVars
  <2>3. PresenceTypeOK'
    BY <1>2, <2>2 DEF ExtAway, managerVars, PresInv, PresenceTypeOK
  <2>4. ~rough => saved # "unset"
    BY <1>2 DEF ExtAway, PresInv, StayedHere
  <2>5. ~rough' => WentAway'
    BY <1>2, <2>1, <2>2, <2>4 DEF ExtAway, managerVars, PresInv, WentAway
  <2> QED BY <1>2, <2>3, <2>4, <2>5 DEF ExtAway, managerVars, PresInv, StateIsApplied
<1> QED BY <1>1, <1>2

LEMMA PresenceSession ==
  ASSUME PresInv, SessionStatusChanged
  PROVE  PresInv'
<1>1. /\ idle # isIdle /\ isIdle' = idle
      /\ UNCHANGED <<idle, wish, applied, online, state, autoAway, rough>>
  BY DEF SessionStatusChanged, managerVars
<1>2. {idle, online, autoAway, isIdle, extAway, rough} \subseteq BOOLEAN
  BY DEF PresInv, PresenceTypeOK
<1>3. StateIsApplied'
  BY <1>1 DEF PresInv, StateIsApplied
<1>4. CASE NoAutoAway
  <2>1. UNCHANGED <<requests, saved, extAway>>
    BY <1>4 DEF SessionStatusChanged
  <2>2. PresenceTypeOK'
    BY <1>1, <1>2, <2>1 DEF PresInv, PresenceTypeOK
  <2>3. ~rough => saved = "unset"
    BY <1>1, <1>2, <1>4 DEF NoAutoAway, PresInv, WentAway, StateIsApplied, Aways
  <2>4. ~rough => StayedHere'
    BY <1>1, <1>2, <2>1, <2>3 DEF PresInv, StayedHere, LastRequested
  <2> QED BY <1>1, <1>3, <2>1, <2>2, <2>3, <2>4 DEF PresInv
<1>5. CASE ~NoAutoAway /\ idle
  <2>1. GoesIdle
    BY <1>5 DEF SessionStatusChanged
  <2> DEFINE p == IF state = "xa" THEN "xa" ELSE "away"
  <2>2. p \in Presences /\ p \in Aways
    BY DEF Presences, Aways
  <2>3. SetState(p) /\ extAway' = TRUE /\ saved' = state
    BY <2>1 DEF GoesIdle
  <2> HIDE DEF p
  <2>4. /\ requests' \in Seq(Presences) /\ LastRequested' \in Aways
        /\ (\A i \in 1..Len(requests) : requests[i] \in Aways) =>
             \A i \in 1..Len(requests') : requests'[i] \in Aways
    BY <1>1, <2>2, <2>3, Requested
  <2>5. PresenceTypeOK'
    <3>1. saved' \in Presences /\ extAway' \in BOOLEAN
      BY <2>3, PresTyped
    <3> QED BY <1>1, <1>2, <2>4, <3>1 DEF PresInv, PresenceTypeOK
  <2>6. ASSUME ~rough PROVE WentAway'
    <3>1. saved = "unset" /\ StayedHere
      BY <1>1, <1>2, <1>5, <2>6 DEF PresInv, WentAway
    <3>2. requests = <<>> /\ applied = wish
      BY <1>5, <3>1 DEF StayedHere, LastRequested
    <3>3. online /\ autoAway /\ state = wish /\ wish \notin {"offline", "hidden"}
      BY <1>5, <3>2 DEF NoAutoAway, PresInv, StateIsApplied
    <3>4. \A i \in 1..Len(requests) : requests[i] \in Aways
      BY <3>2
    <3> QED BY <1>1, <1>5, <2>3, <2>4, <3>3, <3>4 DEF WentAway
  <2>7. saved' # "unset"
    BY <2>3, PresTyped DEF Presences
  <2> QED BY <1>1, <1>3, <2>5, <2>6, <2>7 DEF PresInv
<1>6. CASE ~NoAutoAway /\ ~idle
  <2>1. ComesBack
    BY <1>6 DEF SessionStatusChanged
  <2>2. saved' = "unset" /\ extAway' = FALSE
    BY <2>1 DEF ComesBack
  <2>3. CASE saved = "unset"
    <3>1. UNCHANGED requests
      BY <2>1, <2>3 DEF ComesBack
    <3>2. PresenceTypeOK'
      BY <1>1, <1>2, <2>2, <3>1 DEF PresInv, PresenceTypeOK
    <3>3. ~rough => StayedHere'
      BY <1>1, <1>6, <2>2, <2>3, <3>1 DEF PresInv, StayedHere, LastRequested
    <3> QED BY <1>1, <1>3, <2>2, <3>2, <3>3 DEF PresInv
  <2>4. CASE saved # "unset"
    <3>1. SetState(saved) /\ saved \in Presences
      BY <2>1, <2>4, PresTyped DEF ComesBack
    <3>2. requests' \in Seq(Presences) /\ LastRequested' = saved
      BY <1>1, <3>1, Requested
    <3>3. PresenceTypeOK'
      BY <1>1, <1>2, <2>2, <3>2 DEF PresInv, PresenceTypeOK
    <3>4. ~rough => StayedHere'
      BY <1>1, <1>6, <2>2, <2>4, <3>2 DEF PresInv, StayedHere, WentAway
    <3> QED BY <1>1, <1>3, <2>2, <3>3, <3>4 DEF PresInv
  <2> QED BY <2>3, <2>4
<1> QED BY <1>4, <1>5, <1>6

LEMMA PresenceInitially == PresenceInit => PresInv
<1> SUFFICES ASSUME PresenceInit PROVE PresInv
  OBVIOUS
<1>1. requests \in Seq(Presences) /\ wish \in Presences
  BY PresenceAssumption DEF PresenceInit
<1> QED BY <1>1 DEF PresenceInit, PresInv, PresenceTypeOK, StateIsApplied, StayedHere, LastRequested

LEMMA PresenceStep == PresInv /\ [PresenceNext]_presenceVars => PresInv'
<1> SUFFICES ASSUME PresInv, [PresenceNext]_presenceVars PROVE PresInv'
  OBVIOUS
<1>1. CASE UNCHANGED presenceVars
  BY <1>1 DEF presenceVars, managerVars, PresInv, PresenceTypeOK, StateIsApplied, StayedHere,
     WentAway, LastRequested
<1> QED BY <1>1, PresenceApplied, PresenceWorld, PresenceAsked, PresenceSession DEF PresenceNext

(* Whatever the session, the user, the half-hour timer and the account       *)
(* manager do in between, with any number of requests under way: the user    *)
(* who comes back gets the presence that was asked for, the timer runs for   *)
(* idle users only, and nobody who asked to be offline or hidden is shown.   *)
THEOREM PresenceIsRestored == PresenceSpec => []StateIsRestored
<1>1. PresInv => StateIsRestored
  <2> SUFFICES ASSUME PresInv PROVE StateIsRestored
    OBVIOUS
  <2>1. Settled /\ ~rough => state = wish
    BY DEF Settled, PresInv, WentAway, StayedHere, LastRequested, StateIsApplied
  <2>2. extAway /\ ~rough => isIdle /\ saved # "unset"
    BY DEF PresInv, WentAway, StayedHere
  <2>3. wish \in {"offline", "hidden"} /\ requests # <<>> /\ ~rough => requests[Len(requests)] = wish
    BY DEF PresInv, WentAway, StayedHere, LastRequested
  <2> QED BY <2>1, <2>2, <2>3 DEF PresInv, StateIsRestored
<1> QED BY <1>1, PresenceInitially, PresenceStep, PTL DEF PresenceSpec

-----------------------------------------------------------------------------
(* The favorite rooms.  A process that knows what the file holds differs     *)
(* from it only by what waits for the timer, and by what nobody saves: every *)
(* other writer makes it one that does not know.                            *)

RoomsTyped ==
  /\ up \in [Processes -> {"down", "starting", "ready", "unprepared", "quitting"}]
  /\ list \in [Processes -> Seq(Entry)] /\ marked \in [Processes -> SUBSET Rooms]
  /\ file \in [rooms : Seq(Entry), whole : BOOLEAN]
  /\ writing \subseteq Processes /\ synced \subseteq Processes

ProcessesFit ==
  /\ timer \subseteq {p \in Processes : Runs(p)}
  /\ changed \subseteq {p \in Processes : up[p] \in {"ready", "quitting"}}
  /\ open \subseteq Processes \X Rooms

Known(p) == p \in synced \ (timer \cup writing) /\ file.whole => Differences(p) \subseteq marked[p]

RoomsInv == RoomsTyped /\ ProcessesFit /\ \A p \in Processes : Known(p)

(* What the operators make of the favorites of a list. *)
LEMMA FavsAre ==
  ASSUME NEW l \in Seq(Entry), NEW x
  PROVE  x \in Favs(l) <=> \E i \in 1..Len(l) : IsFavorite(l[i]) /\ x = <<l[i].room, l[i].kind>>
  BY DEF Favs

LEMMA SavedFavs ==
  ASSUME NEW l \in Seq(Entry)
  PROVE  Saved(l) \in Seq(Entry) /\ Favs(Saved(l)) = Favs(l)
<1> DEFINE favorites == {i \in DOMAIN l : IsFavorite(l[i])}
           Rank(i) == Cardinality({j \in favorites : j <= i})
           Nth(n) == CHOOSE i \in favorites : Rank(i) = n
           count == Cardinality(favorites)
<1>1. /\ count \in Nat /\ \A i \in favorites : Rank(i) \in 1..count
      /\ \A n \in 1..count : \E i \in favorites : Rank(i) = n
      /\ \A i, k \in favorites : Rank(i) = Rank(k) => i = k
  <2>1. Len(l) \in Nat /\ favorites \subseteq 1..Len(l)
    OBVIOUS
  <2> HIDE DEF favorites
  <2> QED BY <2>1, Ranks
<1>2. Saved(l) = [n \in 1..count |-> l[Nth(n)]]
  BY DEF Saved
<1>3. \A i \in favorites : i \in 1..Len(l) /\ l[i] \in Entry /\ IsFavorite(l[i])
  OBVIOUS
<1>4. \A i \in 1..Len(l) : IsFavorite(l[i]) => i \in favorites
  OBVIOUS
<1> HIDE DEF favorites, Rank, count
<1>5. \A n \in 1..count : Nth(n) \in favorites
  BY <1>1
<1>6. \A i \in favorites : \E n \in 1..count : l[Nth(n)] = l[i]
  <2>1. SUFFICES ASSUME NEW i \in favorites PROVE l[Nth(Rank(i))] = l[i]
    BY <1>1
  <2> QED BY <1>1
<1> HIDE DEF Nth
<1>7. /\ Saved(l) \in Seq(Entry) /\ Len(Saved(l)) = count
      /\ \A n \in 1..count : Saved(l)[n] = l[Nth(n)]
  BY <1>1, <1>2, <1>3, <1>5
<1>8. ASSUME NEW x, x \in Favs(Saved(l)) PROVE x \in Favs(l)
  <2>1. PICK n \in 1..count : IsFavorite(l[Nth(n)]) /\ x = <<l[Nth(n)].room, l[Nth(n)].kind>>
    BY <1>7, <1>8, FavsAre
  <2> QED BY <1>3, <1>5, <2>1, FavsAre
<1>9. ASSUME NEW x, x \in Favs(l) PROVE x \in Favs(Saved(l))
  <2>1. PICK i \in 1..Len(l) : IsFavorite(l[i]) /\ x = <<l[i].room, l[i].kind>>
    BY <1>9, FavsAre
  <2>2. PICK n \in 1..count : l[Nth(n)] = l[i]
    BY <1>4, <1>6, <2>1
  <2>3. Saved(l)[n] = l[i]
    BY <1>7, <2>2
  <2> QED BY <1>7, <2>1, <2>2, <2>3, FavsAre
<1> QED BY <1>7, <1>8, <1>9

LEMMA FavsParsed ==
  ASSUME NEW f \in [rooms : Seq(Entry), whole : BOOLEAN], NEW l \in Seq(Entry)
  PROVE  /\ Parsed(f, l) \in Seq(Entry)
         /\ f.whole => Favs(Parsed(f, l)) = Favs(f.rooms) \cup Favs(l)
<1>1. CASE ~f.whole
  BY <1>1 DEF Parsed
<1>2. CASE f.whole
  <2> DEFINE s == f.rooms
             left(e) == [e EXCEPT !.chat = FALSE]
             a == [i \in DOMAIN s |-> left(s[i])]
             N == Len(s)
             b == Reverse(a)
  <2>1. s \in Seq(Entry) /\ N \in Nat /\ DOMAIN s = 1..N
    OBVIOUS
  <2>2. \A e \in Entry : left(e) \in Entry /\ left(e).room = e.room /\ left(e).kind = e.kind
    BY DEF Entry
  <2>5. Parsed(f, l) = b \o l
    BY <1>2 DEF Parsed
  <2> HIDE DEF s, left
  <2>3. /\ a \in Seq(Entry) /\ Len(a) = N
        /\ \A i \in 1..N : a[i].room = s[i].room /\ a[i].kind = s[i].kind
    <3>1. \A i \in 1..N : s[i] \in Entry
      BY <2>1
    <3>2. \A i \in 1..N : left(s[i]) \in Entry
      BY <2>2, <3>1
    <3>3. a \in Seq(Entry) /\ Len(a) = N /\ \A i \in 1..N : a[i] = left(s[i])
      BY <2>1, <3>2
    <3> QED BY <2>2, <3>1, <3>3
  <2> HIDE DEF a
  <2>4. /\ b \in Seq(Entry) /\ Len(b) = N
        /\ \A i \in 1..N : b[i] = a[N - i + 1]
    <3>1. \A i \in 1..N : N - i + 1 \in 1..N /\ a[N - i + 1] \in Entry
      BY <2>1, <2>3
    <3>2. b = [i \in 1..N |-> a[N - i + 1]]
      BY <2>3 DEF Reverse
    <3> HIDE DEF b, N
    <3> QED BY <2>1, <3>1, <3>2
  <2> HIDE DEF b
  <2> DEFINE c == b \o l
  <2>6. /\ c \in Seq(Entry) /\ Len(c) = N + Len(l)
        /\ \A j \in 1..N : c[j] = b[j]
        /\ \A j \in 1..Len(l) : c[j + N] = l[j]
    <3>1. /\ c \in Seq(Entry) /\ Len(c) = Len(b) + Len(l)
          /\ \A j \in 1..Len(b) : c[j] = b[j]
          /\ \A j \in 1..Len(l) : c[j + Len(b)] = l[j]
      <4>1. b \in Seq(Entry) /\ l \in Seq(Entry)
        BY <2>4
      <4> HIDE DEF N
      <4> QED BY <4>1, ConcatShape
    <3> HIDE DEF N, c
    <3> QED BY <2>4, <3>1
  <2>7. Len(l) \in Nat /\ Len(s) = N
    BY DEF N
  <2> HIDE DEF N, c
  <2>8. ASSUME NEW x, x \in Favs(c) PROVE x \in Favs(s) \cup Favs(l)
    <3>1. PICK j \in 1..(N + Len(l)) : /\ IsFavorite(c[j])
                                       /\ x = <<c[j].room, c[j].kind>>
      BY <2>6, <2>8, FavsAre
    <3>2. CASE j <= N
      <4>1. j \in 1..N /\ N - j + 1 \in 1..N
        BY <2>1, <2>7, <3>2
      <4>2. c[j] = a[N - j + 1]
        BY <2>4, <2>6, <4>1
      <4>3. IsFavorite(s[N - j + 1]) /\ x = <<s[N - j + 1].room, s[N - j + 1].kind>>
        BY <2>3, <3>1, <4>1, <4>2 DEF IsFavorite
      <4> QED BY <2>1, <2>7, <4>1, <4>3, FavsAre
    <3>3. CASE ~(j <= N)
      <4>1. j - N \in 1..Len(l) /\ (j - N) + N = j
        BY <2>1, <2>7, <3>3
      <4>2. c[j] = l[j - N]
        BY <2>6, <4>1
      <4> QED BY <3>1, <4>1, <4>2, FavsAre
    <3> QED BY <3>2, <3>3
  <2>9. ASSUME NEW x, x \in Favs(s) PROVE x \in Favs(c)
    <3>1. PICK i \in 1..N : IsFavorite(s[i]) /\ x = <<s[i].room, s[i].kind>>
      BY <2>1, <2>7, <2>9, FavsAre
    <3>2. N - i + 1 \in 1..N /\ N - (N - i + 1) + 1 = i /\ N - i + 1 \in 1..(N + Len(l))
      BY <2>1, <2>7
    <3>3. c[N - i + 1] = a[i]
      BY <2>4, <2>6, <3>2
    <3>4. IsFavorite(a[i]) /\ x = <<a[i].room, a[i].kind>>
      BY <2>3, <3>1 DEF IsFavorite
    <3> QED BY <2>6, <3>2, <3>3, <3>4, FavsAre
  <2>10. ASSUME NEW x, x \in Favs(l) PROVE x \in Favs(c)
    <3>1. PICK i \in 1..Len(l) : IsFavorite(l[i]) /\ x = <<l[i].room, l[i].kind>>
      BY <2>10, FavsAre
    <3>2. i + N \in 1..(N + Len(l)) /\ c[i + N] = l[i]
      BY <2>1, <2>6, <2>7
    <3> QED BY <2>6, <3>1, <3>2, FavsAre
  <2>11. Favs(c) = Favs(s) \cup Favs(l)
    BY <2>8, <2>9, <2>10
  <2> QED BY <2>5, <2>6, <2>11 DEF s, c
<1> QED BY <1>1, <1>2

(* A change that keeps the rooms and what they are keeps the favorites. *)
LEMMA FavsKept ==
  ASSUME NEW l \in Seq(Entry), NEW k \in Seq(Entry), Len(k) = Len(l),
         \A i \in 1..Len(l) : k[i].room = l[i].room /\ k[i].kind = l[i].kind
  PROVE  Favs(k) = Favs(l)
<1>1. ASSUME NEW x PROVE x \in Favs(k) <=> x \in Favs(l)
  BY FavsAre DEF IsFavorite
<1> QED BY <1>1

(* An entry whose flag of an open channel changes, and one that becomes of   *)
(* another kind.                                                             *)
LEMMA EntryChanged ==
  ASSUME NEW l \in Seq(Entry), NEW i \in 1..Len(l), NEW c \in BOOLEAN
  PROVE  [l EXCEPT ![i].chat = c] \in Seq(Entry) /\ Favs([l EXCEPT ![i].chat = c]) = Favs(l)
<1> DEFINE e == [l[i] EXCEPT !.chat = c]
           m == [l EXCEPT ![i] = e]
<1>1. e \in Entry /\ e.room = l[i].room /\ e.kind = l[i].kind
  <2>1. l[i] \in Entry
    OBVIOUS
  <2> HIDE DEF m
  <2> QED BY <2>1 DEF Entry
<1>2. [l EXCEPT ![i].chat = c] = m
  OBVIOUS
<1> HIDE DEF e
<1>3. m \in Seq(Entry) /\ Len(m) = Len(l) /\ \A j \in 1..Len(l) : m[j] = IF j = i THEN e ELSE l[j]
  BY <1>1
<1> HIDE DEF m
<1>4. Favs(m) = Favs(l)
  BY <1>1, <1>3, FavsKept
<1> QED BY <1>2, <1>3, <1>4

LEMMA KindChanged ==
  ASSUME NEW l \in Seq(Entry), NEW i \in 1..Len(l), NEW k \in Kinds
  PROVE  /\ [l EXCEPT ![i].kind = k] \in Seq(Entry)
         /\ \A x \in Favs([l EXCEPT ![i].kind = k]) : x \in Favs(l) \/ x[1] = l[i].room
         /\ ~IsFavorite(l[i]) => \A x \in Favs(l) : x \in Favs([l EXCEPT ![i].kind = k])
<1> DEFINE e == [l[i] EXCEPT !.kind = k]
           m == [l EXCEPT ![i] = e]
<1>1. e \in Entry /\ e.room = l[i].room
  <2>1. l[i] \in Entry
    OBVIOUS
  <2> HIDE DEF m
  <2> QED BY <2>1 DEF Entry
<1>2. [l EXCEPT ![i].kind = k] = m
  OBVIOUS
<1> HIDE DEF e
<1>3. m \in Seq(Entry) /\ Len(m) = Len(l) /\ \A j \in 1..Len(l) : m[j] = IF j = i THEN e ELSE l[j]
  BY <1>1
<1> HIDE DEF m
<1>4. ASSUME NEW x, x \in Favs(m) PROVE x \in Favs(l) \/ x[1] = l[i].room
  <2>1. PICK j \in 1..Len(l) : IsFavorite(m[j]) /\ x = <<m[j].room, m[j].kind>>
    BY <1>3, <1>4, FavsAre
  <2>2. CASE j = i
    BY <1>1, <1>3, <2>1, <2>2
  <2>3. CASE j # i
    BY <1>3, <2>1, <2>3, FavsAre
  <2> QED BY <2>2, <2>3
<1>5. ASSUME NEW x, x \in Favs(l), ~IsFavorite(l[i]) PROVE x \in Favs(m)
  <2>1. PICK j \in 1..Len(l) : IsFavorite(l[j]) /\ x = <<l[j].room, l[j].kind>>
    BY <1>5, FavsAre
  <2>2. j # i /\ m[j] = l[j]
    BY <1>3, <1>5, <2>1
  <2> QED BY <1>3, <2>1, <2>2, FavsAre
<1> QED BY <1>2, <1>3, <1>4, <1>5

(* The first room of a list that has what is looked for. *)
LEMMA FindFinds ==
  ASSUME NEW l \in Seq(Entry), NEW r
  PROVE  /\ Find(l, r) = 0 \/ (Find(l, r) \in 1..Len(l) /\ l[Find(l, r)].room = r)
         /\ (\E i \in 1..Len(l) : l[i].room = r) => Find(l, r) # 0
<1> DEFINE I == {i \in 1..Len(l) : l[i].room = r}
<1>1. Find(l, r) = IF I # {} THEN CHOOSE x \in I : \A y \in I : x <= y ELSE 0
  BY DEF Find, SelectInSeq, Min
<1>2. \A i \in I : i \in Nat
  OBVIOUS
<1>3. I # {} => Find(l, r) \in I
  <2> HIDE DEF I
  <2> QED BY <1>1, <1>2, FirstOf
<1>4. I = {} => Find(l, r) = 0
  BY <1>1
<1>5. \A i \in I : i \in 1..Len(l) /\ i # 0 /\ l[i].room = r
  OBVIOUS
<1>6. (\E i \in 1..Len(l) : l[i].room = r) => I # {}
  OBVIOUS
<1> QED BY <1>3, <1>4, <1>5, <1>6

LEMMA FavsEnsured ==
  ASSUME NEW l \in Seq(Entry), NEW r \in Rooms
  PROVE  /\ Ensured(l, r) \in Seq(Entry) /\ Favs(Ensured(l, r)) = Favs(l)
         /\ Find(Ensured(l, r), r) \in 1..Len(Ensured(l, r))
         /\ Ensured(l, r)[Find(Ensured(l, r), r)].room = r
<1>1. CASE Find(l, r) # 0
  BY <1>1, FindFinds DEF Ensured
<1>2. CASE Find(l, r) = 0
  <2> DEFINE e == Chatroom(r, "plain", FALSE)
             m == <<e>> \o l
  <2>1. e \in Entry /\ e.room = r /\ ~IsFavorite(e)
    BY DEF Chatroom, Entry, Kinds, IsFavorite
  <2>2. Ensured(l, r) = m
    BY <1>2 DEF Ensured
  <2> HIDE DEF e
  <2>3. /\ m \in Seq(Entry) /\ Len(m) = Len(l) + 1 /\ m[1] = e
        /\ \A j \in 2..(Len(l) + 1) : m[j] = l[j - 1]
    BY <2>1, PrependShape
  <2> HIDE DEF m
  <2>4. Len(l) \in Nat
    OBVIOUS
  <2>5. ASSUME NEW x, x \in Favs(m) PROVE x \in Favs(l)
    <3>0. x \in Favs(m) <=> \E i \in 1..Len(m) : IsFavorite(m[i]) /\ x = <<m[i].room, m[i].kind>>
      BY <2>3, FavsAre
    <3>1. PICK i \in 1..(Len(l) + 1) : IsFavorite(m[i]) /\ x = <<m[i].room, m[i].kind>>
      BY <2>3, <2>5, <3>0
    <3>2. i # 1
      BY <2>1, <2>3, <3>1
    <3>3. i - 1 \in 1..Len(l) /\ m[i] = l[i - 1]
      BY <2>3, <2>4, <3>2
    <3> QED BY <3>1, <3>3, FavsAre
  <2>6. ASSUME NEW x, x \in Favs(l) PROVE x \in Favs(m)
    <3>1. PICK i \in 1..Len(l) : IsFavorite(l[i]) /\ x = <<l[i].room, l[i].kind>>
      BY <2>6, FavsAre
    <3>2. i + 1 \in 1..(Len(l) + 1) /\ m[i + 1] = l[i]
      BY <2>3, <2>4
    <3> QED BY <2>3, <3>1, <3>2, FavsAre
  <2>7. 1 \in 1..Len(m) /\ m[1].room = r
    BY <2>1, <2>3, <2>4
  <2>8. Find(m, r) \in 1..Len(m) /\ m[Find(m, r)].room = r
    BY <2>3, <2>7, FindFinds
  <2> QED BY <2>2, <2>3, <2>5, <2>6, <2>8
<1> QED BY <1>1, <1>2

LEMMA FavsRemoved ==
  ASSUME NEW l \in Seq(Entry), NEW i \in 1..Len(l)
  PROVE  RemoveAt(l, i) \in Seq(Entry) /\ (~IsFavorite(l[i]) => Favs(RemoveAt(l, i)) = Favs(l))
<1> DEFINE m == RemoveAt(l, i)
<1>1. /\ m \in Seq(Entry) /\ Len(m) = Len(l) - 1 /\ Len(l) \in Nat
      /\ \A j \in 1..(Len(l) - 1) : m[j] = IF j < i THEN l[j] ELSE l[j + 1]
  BY RemoveAtShape
<1> HIDE DEF m
<1>2. ASSUME NEW x, x \in Favs(m) PROVE x \in Favs(l)
  <2>1. PICK j \in 1..(Len(l) - 1) : IsFavorite(m[j]) /\ x = <<m[j].room, m[j].kind>>
    BY <1>1, <1>2, FavsAre
  <2>2. j \in 1..Len(l) /\ j + 1 \in 1..Len(l) /\ (m[j] = l[j] \/ m[j] = l[j + 1])
    BY <1>1
  <2> QED BY <2>1, <2>2, FavsAre
<1>3. ASSUME NEW x, x \in Favs(l), ~IsFavorite(l[i]) PROVE x \in Favs(m)
  <2>1. PICK j \in 1..Len(l) : IsFavorite(l[j]) /\ x = <<l[j].room, l[j].kind>>
    BY <1>3, FavsAre
  <2>2. j # i
    BY <1>3, <2>1
  <2>3. \E k \in 1..(Len(l) - 1) : m[k] = l[j]
    <3>1. CASE j < i
      <4>1. j \in 1..(Len(l) - 1) /\ m[j] = l[j]
        BY <1>1, <3>1
      <4> QED BY <4>1
    <3>2. CASE ~(j < i)
      <4>1. j - 1 \in 1..(Len(l) - 1) /\ ~(j - 1 < i) /\ (j - 1) + 1 = j
        BY <1>1, <2>2, <3>2
      <4>2. m[j - 1] = l[j]
        BY <1>1, <4>1
      <4> QED BY <4>1, <4>2
    <3> QED BY <3>1, <3>2
  <2> QED BY <1>1, <2>1, <2>3, FavsAre
<1> QED BY <1>1, <1>2, <1>3 DEF m

(* A list that is replaced. *)
LEMMA ListMade ==
  ASSUME RoomsTyped, NEW p \in Processes, NEW m \in Seq(Entry),
         list' = [list EXCEPT ![p] = m]
  PROVE  /\ list' \in [Processes -> Seq(Entry)] /\ list'[p] = m
         /\ \A q \in Processes : q # p => list'[q] = list[q]
  BY DEF RoomsTyped

(* A process that a step leaves with its list and what is marked. *)
LEMMA KnownStill ==
  ASSUME RoomsInv, NEW q \in Processes, list'[q] = list[q], marked[q] \subseteq marked'[q],
         file' = file, q \in synced' => q \in synced,
         q \in timer \cup writing => q \in timer' \cup writing'
  PROVE  Known(q)'
<1>1. Known(q)
  BY DEF RoomsInv
<1>2. Differences(q)' = Differences(q)
  BY DEF Differences, Contents
<1> QED BY <1>1, <1>2 DEF Known

(* A process whose list has other entries but the same favorites. *)
LEMMA KnownToo ==
  ASSUME RoomsInv, NEW p \in Processes, Favs(list'[p]) = Favs(list[p]),
         UNCHANGED <<file, synced, timer, writing, marked>>
  PROVE  Known(p)'
<1>1. Known(p)
  BY DEF RoomsInv
<1>2. Differences(p)' = Differences(p)
  BY DEF Differences, Contents
<1> QED BY <1>1, <1>2 DEF Known

-----------------------------------------------------------------------------
LEMMA ProcessesStart ==
  ASSUME RoomsInv, NEW p \in Processes,
         Start(p) \/ AccountManagerFails(p)
  PROVE  RoomsInv'
<1>1. RoomsTyped' /\ ProcessesFit'
  BY DEF RoomsInv, RoomsTyped, ProcessesFit, Start, AccountManagerFails, Runs
<1>2. UNCHANGED <<list, marked, file, synced, timer, writing>>
  BY DEF Start, AccountManagerFails
<1>3. ASSUME NEW q \in Processes PROVE Known(q)'
  BY <1>2, KnownStill
<1> QED BY <1>1, <1>3 DEF RoomsInv

LEMMA ManagersReady ==
  ASSUME RoomsInv, NEW p \in Processes, AccountManagerReady(p)
  PROVE  RoomsInv'
<1> DEFINE m == Parsed(file, list[p])
<1>1. /\ file \in [rooms : Seq(Entry), whole : BOOLEAN] /\ list[p] \in Seq(Entry)
      /\ marked \in [Processes -> SUBSET Rooms]
  BY DEF RoomsInv, RoomsTyped
<1>2. m \in Seq(Entry) /\ (file.whole => Favs(m) = Favs(file.rooms) \cup Favs(list[p]))
  BY <1>1, FavsParsed
<1>3. list' = [list EXCEPT ![p] = m] /\ UNCHANGED <<file, timer, writing, changed, open>>
  BY DEF AccountManagerReady
<1> HIDE DEF m
<1>4. /\ list' \in [Processes -> Seq(Entry)] /\ list'[p] = m
      /\ \A q \in Processes : q # p => list'[q] = list[q]
  BY <1>2, <1>3, ListMade DEF RoomsInv
<1>5. {f[1] : f \in Favs(list[p])} \subseteq Rooms
  <2>1. ASSUME NEW f \in Favs(list[p]) PROVE f[1] \in Rooms
    <3> DEFINE l == list[p]
    <3>1. l \in Seq(Entry)
      BY <1>1
    <3> HIDE DEF l
    <3>2. PICK i \in 1..Len(l) : f = <<l[i].room, l[i].kind>>
      BY <2>1, <3>1, FavsAre DEF l
    <3>3. l[i] \in Entry
      BY <3>1
    <3>4. l[i].room \in Rooms
      BY <3>3 DEF Entry
    <3> QED BY <3>2, <3>4
  <2> QED BY <2>1
<1>6. /\ marked' \in [Processes -> SUBSET Rooms]
      /\ \A q \in Processes : marked[q] \subseteq marked'[q]
      /\ {f[1] : f \in Favs(list[p])} \subseteq marked'[p]
  BY <1>1, <1>5 DEF AccountManagerReady
<1>7. RoomsTyped' /\ ProcessesFit'
  BY <1>3, <1>4, <1>6 DEF RoomsInv, RoomsTyped, ProcessesFit, AccountManagerReady, Runs
<1>8. ASSUME NEW q \in Processes, q # p PROVE Known(q)'
  <2>1. q \in synced' => q \in synced
    BY <1>8 DEF AccountManagerReady
  <2> QED BY <1>3, <1>4, <1>6, <1>8, <2>1, KnownStill
<1>9. Known(p)'
  <2>1. p \in synced' => file.whole
    BY DEF AccountManagerReady
  <2>2. ASSUME file.whole PROVE Differences(p)' \subseteq marked'[p]
    <3>1. Favs(list'[p]) = Favs(file.rooms) \cup Favs(list[p])
      BY <1>2, <1>4, <2>2
    <3>2. Contents' = Favs(file.rooms)
      BY <1>3, <2>2 DEF Contents
    <3>3. Differences(p)' \subseteq {f[1] : f \in Favs(list[p])}
      BY <3>1, <3>2 DEF Differences
    <3> QED BY <1>6, <3>3
  <2> QED BY <2>1, <2>2 DEF Known
<1> QED BY <1>7, <1>8, <1>9 DEF RoomsInv

(* Whoever opens the file leaves nobody anything to know. *)
LEMMA FileOpened ==
  ASSUME RoomsInv, NEW p \in Processes, SaveStarts(p) \/ (Quit(p) /\ p \in timer /\ up[p] # "starting")
  PROVE  RoomsInv'
<1>1. /\ file' = [file EXCEPT !.whole = FALSE]
      /\ UNCHANGED <<list, marked, open, synced, changed>>
      /\ writing' = writing \cup {p} /\ timer' = timer \ {p}
      /\ up' = up \/ (up' = [up EXCEPT ![p] = "quitting"] /\ Runs(p))
  BY DEF SaveStarts, Quit
<1>2. file' \in [rooms : Seq(Entry), whole : BOOLEAN] /\ ~file'.whole
  BY <1>1 DEF RoomsInv, RoomsTyped
<1>3. RoomsTyped' /\ ProcessesFit'
  BY <1>1, <1>2 DEF RoomsInv, RoomsTyped, ProcessesFit, Runs
<1>4. ASSUME NEW q \in Processes PROVE Known(q)'
  BY <1>2 DEF Known
<1> QED BY <1>3, <1>4 DEF RoomsInv

LEMMA ProcessesGo ==
  ASSUME RoomsInv, NEW p \in Processes, Gone(p), file' = file,
         changed' \subseteq {q \in Processes \ {p} : up[q] \in {"ready", "quitting"}}
  PROVE  RoomsInv'
<1>1. /\ up' = [up EXCEPT ![p] = "down"] /\ list' = [list EXCEPT ![p] = <<>>]
      /\ timer' = timer \ {p} /\ writing' = writing \ {p} /\ synced' = synced \ {p}
      /\ marked' = [marked EXCEPT ![p] = {}]
      /\ open' \subseteq open
  BY DEF Gone
<1>2. /\ list' \in [Processes -> Seq(Entry)]
      /\ \A q \in Processes : q # p => list'[q] = list[q]
  <2>1. <<>> \in Seq(Entry)
    OBVIOUS
  <2> QED BY <1>1, <2>1, ListMade DEF RoomsInv
<1>3. /\ marked' \in [Processes -> SUBSET Rooms]
      /\ \A q \in Processes : q # p => marked'[q] = marked[q]
  BY <1>1 DEF RoomsInv, RoomsTyped
<1>4. RoomsTyped' /\ ProcessesFit'
  BY <1>1, <1>2, <1>3 DEF RoomsInv, RoomsTyped, ProcessesFit, Runs
<1>5. ASSUME NEW q \in Processes, q # p PROVE Known(q)'
  BY <1>1, <1>2, <1>3, <1>5, KnownStill
<1>6. Known(p)'
  BY <1>1 DEF Known
<1> QED BY <1>4, <1>5, <1>6 DEF RoomsInv

LEMMA ProcessesQuit ==
  ASSUME RoomsInv, NEW p \in Processes, Quit(p)
  PROVE  RoomsInv'
<1>1. CASE p \in timer /\ up[p] # "starting"
  BY <1>1, FileOpened
<1>2. CASE ~(p \in timer /\ up[p] # "starting")
  <2>1. Gone(p) /\ changed' = changed \ {p} /\ UNCHANGED file
    BY <1>2 DEF Quit
  <2>2. changed' \subseteq {q \in Processes \ {p} : up[q] \in {"ready", "quitting"}}
    BY <2>1 DEF RoomsInv, ProcessesFit
  <2> QED BY <2>1, <2>2, ProcessesGo
<1> QED BY <1>1, <1>2

LEMMA ProcessesCrash ==
  ASSUME RoomsInv, NEW p \in Processes, Crash(p)
  PROVE  RoomsInv'
<1>1. Gone(p) /\ file' = file
  BY DEF Crash
<1>2. changed' \subseteq {q \in Processes \ {p} : up[q] \in {"ready", "quitting"}}
  BY DEF RoomsInv, ProcessesFit, Crash
<1> QED BY <1>1, <1>2, ProcessesGo

LEMMA SavesEnd ==
  ASSUME RoomsInv, NEW p \in Processes, SaveEnds(p)
  PROVE  RoomsInv'
<1>1. list[p] \in Seq(Entry) /\ file \in [rooms : Seq(Entry), whole : BOOLEAN]
  BY DEF RoomsInv, RoomsTyped
<1>2. Saved(list[p]) \in Seq(Entry) /\ Favs(Saved(list[p])) = Favs(list[p])
  BY <1>1, SavedFavs
<1>3. \/ file' = [rooms |-> Saved(list[p]), whole |-> TRUE]
      \/ file' = [file EXCEPT !.whole = FALSE]
  BY DEF SaveEnds
<1>4. file' \in [rooms : Seq(Entry), whole : BOOLEAN] /\ (file'.whole => file'.rooms = Saved(list[p]))
  <2> DEFINE w == Saved(list[p])
  <2>1. w \in Seq(Entry)
    BY <1>2
  <2> HIDE DEF w
  <2>2. CASE file' = [rooms |-> w, whole |-> TRUE]
    BY <2>1, <2>2 DEF w
  <2>3. CASE file' = [file EXCEPT !.whole = FALSE]
    BY <1>1, <2>3
  <2> QED BY <1>3, <2>2, <2>3 DEF w
<1>5. /\ changed' = {q \in Processes : up[q] = "ready"} /\ writing' = writing \ {p}
      /\ marked' = [marked EXCEPT ![p] = {}] /\ timer' = timer /\ open' \subseteq open
      /\ \/ /\ up[p] = "quitting" /\ up' = [up EXCEPT ![p] = "down"]
            /\ list' = [list EXCEPT ![p] = <<>>] /\ synced' = {}
         \/ UNCHANGED <<up, list>> /\ synced' = {p}
  BY DEF SaveEnds
<1>6. list' \in [Processes -> Seq(Entry)] /\ (synced' # {} => list' = list)
  <2>1. list \in [Processes -> Seq(Entry)] /\ <<>> \in Seq(Entry)
    BY DEF RoomsInv, RoomsTyped
  <2> QED BY <1>5, <2>1
<1>7. RoomsTyped'
  BY <1>4, <1>5, <1>6 DEF RoomsInv, RoomsTyped
<1>8. ProcessesFit'
  BY <1>5 DEF RoomsInv, RoomsTyped, ProcessesFit, Runs
<1>9. ASSUME NEW q \in Processes PROVE Known(q)'
  <2>1. q \in synced' => q = p /\ list' = list
    BY <1>5, <1>6
  <2>2. ASSUME q \in synced', file'.whole PROVE Differences(q)' = {}
    <3>1. Contents' = Favs(list'[q])
      BY <1>2, <1>4, <2>1, <2>2 DEF Contents
    <3> QED BY <3>1 DEF Differences
  <2> QED BY <2>2 DEF Known
<1> QED BY <1>7, <1>8, <1>9 DEF RoomsInv

LEMMA FilesChange ==
  ASSUME RoomsInv, NEW p \in Processes, FileChanged(p)
  PROVE  RoomsInv'
<1> DEFINE m == Parsed(file, <<>>)
<1>1. file \in [rooms : Seq(Entry), whole : BOOLEAN] /\ marked \in [Processes -> SUBSET Rooms]
  BY DEF RoomsInv, RoomsTyped
<1>2. <<>> \in Seq(Entry) /\ Favs(<<>>) = {}
  BY DEF Favs
<1>3. m \in Seq(Entry) /\ (file.whole => Favs(m) = Favs(file.rooms))
  BY <1>1, <1>2, FavsParsed
<1>4. /\ list' = [list EXCEPT ![p] = m] /\ changed' = changed \ {p}
      /\ marked' = [marked EXCEPT ![p] = {}]
      /\ UNCHANGED <<up, timer, writing, file, open>>
  BY DEF FileChanged
<1> HIDE DEF m
<1>5. /\ list' \in [Processes -> Seq(Entry)] /\ list'[p] = m
      /\ \A q \in Processes : q # p => list'[q] = list[q]
  BY <1>3, <1>4, ListMade DEF RoomsInv
<1>6. RoomsTyped' /\ ProcessesFit'
  BY <1>4, <1>5 DEF RoomsInv, RoomsTyped, ProcessesFit, FileChanged, Runs
<1>7. ASSUME NEW q \in Processes, q # p PROVE Known(q)'
  <2>1. (q \in synced' => q \in synced) /\ marked'[q] = marked[q]
    BY <1>1, <1>4, <1>7 DEF FileChanged
  <2> QED BY <1>4, <1>5, <1>7, <2>1, KnownStill
<1>8. Known(p)'
  <2>1. p \in synced' => file.whole
    BY DEF FileChanged
  <2>2. ASSUME file.whole PROVE Differences(p)' = {}
    <3>1. Contents' = Favs(file.rooms) /\ Favs(list'[p]) = Favs(file.rooms)
      BY <1>3, <1>4, <1>5, <2>2 DEF Contents
    <3> QED BY <3>1 DEF Differences
  <2> QED BY <2>1, <2>2 DEF Known
<1> QED BY <1>6, <1>7, <1>8 DEF RoomsInv

-----------------------------------------------------------------------------
(* What is done to the list of a process that runs, by whoever and to        *)
(* whichever room: it keeps the favorites, or marks the room, or starts the  *)
(* timer.                                                                    *)
LEMMA ListsChange ==
  ASSUME RoomsInv, NEW p \in Processes, NEW m \in Seq(Entry), Runs(p),
         list' = [list EXCEPT ![p] = m], UNCHANGED <<up, file, writing, changed, synced>>,
         open' \subseteq Processes \X Rooms, timer' = timer \/ timer' = timer \cup {p},
         marked' \in [Processes -> SUBSET Rooms],
         \A q \in Processes : q # p => marked'[q] = marked[q],
         Known(p)'
  PROVE  RoomsInv'
<1>1. /\ list' \in [Processes -> Seq(Entry)]
      /\ \A q \in Processes : q # p => list'[q] = list[q]
  BY ListMade DEF RoomsInv
<1>2. RoomsTyped' /\ ProcessesFit'
  BY <1>1 DEF RoomsInv, RoomsTyped, ProcessesFit, Runs
<1>3. ASSUME NEW q \in Processes, q # p PROVE Known(q)'
  BY <1>1, <1>3, KnownStill
<1> QED BY <1>2, <1>3 DEF RoomsInv

LEMMA ChannelsObserved ==
  ASSUME RoomsInv, NEW p \in Processes, NEW r \in Rooms, ObserveChannels(p, r)
  PROVE  RoomsInv'
<1> DEFINE l == Ensured(list[p], r)
           i == Find(l, r)
           m == [l EXCEPT ![i].chat = TRUE]
<1>1. list[p] \in Seq(Entry) /\ open \subseteq Processes \X Rooms
  BY DEF RoomsInv, RoomsTyped, ProcessesFit
<1>2. l \in Seq(Entry) /\ Favs(l) = Favs(list[p]) /\ i \in 1..Len(l)
  BY <1>1, FavsEnsured
<1>3. /\ Runs(p) /\ list' = [list EXCEPT ![p] = m] /\ open' = open \cup {<<p, r>>}
      /\ UNCHANGED <<up, timer, writing, file, changed, marked, synced>>
  BY DEF ObserveChannels
<1> HIDE DEF l, i
<1>4. m \in Seq(Entry) /\ Favs(m) = Favs(l)
  BY <1>2, EntryChanged
<1> HIDE DEF m
<1>5. Known(p)'
  <2>1. list'[p] = m
    BY <1>3, <1>4, ListMade DEF RoomsInv
  <2> QED BY <1>2, <1>3, <1>4, <2>1, KnownToo
<1>6. marked \in [Processes -> SUBSET Rooms]
  BY DEF RoomsInv, RoomsTyped
<1>7. open' \subseteq Processes \X Rooms
  BY <1>1, <1>3
<1> QED BY <1>3, <1>4, <1>5, <1>6, <1>7, ListsChange

LEMMA ChatsInvalidated ==
  ASSUME RoomsInv, NEW p \in Processes, NEW r \in Rooms, ChatInvalidated(p, r)
  PROVE  RoomsInv'
<1> DEFINE l == list[p]
           i == SelectInSeq(l, LAMBDA e : e.room = r /\ e.chat)
           m == IF i = 0 THEN l
                ELSE IF IsFavorite(l[i]) THEN [l EXCEPT ![i].chat = FALSE]
                ELSE RemoveAt(l, i)
<1>1. l \in Seq(Entry) /\ open \subseteq Processes \X Rooms
  BY DEF RoomsInv, RoomsTyped, ProcessesFit
<1>2. /\ Runs(p) /\ list' = [list EXCEPT ![p] = m] /\ open' = open \ {<<p, r>>}
      /\ UNCHANGED <<up, timer, writing, file, changed, marked, synced>>
  BY DEF ChatInvalidated
<1>3. i = 0 \/ i \in 1..Len(l)
  <2> DEFINE I == {j \in 1..Len(l) : l[j].room = r /\ l[j].chat}
  <2>1. i = IF I # {} THEN CHOOSE x \in I : \A y \in I : x <= y ELSE 0
    BY DEF SelectInSeq, Min
  <2>2. \A j \in I : j \in Nat /\ j \in 1..Len(l)
    OBVIOUS
  <2> HIDE DEF I, i
  <2>3. I # {} => i \in I
    BY <2>1, <2>2, FirstOf
  <2> QED BY <2>1, <2>2, <2>3
<1> HIDE DEF l, i
<1>4. m \in Seq(Entry) /\ Favs(m) = Favs(l)
  <2>1. CASE i = 0
    BY <1>1, <2>1
  <2>2. CASE i # 0 /\ IsFavorite(l[i])
    <3>1. m = [l EXCEPT ![i].chat = FALSE]
      BY <2>2
    <3> HIDE DEF m
    <3> QED BY <1>1, <1>3, <2>2, <3>1, EntryChanged
  <2>3. CASE i # 0 /\ ~IsFavorite(l[i])
    <3>1. m = RemoveAt(l, i)
      BY <2>3
    <3> HIDE DEF m
    <3> QED BY <1>1, <1>3, <2>3, <3>1, FavsRemoved
  <2> QED BY <2>1, <2>2, <2>3
<1> HIDE DEF m
<1>5. Known(p)'
  <2>1. list'[p] = m
    BY <1>2, <1>4, ListMade DEF RoomsInv
  <2> QED BY <1>2, <1>4, <2>1, KnownToo DEF l
<1>6. marked \in [Processes -> SUBSET Rooms]
  BY DEF RoomsInv, RoomsTyped
<1> QED BY <1>1, <1>2, <1>4, <1>5, <1>6, ListsChange

LEMMA FavoritesMade ==
  ASSUME RoomsInv, NEW r \in Rooms, MakeFavorite(r)
  PROVE  RoomsInv'
<1> DEFINE p == "empathy-chat"
           l == Ensured(list[p], r)
           i == Find(l, r)
           m == [l EXCEPT ![i].kind = "favorite"]
<1>1. /\ p \in Processes /\ list[p] \in Seq(Entry) /\ marked \in [Processes -> SUBSET Rooms]
      /\ open \subseteq Processes \X Rooms
  BY DEF RoomsInv, RoomsTyped, ProcessesFit, Processes
<1>2. l \in Seq(Entry) /\ Favs(l) = Favs(list[p]) /\ i \in 1..Len(l) /\ l[i].room = r
  BY <1>1, FavsEnsured
<1>3. /\ Runs(p) /\ list' = [list EXCEPT ![p] = m] /\ ~IsFavorite(l[i])
      /\ marked' = [marked EXCEPT ![p] = @ \cup {r}]
      /\ UNCHANGED <<up, timer, writing, file, changed, open, synced>>
  BY DEF MakeFavorite, Changes
<1> HIDE DEF p, l, i
<1>4. m \in Seq(Entry) /\ \A x \in Favs(m) : x \in Favs(l) \/ x[1] = r
  BY ZenonT(60), <1>2, KindChanged DEF Kinds
<1>5. \A x \in Favs(l) : x \in Favs(m)
  BY <1>2, <1>3, KindChanged DEF Kinds
<1> HIDE DEF m
<1>6. /\ marked' \in [Processes -> SUBSET Rooms] /\ marked'[p] = marked[p] \cup {r}
      /\ \A q \in Processes : q # p => marked'[q] = marked[q]
  BY <1>1, <1>3
<1>7. Known(p)'
  <2>1. list'[p] = m
    BY <1>1, <1>3, <1>4, ListMade DEF RoomsInv
  <2>2. Known(p)
    BY <1>1 DEF RoomsInv
  <2>3. Contents' = Contents
    BY <1>3 DEF Contents
  <2>4. ASSUME NEW x, x \in Favs(m) \ Contents \/ x \in Contents \ Favs(m)
        PROVE  x \in Favs(list[p]) \ Contents \/ x \in Contents \ Favs(list[p]) \/ x[1] = r
    BY <1>2, <1>4, <1>5, <2>4
  <2>5. Differences(p)' \subseteq Differences(p) \cup {r}
    <3>1. Differences(p)' = {x[1] : x \in (Favs(m) \ Contents) \cup (Contents \ Favs(m))}
      BY <2>1, <2>3 DEF Differences
    <3> QED BY <2>4, <3>1 DEF Differences
  <2> QED BY <1>3, <1>6, <2>2, <2>5 DEF Known
<1> QED BY <1>1, <1>3, <1>4, <1>6, <1>7, ListsChange

(* What the timer saves. *)
LEMMA ChangesWait ==
  ASSUME RoomsInv, NEW p \in Processes, NEW m \in Seq(Entry), Runs(p),
         list' = [list EXCEPT ![p] = m], timer' = timer \cup {p},
         UNCHANGED <<up, writing, file, changed, open, marked, synced>>
  PROVE  RoomsInv'
<1>1. open \subseteq Processes \X Rooms /\ marked \in [Processes -> SUBSET Rooms]
  BY DEF RoomsInv, RoomsTyped, ProcessesFit
<1>2. Known(p)'
  BY DEF Known
<1> QED BY <1>1, <1>2, ListsChange

LEMMA FavoritesUnmade ==
  ASSUME RoomsInv, NEW r \in Rooms, MakePlain(r)
  PROVE  RoomsInv'
<1> DEFINE p == "empathy-chat"
           l == list[p]
           i == Find(l, r)
           m == [l EXCEPT ![i].kind = "plain"]
<1>1. p \in Processes /\ l \in Seq(Entry) /\ list \in [Processes -> Seq(Entry)]
  BY DEF RoomsInv, RoomsTyped, Processes
<1>2. i # 0 => i \in 1..Len(l)
  BY <1>1, FindFinds
<1>3. /\ Runs(p) /\ i # 0 /\ list' = [list EXCEPT ![p][i].kind = "plain"]
      /\ timer' = timer \cup {p}
      /\ UNCHANGED <<up, writing, file, changed, open, marked, synced>>
  BY DEF MakePlain, Changes
<1> HIDE DEF i, p
<1>4. m \in Seq(Entry)
  <2> HIDE DEF l
  <2> QED BY <1>1, <1>2, <1>3, KindChanged DEF Kinds
<1>5. list' = [list EXCEPT ![p] = m]
  BY <1>1, <1>3
<1> QED BY <1>1, <1>3, <1>4, <1>5, ChangesWait

LEMMA AutoConnectToggled ==
  ASSUME RoomsInv, NEW i \in DOMAIN list["empathy"], ToggleAutoConnect(i)
  PROVE  RoomsInv'
<1> DEFINE p == "empathy"
           l == list[p]
           k == IF l[i].kind = "auto" THEN "favorite" ELSE "auto"
           m == [l EXCEPT ![i].kind = k]
<1>1. p \in Processes /\ l \in Seq(Entry) /\ list \in [Processes -> Seq(Entry)] /\ i \in 1..Len(l)
  BY DEF RoomsInv, RoomsTyped, Processes
<1>2. /\ Runs(p) /\ list' = [list EXCEPT ![p][i].kind = IF @ = "auto" THEN "favorite" ELSE "auto"]
      /\ timer' = timer \cup {p}
      /\ UNCHANGED <<up, writing, file, changed, open, marked, synced>>
  BY DEF ToggleAutoConnect, Changes
<1>3. k \in Kinds
  BY DEF Kinds
<1>4. list' = [list EXCEPT ![p][i].kind = k]
  BY <1>1, <1>2
<1> HIDE DEF p, k
<1>5. m \in Seq(Entry)
  <2> HIDE DEF l
  <2> QED BY <1>1, <1>3, KindChanged
<1>6. list' = [list EXCEPT ![p] = m]
  BY <1>1, <1>4
<1> QED BY <1>1, <1>2, <1>5, <1>6, ChangesWait

LEMMA RoomsRemoved ==
  ASSUME RoomsInv, NEW r \in Rooms, RemoveRoom(r)
  PROVE  RoomsInv'
<1> DEFINE p == "empathy"
           l == list[p]
           i == Find(l, r)
           m == RemoveAt(l, i)
<1>1. p \in Processes /\ l \in Seq(Entry) /\ list \in [Processes -> Seq(Entry)]
  BY DEF RoomsInv, RoomsTyped, Processes
<1>2. i # 0 => i \in 1..Len(l)
  BY <1>1, FindFinds
<1>3. /\ Runs(p) /\ i # 0 /\ list' = [list EXCEPT ![p] = m]
      /\ timer' = IF IsFavorite(l[i]) THEN timer \cup {p} ELSE timer
      /\ UNCHANGED <<up, writing, file, changed, open, marked, synced>>
  BY DEF RemoveRoom, Changes
<1> HIDE DEF i, p
<1>4. m \in Seq(Entry) /\ (~IsFavorite(l[i]) => Favs(m) = Favs(l))
  <2> HIDE DEF l
  <2> QED BY <1>1, <1>2, <1>3, FavsRemoved
<1> HIDE DEF m
<1>5. CASE IsFavorite(l[i])
  BY <1>1, <1>3, <1>4, <1>5, ChangesWait
<1>6. CASE ~IsFavorite(l[i])
  <2>1. list'[p] = m
    BY <1>1, <1>3, <1>4, ListMade DEF RoomsInv
  <2>2. Known(p)'
    BY <1>1, <1>3, <1>4, <1>6, <2>1, KnownToo
  <2>3. open \subseteq Processes \X Rooms /\ marked \in [Processes -> SUBSET Rooms]
    BY DEF RoomsInv, RoomsTyped, ProcessesFit
  <2> QED BY <1>1, <1>3, <1>4, <1>6, <2>2, <2>3, ListsChange
<1> QED BY <1>5, <1>6

LEMMA RoomsInitially == RoomsInit => RoomsInv
<1> SUFFICES ASSUME RoomsInit PROVE RoomsInv
  OBVIOUS
<1>1. <<>> \in Seq(Entry) /\ Favorites \in Seq(Entry)
  BY RoomsAssumption
<1> QED BY <1>1 DEF RoomsInit, RoomsInv, RoomsTyped, ProcessesFit, Known

LEMMA RoomsStep == RoomsInv /\ [RoomsNext]_roomsVars => RoomsInv'
<1> SUFFICES ASSUME RoomsInv, [RoomsNext]_roomsVars PROVE RoomsInv'
  OBVIOUS
<1>1. CASE UNCHANGED roomsVars
  BY <1>1 DEF roomsVars, RoomsInv, RoomsTyped, ProcessesFit, Known, Differences, Contents, Runs
<1>2. CASE UserNext
  BY <1>2, FavoritesMade, FavoritesUnmade, RoomsRemoved, AutoConnectToggled DEF UserNext
<1>3. ASSUME NEW p \in Processes, ProcessNext(p) PROVE RoomsInv'
  BY <1>3, ProcessesStart, ManagersReady, ProcessesQuit, ProcessesCrash, FileOpened, SavesEnd,
     FilesChange DEF ProcessNext
<1>4. ASSUME NEW p \in Processes, NEW r \in Rooms, ObserveChannels(p, r) \/ ChatInvalidated(p, r)
      PROVE  RoomsInv'
  BY <1>4, ChannelsObserved, ChatsInvalidated
<1> QED BY <1>1, <1>2, <1>3, <1>4 DEF RoomsNext

(* Whatever the two processes save over each other, and whichever of them    *)
(* crash in the middle of it: a process that knows what the file holds and   *)
(* has no timer running has the favorites of the file, but for those that    *)
(* became favorites unnoticed.                                               *)
THEOREM FavoritesAreSaved == RoomsSpec => []ChangesAreSaved
<1>1. RoomsInv => ChangesAreSaved
  <2> SUFFICES ASSUME RoomsInv PROVE ChangesAreSaved
    OBVIOUS
  <2>1. RoomsTypeOK
    BY DEF RoomsInv, RoomsTyped, ProcessesFit, RoomsTypeOK
  <2>2. ASSUME NEW p \in synced \ (timer \cup writing), file.whole
        PROVE  Differences(p) \subseteq marked[p]
    BY <2>2 DEF RoomsInv, RoomsTyped, Known
  <2> QED BY <2>1, <2>2 DEF ChangesAreSaved
<1> QED BY <1>1, RoomsInitially, RoomsStep, PTL DEF RoomsSpec

-----------------------------------------------------------------------------
(* File transfers.  What the handler waits for tells what it has done: the   *)
(* reply of the channel comes after the hash of a file that is sent, and     *)
(* before the hash of one that is received.                                  *)

Beginning == {"query", "properties", "choosing", "refused", "read", "request"}

HandlerTruths ==
  /\ incoming \in BOOLEAN /\ cancelled \in BOOLEAN /\ useHash \in BOOLEAN
  /\ completed \in BOOLEAN /\ hasChannel \in BOOLEAN /\ closing \in BOOLEAN
  /\ failed \in BOOLEAN /\ stopped \in BOOLEAN

HandlerTyped ==
  /\ step \in Steps
  /\ refs \subseteq {"creator", "callbacks", "manager", "job"}
  /\ reply \in {"none", "pending", "ok", "failed"}
  /\ chan \in {"none", "pending", "open", "completed", "cancelled"}
  /\ job \in {"none", "running", "ok", "error"}

Counted == bytes \in 0..Size /\ sent \in 0..Size /\ read \in 0..Size /\ idles \in 0..read

StepTells ==
  /\ step \in Beginning => reply = "none" /\ ~failed
  /\ step \in {"query", "read", "request"} => ~incoming
  /\ step \in {"properties", "choosing"} => incoming
  /\ step = "hash" => ~failed /\ (completed <=> incoming) /\ (completed \/ reply = "none")
                      /\ (incoming => useHash)
  /\ reply = "none" => ~completed /\ bytes = 0
  /\ job # "none" \/ idles # 0 => step = "hash"
  /\ completed => chan = "completed" /\ reply = "ok"
  /\ failed => cancelled

ReplyTells ==
  /\ reply # "none" /\ chan \in {"pending", "open"} => step = "channel"
  /\ reply = "pending" => step = "channel" \/ failed
  /\ failed /\ reply \in {"pending", "ok"} => chan \notin {"pending", "open"}

HandlerInv == HandlerTruths /\ HandlerTyped /\ Counted /\ StepTells /\ ReplyTells

(* What the handler does of a transfer it has begun: every step emits what   *)
(* the protocol of its phase allows.                                         *)
Kept == HandlerInv' /\ Protocol!Next

LEMMA HandlersBegin ==
  ASSUME HandlerInv,
         CreationFails \/ PropertiesReady \/ DismissChooser
           \/ \E hash \in BOOLEAN : GFileReady(hash) \/ ChooseDestination(hash)
  PROVE  Kept
<1> USE DEF privVars, chanVars, jobVars, histVars, Emit
<1>1. HandlerTyped'
  BY ZenonT(60) DEF HandlerInv, HandlerTyped, CreationFails, PropertiesReady, DismissChooser, DisposeIf,
     GFileReady, ChooseDestination, Steps
<1>0. HandlerTruths'
  <2>1. CASE CreationFails
    BY <2>1 DEF HandlerInv, HandlerTruths, CreationFails
  <2>2. CASE PropertiesReady
    BY <2>2 DEF HandlerInv, HandlerTruths, PropertiesReady
  <2>3. CASE DismissChooser
    BY <2>3 DEF HandlerInv, HandlerTruths, DismissChooser, DisposeIf
  <2>4. CASE \E hash \in BOOLEAN : GFileReady(hash)
    BY <2>4 DEF HandlerInv, HandlerTruths, GFileReady
  <2>5. CASE \E hash \in BOOLEAN : ChooseDestination(hash)
    BY <2>5 DEF HandlerInv, HandlerTruths, ChooseDestination
  <2> QED BY <2>1, <2>2, <2>3, <2>4, <2>5
<1>2. Counted'
  BY DEF HandlerInv, Counted, CreationFails, PropertiesReady, DismissChooser, GFileReady,
     ChooseDestination
<1>3. StepTells'
  BY DEF HandlerInv, StepTells, Beginning, CreationFails, PropertiesReady, DismissChooser,
     GFileReady, ChooseDestination
<1>4. ReplyTells'
  BY DEF HandlerInv, StepTells, ReplyTells, Beginning, CreationFails, PropertiesReady,
     DismissChooser, GFileReady, ChooseDestination
<1>5. Phase = "preparing" /\ ~failed /\ ~failed' /\ bytes' = 0
  BY DEF HandlerInv, StepTells, Beginning, Phase, CreationFails, PropertiesReady,
     DismissChooser, GFileReady, ChooseDestination
<1>6. Protocol!Next
  <2>1. CASE CreationFails \/ DismissChooser
    <3>1. Phase' = "refused" /\ signals' \in {<<"ready-error">>, <<>>}
      BY <1>5, <2>1 DEF CreationFails, DismissChooser, Phase
    <3> QED BY <1>5, <3>1 DEF Protocol!Next, Protocol!Begin, Protocol!Emit
  <2>2. CASE PropertiesReady
    <3>1. Phase' = "preparing" /\ signals' = <<>>
      BY <1>5, <2>2 DEF PropertiesReady, Phase
    <3> QED BY <1>5, <3>1 DEF Protocol!Next, Protocol!Quiet
  <2>3. CASE \E hash \in BOOLEAN : GFileReady(hash) \/ ChooseDestination(hash)
    <3>1. Phase' \in {"opening", "offered"} /\ signals' = <<"ready">>
      BY <1>5, <2>3 DEF GFileReady, ChooseDestination, Phase
    <3> QED BY <1>5, <3>1 DEF Protocol!Next, Protocol!Begin, Protocol!Emit
  <2> QED BY <2>1, <2>2, <2>3
<1> QED BY <1>0, <1>1, <1>2, <1>3, <1>4, <1>6 DEF Kept, HandlerInv

LEMMA FilesHashed ==
  ASSUME HandlerInv, ReadAsyncReady \/ HashChunk \/ HashProgress \/ HashJobDone
  PROVE  Kept
<1> USE DEF privVars, chanVars, jobVars, histVars, Emit, EmitError
<1>1. HandlerTyped'
  BY DEF HandlerInv, HandlerTyped, ReadAsyncReady, HashChunk, HashProgress, HashJobDone, StartJob,
     DisposeIf, Steps
<1>0. HandlerTruths'
  <2>1. CASE ReadAsyncReady
    BY <2>1 DEF HandlerInv, HandlerTruths, ReadAsyncReady
  <2>2. CASE HashChunk
    BY <2>2 DEF HandlerInv, HandlerTruths, HashChunk
  <2>3. CASE HashProgress
    BY <2>3 DEF HandlerInv, HandlerTruths, HashProgress
  <2>4. CASE HashJobDone
    BY <2>4 DEF HandlerInv, HandlerTruths, HashJobDone, DisposeIf
  <2> QED BY <2>1, <2>2, <2>3, <2>4
<1>2. Counted'
  BY SizeAssumption DEF HandlerInv, Counted, ReadAsyncReady, HashChunk, HashProgress, HashJobDone, StartJob
<1>3. idles = 0 => ~HashProgress
  BY DEF HandlerInv, Counted, HashProgress
<1>4. StepTells'
  BY <1>3 DEF HandlerInv, StepTells, Beginning, ReadAsyncReady, HashChunk, HashProgress, HashJobDone,
     StartJob
<1>5. ReplyTells'
  BY DEF HandlerInv, StepTells, ReplyTells, Beginning, ReadAsyncReady, HashChunk, HashProgress,
     HashJobDone, StartJob
<1>6. Protocol!Next
  <2>1. CASE ReadAsyncReady
    <3>1. Phase = "opening"
      BY <2>1 DEF ReadAsyncReady, HandlerInv, StepTells, Beginning, Phase
    <3>2. \/ Phase' = "failed" /\ signals' = <<"error">>
          \/ Phase' = "hashing" /\ signals' = <<"hashing-started">>
      BY <2>1 DEF ReadAsyncReady, HandlerInv, StepTells, Beginning, Phase
    <3> QED BY <3>1, <3>2 DEF Protocol!Next, Protocol!HashFirst, Protocol!Fail, Protocol!Running, Protocol!Emit
  <2>2. CASE HashChunk
    <3>1. Phase' = Phase /\ signals' = <<>>
      BY <2>2 DEF HashChunk, Phase
    <3> QED BY <3>1 DEF Protocol!Next, Protocol!Quiet
  <2>3. CASE HashProgress
    <3>1. step = "hash" /\ ~failed
      BY <1>3, <2>3 DEF HandlerInv, StepTells
    <3>2. Phase \in {"hashing", "checking"} /\ Phase' = Phase /\ signals' = <<"hashing-progress">>
      BY <2>3, <3>1 DEF HashProgress, Phase
    <3> QED BY <3>2 DEF Protocol!Next, Protocol!HashFirst, Protocol!HashLast, Protocol!Emit
  <2>4. CASE HashJobDone
    <3>1. step = "hash" /\ ~failed /\ (completed <=> incoming) /\ (~completed => bytes = 0)
      BY <2>4 DEF HashJobDone, HandlerInv, StepTells
    <3>2. Phase = IF incoming THEN "checking" ELSE "hashing"
      BY <3>1 DEF Phase
    <3>3. \/ Phase' = "failed" /\ signals' = <<"error">>
          \/ Phase' = (IF incoming THEN "finished" ELSE "offered") /\ signals' = <<"hashing-done">>
      BY <2>4, <3>1 DEF HashJobDone, Phase
    <3> QED BY <3>2, <3>3 DEF Protocol!Next, Protocol!HashFirst, Protocol!HashLast, Protocol!Fail,
              Protocol!Running, Protocol!Emit
  <2> QED BY <2>1, <2>2, <2>3, <2>4
<1> QED BY <1>0, <1>1, <1>2, <1>4, <1>5, <1>6 DEF Kept, HandlerInv

LEMMA ChannelsRequested ==
  ASSUME HandlerInv,
         ChannelCreated \/ ChannelNotCreated \/ ChannelOpens \/ \E ok \in BOOLEAN : FileReplied(ok)
  PROVE  Kept
<1> USE DEF privVars, chanVars, jobVars, histVars, Emit, EmitError
<1>1. HandlerTyped'
  BY DEF HandlerInv, HandlerTyped, ChannelCreated, ChannelNotCreated, ChannelOpens, FileReplied, Steps
<1>0. HandlerTruths'
  <2>1. CASE ChannelCreated
    BY <2>1 DEF HandlerInv, HandlerTruths, ChannelCreated
  <2>2. CASE ChannelNotCreated
    BY <2>2 DEF HandlerInv, HandlerTruths, ChannelNotCreated
  <2>3. CASE ChannelOpens
    BY <2>3 DEF HandlerInv, HandlerTruths, ChannelOpens
  <2>4. CASE \E ok \in BOOLEAN : FileReplied(ok)
    BY <2>4 DEF HandlerInv, HandlerTruths, FileReplied
  <2> QED BY <2>1, <2>2, <2>3, <2>4
<1>2. Counted'
  BY DEF HandlerInv, Counted, ChannelCreated, ChannelNotCreated, ChannelOpens, FileReplied
<1>3. StepTells'
  BY DEF HandlerInv, StepTells, ReplyTells, Beginning, ChannelCreated, ChannelNotCreated, ChannelOpens,
     FileReplied
<1>4. ReplyTells'
  BY DEF HandlerInv, StepTells, ReplyTells, Beginning, ChannelCreated, ChannelNotCreated, ChannelOpens,
     FileReplied
<1>5. Protocol!Next
  <2>1. CASE signals' = <<>> /\ Phase' = Phase
    BY <2>1 DEF Protocol!Next, Protocol!Quiet
  <2>2. CASE signals' = <<"error">> /\ failed' /\ (failed \/ step \in {"request", "channel"})
    <3>1. Phase \in {"failed", "offered", "transferring"} /\ Phase' = "failed"
      BY <2>2 DEF Phase
    <3> QED BY <2>2, <3>1 DEF Protocol!Next, Protocol!Fail, Protocol!Running, Protocol!Emit
  <2>3. CASE ChannelCreated \/ ChannelNotCreated
    BY <2>1, <2>2, <2>3 DEF ChannelCreated, ChannelNotCreated, Phase
  <2>4. CASE ChannelOpens
    BY <2>1, <2>4 DEF ChannelOpens, Phase
  <2>5. ASSUME NEW ok \in BOOLEAN, FileReplied(ok) PROVE Protocol!Next
    <3>1. failed \/ step = "channel"
      BY <2>5 DEF FileReplied, HandlerInv, ReplyTells
    <3> QED BY <2>1, <2>2, <2>5, <3>1 DEF FileReplied, Phase
  <2> QED BY <2>3, <2>4, <2>5
<1> QED BY <1>0, <1>1, <1>2, <1>3, <1>4, <1>5 DEF Kept, HandlerInv

LEMMA BytesArrive ==
  ASSUME HandlerInv, BytesTransferred
  PROVE  Kept
<1>1. /\ chan = "open" /\ reply \in {"ok", "failed"} /\ sent < Size /\ sent' = sent + 1
      /\ UNCHANGED <<incoming, cancelled, useHash, completed, hasChannel, step, refs, chan,
                     closing, reply, jobVars, histVars>>
      /\ \/ /\ ~cancelled /\ bytes' = sent'
            /\ signals' = IF bytes = 0 THEN <<"started", "progress">> ELSE <<"progress">>
         \/ signals' = <<>> /\ bytes' = bytes
  BY DEF BytesTransferred, Emit
<1>2. HandlerTyped' /\ HandlerTruths'
  BY <1>1 DEF HandlerInv, HandlerTyped, HandlerTruths, jobVars, histVars
<1>3. Counted'
  BY <1>1, SizeAssumption DEF HandlerInv, Counted, jobVars
<1>4. StepTells' /\ ReplyTells'
  BY <1>1 DEF HandlerInv, StepTells, ReplyTells, jobVars, histVars
<1>5. step = "channel" /\ (~cancelled => ~failed)
  BY <1>1 DEF HandlerInv, StepTells, ReplyTells
<1>6. sent' # 0
  BY <1>1 DEF HandlerInv, Counted
<1>7. Protocol!Next
  <2>1. CASE signals' = <<>> /\ bytes' = bytes
    <3>1. Phase' = Phase
      BY <1>1, <2>1 DEF Phase, histVars
    <3> QED BY <2>1, <3>1 DEF Protocol!Next, Protocol!Quiet
  <2>2. CASE /\ ~cancelled /\ bytes' = sent'
             /\ signals' = IF bytes = 0 THEN <<"started", "progress">> ELSE <<"progress">>
    <3>1. Phase = (IF bytes = 0 THEN "offered" ELSE "transferring") /\ Phase' = "transferring"
      BY <1>1, <1>5, <1>6, <2>2 DEF Phase, histVars
    <3> QED BY <2>2, <3>1 DEF Protocol!Next, Protocol!Transfer, Protocol!Emit
  <2> QED BY <1>1, <2>1, <2>2
<1> QED BY <1>2, <1>3, <1>4, <1>7 DEF Kept, HandlerInv

LEMMA ChannelsEnd ==
  ASSUME HandlerInv, ChannelCompletes \/ ChannelCancelled
  PROVE  Kept
<1> USE DEF privVars, chanVars, jobVars, histVars, Emit, EmitError
<1>1. HandlerTyped'
  BY DEF HandlerInv, HandlerTyped, ChannelCompletes, ChannelCancelled, StartJob, Steps
<1>0. HandlerTruths'
  <2>1. CASE ChannelCompletes
    BY <2>1 DEF HandlerInv, HandlerTruths, ChannelCompletes, Listening
  <2>2. CASE ChannelCancelled
    BY <2>2 DEF HandlerInv, HandlerTruths, ChannelCancelled, Listening
  <2> QED BY <2>1, <2>2
<1>2. Counted'
  BY SizeAssumption DEF HandlerInv, Counted, ChannelCompletes, ChannelCancelled, StartJob
<1>3. StepTells'
  BY DEF HandlerInv, StepTells, ReplyTells, Beginning, ChannelCompletes, ChannelCancelled, StartJob,
     Listening
<1>4. ReplyTells'
  BY DEF HandlerInv, StepTells, ReplyTells, Beginning, ChannelCompletes, ChannelCancelled, StartJob,
     Listening
<1>5. Protocol!Next
  <2>1. CASE ~Listening
    <3>1. Phase' = Phase /\ signals' = <<>>
      BY <2>1 DEF ChannelCompletes, ChannelCancelled, Phase
    <3> QED BY <3>1 DEF Protocol!Next, Protocol!Quiet
  <2>2. CASE ChannelCompletes /\ Listening
    <3>1. step = "channel" /\ ~failed
      BY <2>2 DEF ChannelCompletes, HandlerInv, ReplyTells
    <3>2. Phase \in {"offered", "transferring"}
      BY <3>1 DEF Phase
    <3>3. \/ Phase' = "checking" /\ signals' = <<"done", "hashing-started">>
          \/ Phase' = "finished" /\ signals' = <<"done">>
      BY <2>2, <3>1 DEF ChannelCompletes, Phase
    <3> QED BY <3>2, <3>3 DEF Protocol!Next, Protocol!Transfer, Protocol!Emit
  <2>3. CASE ChannelCancelled /\ Listening
    <3>1. step = "channel"
      BY <2>3 DEF ChannelCancelled, Listening, HandlerInv, ReplyTells
    <3>2. Phase \in {"offered", "transferring", "failed"} /\ Phase' = "failed" /\ signals' = <<"error">>
      BY <2>3, <3>1 DEF ChannelCancelled, Phase
    <3> QED BY <3>2 DEF Protocol!Next, Protocol!Fail, Protocol!Running, Protocol!Emit
  <2> QED BY <2>1, <2>2, <2>3
<1> QED BY <1>0, <1>1, <1>2, <1>3, <1>4, <1>5 DEF Kept, HandlerInv

LEMMA HandlersStep ==
  ASSUME HandlerInv, HandlerNext
  PROVE  Kept
  BY HandlersBegin, FilesHashed, ChannelsRequested, BytesArrive, ChannelsEnd DEF HandlerNext

(* The window only asks the handler to stop, or drops it. *)
LEMMA WindowsStep ==
  ASSUME HandlerInv,
         \/ ClearClicked \/ StopClicked \/ EscapePressed \/ ShowWindow
         \/ \E others \in BOOLEAN : CloseWindow(others)
         \/ OtherRows \/ LateCallback
  PROVE  Kept
<1> USE DEF privVars, chanVars, jobVars, histVars, Emit
<1>1. /\ UNCHANGED <<incoming, useHash, completed, bytes, hasChannel, step, chan, sent, reply, read,
                     idles, job, failed>>
      /\ signals' = <<>> /\ refs' \subseteq refs
      /\ cancelled' \in BOOLEAN /\ (failed => cancelled') /\ closing' \in BOOLEAN /\ stopped' \in BOOLEAN
  BY DEF ClearClicked, StopClicked, EscapePressed, ShowWindow, CloseWindow, OtherRows, LateCallback,
     Clear, Unhandled, CancelTransfer, DisposeIf, HandlerInv, HandlerTruths, StepTells
<1>2. HandlerTruths' /\ HandlerTyped' /\ Counted' /\ StepTells' /\ ReplyTells'
  BY <1>1 DEF HandlerInv, HandlerTruths, HandlerTyped, Counted, StepTells, ReplyTells
<1>3. Phase' = Phase
  BY <1>1 DEF Phase
<1> QED BY <1>1, <1>2, <1>3 DEF Kept, HandlerInv, Protocol!Next, Protocol!Quiet

LEMMA HandlerInitially == HandlerInit => HandlerInv
<1> SUFFICES ASSUME HandlerInit PROVE HandlerInv
  OBVIOUS
<1>1. HandlerTyped /\ HandlerTruths
  BY DEF HandlerInit, HandlerTyped, HandlerTruths, Steps
<1>2. Counted
  BY SizeAssumption DEF HandlerInit, Counted
<1>3. StepTells /\ ReplyTells
  BY DEF HandlerInit, StepTells, ReplyTells, Beginning
<1> QED BY <1>1, <1>2, <1>3 DEF HandlerInv

(* The handler keeps to the protocol of its header, whatever the worker, the *)
(* channel, the other side and the user of the window do in between.         *)
THEOREM ProtocolIsKept == ManagerSpec => ProtocolSpec
<1>1. ManagerInit => HandlerInv /\ Protocol!Init
  <2>1. HandlerInit => Protocol!Init
    BY DEF HandlerInit, Protocol!Init, Phase
  <2> QED BY <2>1, HandlerInitially DEF ManagerInit
<1>2. HandlerInv /\ [ManagerNext]_allVars => HandlerInv' /\ [Protocol!Next]_<<Phase, signals>>
  <2> SUFFICES ASSUME HandlerInv, [ManagerNext]_allVars
               PROVE  HandlerInv' /\ [Protocol!Next]_<<Phase, signals>>
    OBVIOUS
  <2>1. CASE UNCHANGED allVars
    <3>1. HandlerInv'
      BY <2>1 DEF allVars, handlerVars, HandlerInv, HandlerTruths, HandlerTyped, Counted, StepTells, ReplyTells
    <3>2. Phase' = Phase /\ signals' = signals
      BY <2>1 DEF allVars, handlerVars, Phase
    <3> QED BY <3>1, <3>2
  <2>2. CASE ManagerNext
    BY <2>2, HandlersStep, WindowsStep DEF ManagerNext, Kept
  <2> QED BY <2>1, <2>2
<1> QED BY <1>1, <1>2, PTL DEF ManagerSpec, ProtocolSpec, Protocol!Spec

-----------------------------------------------------------------------------
(* The rows of the window. *)
Names == {"error", "started", "progress", "done", "hashing-started", "hashing-progress",
          "hashing-done"}
Losses == {"row", "manager", "handler"}

ListTyped ==
  /\ row \in Rows /\ heard \subseteq Names /\ window \in {"none", "shown", "hidden", "destroyed"}
  /\ stopButton \in BOOLEAN /\ clearButton \in BOOLEAN /\ wild \subseteq Losses

(* What is connected is what comes next; nothing is missed that the row has  *)
(* to tell.                                                                  *)
RowHears ==
  row # "none" =>
    /\ window \in {"shown", "hidden"}
    /\ step # "refused" => "error" \in heard
    /\ step = "read" => "hashing-started" \in heard
    /\ step = "hash" /\ (incoming => bytes # 0) => "hashing-done" \in heard
    /\ step \in {"request", "channel"} => "started" \in heard
    /\ bytes # 0 => "done" \in heard

RowTold ==
  /\ row = "completed" => completed /\ ~failed /\ (incoming /\ useHash => step = "over")
  /\ row # "none" => /\ failed => row = "error"
                     /\ step = "over" /\ bytes # 0 => row \in {"completed", "error"}

RowThere ==
  /\ step \in {"query", "properties", "choosing"} => row = "none" /\ window = "none"
  /\ step \in {"read", "hash", "request", "channel"} /\ ~Finished /\ window # "destroyed"
       => row # "none" /\ "manager" \in refs

RowInv == ListTyped /\ RowHears /\ RowTold /\ RowThere

(* What one signal does to the row and to what is connected. *)
Effect(name, r, h, r2, h2) ==
  /\ r2 = "none" <=> r = "none"
  /\ h \subseteq h2
  /\ name \notin h => r2 = r
  /\ name \in h /\ r # "none" =>
       /\ name = "error" => r2 = "error"
       /\ name = "started" => r2 = "progress" /\ "done" \in h2
       /\ name = "progress" => r2 = "progress"
       /\ name = "done" => IF incoming /\ useHash THEN r2 = r /\ "hashing-started" \in h2
                           ELSE r2 = "completed"
       /\ name = "hashing-started" => r2 \in {"checking", "hashing"} /\ "hashing-done" \in h2
       /\ name = "hashing-progress" => r2 \in {"checking", "hashing"}
       /\ name = "hashing-done" => IF incoming THEN r2 = "completed"
                                   ELSE r2 = "waiting" /\ "started" \in h2

Lists == [row : Rows, heard : SUBSET Names, stop : BOOLEAN, clear : BOOLEAN, wild : SUBSET Losses]

LEMMA ButtonsUpdated ==
  ASSUME NEW l \in Lists, cancelled' \in BOOLEAN, completed' \in BOOLEAN
  PROVE  /\ UpdateButtons(l) \in Lists
         /\ UpdateButtons(l).row = l.row /\ UpdateButtons(l).heard = l.heard
<1> DEFINE stop == l.row # "none" /\ ~cancelled' /\ ~completed'
           clear == l.clear \/ (l.row # "none" /\ (cancelled' \/ completed'))
<1>1. UpdateButtons(l) = [l EXCEPT !.stop = stop, !.clear = clear]
  BY DEF UpdateButtons
<1>2. stop \in BOOLEAN /\ clear \in BOOLEAN
  BY DEF Lists
<1> HIDE DEF stop, clear
<1> QED BY <1>1, <1>2 DEF Lists

LEMMA SayConnect ==
  ASSUME NEW l \in Lists
  PROVE  /\ \A r \in Rows : Say(l, r) \in Lists /\ Say(l, r).row = r /\ Say(l, r).heard = l.heard
         /\ \A h \in SUBSET Names :
              Connect(l, h) \in Lists /\ Connect(l, h).row = l.row /\ Connect(l, h).heard = l.heard \union h
         /\ \A w \in SUBSET Losses :
              LET k == [l EXCEPT !.wild = @ \union w]
              IN k \in Lists /\ k.row = l.row /\ k.heard = l.heard
  BY DEF Lists, Say, Connect

LEMMA HearsOne ==
  ASSUME NEW l \in Lists, NEW name \in Names, cancelled' \in BOOLEAN, completed' \in BOOLEAN,
         l.row # "none" => window # "destroyed"
  PROVE  Hear(l, name) \in Lists /\ Effect(name, l.row, l.heard, Hear(l, name).row, Hear(l, name).heard)
<1> DEFINE k == Hear(l, name)
           lost == [l EXCEPT !.wild = @ \union {"row"}]
           freed == [l EXCEPT !.wild = @ \union {"manager"}]
           now == IF incoming THEN "checking" ELSE "hashing"
<1>1. lost \in Lists /\ lost.row = l.row /\ lost.heard = l.heard
  BY SayConnect DEF Losses
<1>2. freed \in Lists /\ freed.row = l.row /\ freed.heard = l.heard
  BY SayConnect DEF Losses
<1>3. now \in {"checking", "hashing"} /\ now \in Rows /\ now # "none"
  BY DEF Rows
<1>4. \A r \in Rows : Say(l, r) \in Lists /\ Say(l, r).row = r /\ Say(l, r).heard = l.heard
  BY SayConnect
<1>5. \A m \in Lists, h \in SUBSET Names :
        Connect(m, h) \in Lists /\ Connect(m, h).row = m.row /\ Connect(m, h).heard = m.heard \union h
  BY SayConnect
<1>6. \A m \in Lists : UpdateButtons(m) \in Lists /\ UpdateButtons(m).row = m.row
                       /\ UpdateButtons(m).heard = m.heard
  BY ButtonsUpdated
<1>7. \A r \in {"error", "progress", "completed", "waiting"} : r \in Rows /\ r # "none"
  BY DEF Rows
<1>8. CASE name \notin l.heard
  <2>1. k = l
    BY <1>8 DEF Hear
  <2> QED BY <1>8, <2>1 DEF Effect, k
<1>9. CASE name \in l.heard /\ window = "destroyed"
  <2>1. k = freed
    BY <1>9 DEF Hear
  <2> HIDE DEF k, freed
  <2> QED BY <1>2, <1>9, <2>1 DEF Effect, k
<1> DEFINE usual == name \in l.heard /\ window # "destroyed"
           missing == l.row = "none"
<1>10. CASE usual /\ name = "error"
  <2>1. k = IF missing THEN lost ELSE UpdateButtons(Say(l, "error"))
    BY <1>10 DEF Hear, TransferError
  <2> HIDE DEF k, lost
  <2> QED BY <1>1, <1>4, <1>6, <1>7, <1>10, <2>1 DEF Effect, k
<1>11. CASE usual /\ name = "started"
  <2>1. k = Connect(IF missing THEN lost ELSE Say(l, "progress"), {"progress", "done"})
    BY <1>11 DEF Hear
  <2>2. {"progress", "done"} \in SUBSET Names
    BY DEF Names
  <2> HIDE DEF k, lost
  <2> QED BY <1>1, <1>4, <1>5, <1>7, <1>11, <2>1, <2>2 DEF Effect, k
<1>12. CASE usual /\ name = "progress"
  <2>1. k = IF missing THEN lost ELSE Say(l, "progress")
    BY <1>12 DEF Hear
  <2> HIDE DEF k, lost
  <2> QED BY <1>1, <1>4, <1>7, <1>12, <2>1 DEF Effect, k
<1>13. CASE usual /\ name = "done"
  <2>1. k = IF missing /\ ~(incoming /\ useHash) THEN lost
            ELSE IF incoming /\ useHash THEN Connect(l, {"hashing-started"})
            ELSE UpdateButtons(Say(l, "completed"))
    BY <1>13 DEF Hear, TransferDone
  <2>2. {"hashing-started"} \in SUBSET Names
    BY DEF Names
  <2> HIDE DEF k, lost
  <2> QED BY <1>1, <1>4, <1>5, <1>6, <1>7, <1>13, <2>1, <2>2 DEF Effect, k
<1>14. CASE usual /\ name = "hashing-started"
  <2>1. k = Connect(IF missing THEN lost ELSE Say(l, now), {"hashing-progress", "hashing-done"})
    BY <1>14 DEF Hear
  <2>2. {"hashing-progress", "hashing-done"} \in SUBSET Names
    BY DEF Names
  <2> HIDE DEF k, lost, now
  <2> QED BY <1>1, <1>3, <1>4, <1>5, <1>14, <2>1, <2>2 DEF Effect, k
<1>15. CASE usual /\ name = "hashing-progress"
  <2>1. k = IF missing THEN lost ELSE Say(l, now)
    BY <1>15 DEF Hear
  <2> HIDE DEF k, lost, now
  <2> QED BY <1>1, <1>3, <1>4, <1>15, <2>1 DEF Effect, k
<1>16. CASE usual /\ name = "hashing-done"
  <2>1. k = IF missing THEN lost
            ELSE IF incoming THEN UpdateButtons(Say(l, "completed"))
            ELSE Connect(Say(l, "waiting"), {"started"})
    BY <1>16 DEF Hear, HashingDone
  <2>2. {"started"} \in SUBSET Names
    BY DEF Names
  <2> HIDE DEF k, lost
  <2> QED BY <1>1, <1>4, <1>5, <1>6, <1>7, <1>16, <2>1, <2>2 DEF Effect, k
<1> QED BY <1>8, <1>9, <1>10, <1>11, <1>12, <1>13, <1>14, <1>15, <1>16 DEF Names

(* The list hears of a step that emits nothing, one signal or two. *)
LEMMA NoneHeard ==
  ASSUME React, signals' = <<>>
  PROVE  UNCHANGED listVars
<1>1. signals' # <<"ready">> /\ signals' # <<"ready-error">>
  OBVIOUS
<1>2. Become(List) /\ UNCHANGED window
  BY <1>1 DEF React, HearAll
<1> QED BY <1>2 DEF Become, List, listVars

LEMMA OneHeard ==
  ASSUME ListTyped, RowHears, React, NEW name \in Names, signals' = <<name>>,
         cancelled' \in BOOLEAN, completed' \in BOOLEAN
  PROVE  ListTyped' /\ window' = window /\ Effect(name, row, heard, row', heard')
<1> DEFINE k == Hear(List, name)
<1>1. List \in Lists /\ List.row = row /\ List.heard = heard
  BY DEF ListTyped, List, Lists
<1>2. k \in Lists /\ Effect(name, row, heard, k.row, k.heard)
  BY <1>1, HearsOne DEF RowHears
<1>3. signals' # <<"ready">> /\ signals' # <<"ready-error">> /\ signals' # <<>> /\ Len(signals') = 1
      /\ signals'[1] = name
  BY DEF Names
<1>4. Become(k) /\ window' = window
  BY <1>3 DEF React, HearAll
<1> HIDE DEF k
<1>5. /\ row' = k.row /\ heard' = k.heard /\ wild' = k.wild /\ stopButton' = k.stop
      /\ clearButton' = k.clear
  BY <1>4 DEF Become
<1> QED BY <1>2, <1>4, <1>5 DEF ListTyped, Lists

LEMMA TwoHeard ==
  ASSUME ListTyped, RowHears, React, NEW one \in Names, NEW two \in Names, signals' = <<one, two>>,
         cancelled' \in BOOLEAN, completed' \in BOOLEAN
  PROVE  /\ ListTyped' /\ window' = window
         /\ \E r, h : Effect(one, row, heard, r, h) /\ Effect(two, r, h, row', heard')
<1> DEFINE j == Hear(List, one)
           k == Hear(j, two)
<1>1. List \in Lists /\ List.row = row /\ List.heard = heard
  BY DEF ListTyped, List, Lists
<1>2. j \in Lists /\ Effect(one, row, heard, j.row, j.heard)
  BY <1>1, HearsOne DEF RowHears
<1>3. signals' # <<"ready">> /\ signals' # <<"ready-error">> /\ signals' # <<>> /\ Len(signals') = 2
      /\ signals'[1] = one /\ signals'[2] = two
  OBVIOUS
<1>4. Become(k) /\ window' = window
  BY <1>3 DEF React, HearAll
<1> HIDE DEF j
<1>5. j.row # "none" => window # "destroyed"
  BY <1>2 DEF Effect, RowHears
<1>6. k \in Lists /\ Effect(two, j.row, j.heard, k.row, k.heard)
  BY <1>2, <1>5, HearsOne
<1> HIDE DEF k
<1>7. /\ row' = k.row /\ heard' = k.heard /\ wild' = k.wild /\ stopButton' = k.stop
      /\ clearButton' = k.clear
  BY <1>4 DEF Become
<1> QED BY <1>2, <1>4, <1>6, <1>7 DEF ListTyped, Lists

(* A transfer that is added, or refused. *)
LEMMA RowsAdded ==
  ASSUME HandlerInv, HandlerInv', RowInv, React,
         CreationFails \/ PropertiesReady \/ DismissChooser
           \/ \E hash \in BOOLEAN : GFileReady(hash) \/ ChooseDestination(hash)
  PROVE  RowInv'
<1> USE DEF privVars, chanVars, jobVars, histVars, Emit
<1>1. /\ row = "none" /\ window = "none" /\ ~failed /\ ~failed' /\ bytes = 0 /\ bytes' = bytes
      /\ heard \subseteq Names
  BY DEF HandlerInv, StepTells, Beginning, RowInv, RowThere, ListTyped, CreationFails, PropertiesReady,
     DismissChooser, GFileReady, ChooseDestination
<1>2. List \in Lists /\ List.row = row /\ List.heard = heard
  BY DEF RowInv, ListTyped, List, Lists
<1>3. cancelled' \in BOOLEAN /\ completed' \in BOOLEAN
  BY DEF HandlerInv, HandlerTruths
<1>4. CASE PropertiesReady \/ DismissChooser
  <2>1. UNCHANGED listVars
    BY <1>4, NoneHeard DEF PropertiesReady, DismissChooser
  <2>2. step' \in {"choosing", "refused"}
    BY <1>4 DEF PropertiesReady, DismissChooser
  <2> QED BY <1>1, <2>1, <2>2 DEF RowInv, ListTyped, RowHears, RowTold, RowThere, listVars
<1>5. CASE CreationFails
  <2> DEFINE k == DisplayError(List)
  <2>1. Say(List, "error") \in Lists /\ Say(List, "error").row = "error" /\ Say(List, "error").heard = heard
    BY <1>2, SayConnect DEF Rows
  <2>2. k \in Lists /\ k.row = "error" /\ k.heard = heard
    BY <1>3, <2>1, ButtonsUpdated DEF DisplayError
  <2>3. signals' = <<"ready-error">> /\ signals' # <<"ready">> /\ step' = "refused"
    BY <1>5 DEF CreationFails
  <2>4. Become(k) /\ window' = "shown"
    BY <2>3 DEF React
  <2> HIDE DEF k
  <2>5. ListTyped' /\ row' = "error"
    BY <2>2, <2>4 DEF Become, Lists, ListTyped
  <2> QED BY <1>1, <2>3, <2>4, <2>5 DEF RowInv, RowHears, RowTold, RowThere
<1>6. CASE \E hash \in BOOLEAN : GFileReady(hash) \/ ChooseDestination(hash)
  <2> DEFINE first == ~incoming /\ useHash'
             r == IF first THEN "hashing" ELSE "waiting"
             h == {"error"} \union (IF first THEN {"hashing-started"} ELSE {"started"})
             k == AddHandler(List)
  <2>1. signals' = <<"ready">> /\ incoming' = incoming /\ "manager" \in refs'
        /\ step' = IF first THEN "read" ELSE IF incoming THEN "channel" ELSE "request"
    <3>1. ASSUME NEW hash \in BOOLEAN, GFileReady(hash) PROVE <2>1!:
      <4>1. ~incoming
        BY <3>1 DEF GFileReady, HandlerInv, StepTells
      <4> QED BY <3>1, <4>1 DEF GFileReady
    <3>2. ASSUME NEW hash \in BOOLEAN, ChooseDestination(hash) PROVE <2>1!:
      <4>1. step = "choosing" /\ incoming
        BY <3>2 DEF ChooseDestination, HandlerInv, StepTells
      <4> QED BY <3>2, <4>1 DEF ChooseDestination
    <3> QED BY <1>6, <3>1, <3>2
  <2>2. r \in Rows /\ r \in {"hashing", "waiting"} /\ h \in SUBSET Names /\ "error" \in h
        /\ IF first THEN "hashing-started" \in h ELSE "started" \in h
    BY DEF Rows, Names
  <2>3. k = Connect(UpdateButtons(Say(List, r)), h)
    BY DEF AddHandler
  <2> HIDE DEF r, h, k
  <2>4. Say(List, r) \in Lists /\ Say(List, r).row = r
    BY <1>2, <2>2, SayConnect
  <2>5. UpdateButtons(Say(List, r)) \in Lists /\ UpdateButtons(Say(List, r)).row = r
    BY <1>3, <2>4, ButtonsUpdated
  <2>6. k \in Lists /\ k.row = r /\ h \subseteq k.heard
    BY <2>2, <2>3, <2>5, SayConnect
  <2>7. Become(k) /\ window' = "shown"
    BY <2>1 DEF React, k
  <2>8. ListTyped' /\ row' = r /\ h \subseteq heard'
    BY <2>6, <2>7 DEF Become, Lists, ListTyped
  <2> QED BY <1>1, <2>1, <2>2, <2>7, <2>8 DEF RowInv, RowHears, RowTold, RowThere
<1> QED BY <1>4, <1>5, <1>6

LEMMA RowsHash ==
  ASSUME HandlerInv, HandlerInv', RowInv, React,
         ReadAsyncReady \/ HashChunk \/ HashProgress \/ HashJobDone
  PROVE  RowInv'
<1> USE DEF privVars, chanVars, jobVars, histVars, Emit, EmitError
<1>1. cancelled' \in BOOLEAN /\ completed' \in BOOLEAN /\ ListTyped /\ RowHears
  BY DEF HandlerInv, HandlerTruths, RowInv
<1>2. CASE ReadAsyncReady
  <2>1. /\ step = "read" /\ ~failed /\ ~completed /\ ~incoming /\ bytes = 0
        /\ UNCHANGED <<incoming, useHash, completed, bytes>> /\ refs \subseteq refs'
    BY <1>2 DEF ReadAsyncReady, HandlerInv, StepTells, Beginning, StartJob
  <2>2. CASE signals' = <<"error">> /\ step' = "over" /\ failed' /\ cancelled'
    <3>1. ListTyped' /\ window' = window /\ Effect("error", row, heard, row', heard')
      BY <1>1, <2>2, OneHeard DEF Names
    <3> QED BY <2>1, <2>2, <3>1 DEF RowInv, RowHears, RowTold, RowThere, Effect, Finished
  <2>3. CASE signals' = <<"hashing-started">> /\ step' = "hash" /\ UNCHANGED <<failed, cancelled>>
    <3>1. ListTyped' /\ window' = window /\ Effect("hashing-started", row, heard, row', heard')
      BY <1>1, <2>3, OneHeard DEF Names
    <3> QED BY <2>1, <2>3, <3>1 DEF RowInv, RowHears, RowTold, RowThere, Effect, Finished
  <2> QED BY <1>2, <2>2, <2>3 DEF ReadAsyncReady
<1>3. CASE HashChunk
  <2>1. /\ UNCHANGED listVars
        /\ UNCHANGED <<incoming, cancelled, useHash, completed, bytes, step, refs, failed>>
    BY <1>3, NoneHeard DEF HashChunk
  <2> QED BY <2>1 DEF RowInv, ListTyped, RowHears, RowTold, RowThere, Finished, listVars
<1>4. CASE HashProgress
  <2>1. /\ step = "hash" /\ ~failed /\ (completed <=> incoming) /\ (incoming => useHash)
        /\ UNCHANGED <<incoming, cancelled, useHash, completed, bytes, step, refs, failed>>
    BY <1>4 DEF HashProgress, HandlerInv, StepTells, Counted
  <2>2. ListTyped' /\ window' = window /\ Effect("hashing-progress", row, heard, row', heard')
    BY <1>1, <1>4, OneHeard DEF HashProgress, Names
  <2> QED BY <2>1, <2>2 DEF RowInv, RowHears, RowTold, RowThere, Effect, Finished
<1>5. CASE HashJobDone
  <2>1. /\ step = "hash" /\ ~failed /\ (completed <=> incoming) /\ (incoming => useHash)
        /\ (~incoming => bytes = 0)
        /\ UNCHANGED <<incoming, useHash, completed, bytes>> /\ refs' = refs \ {"job"}
    BY <1>5 DEF HashJobDone, HandlerInv, StepTells
  <2>2. CASE signals' = <<"error">> /\ step' = "over" /\ failed' /\ cancelled'
    <3>1. ListTyped' /\ window' = window /\ Effect("error", row, heard, row', heard')
      BY <1>1, <2>2, OneHeard DEF Names
    <3> QED BY <2>1, <2>2, <3>1 DEF RowInv, RowHears, RowTold, RowThere, Effect, Finished
  <2>3. CASE /\ signals' = <<"hashing-done">> /\ UNCHANGED <<failed, cancelled>>
             /\ step' = IF incoming THEN "over" ELSE "request"
    <3>1. ListTyped' /\ window' = window /\ Effect("hashing-done", row, heard, row', heard')
      BY <1>1, <2>3, OneHeard DEF Names
    <3> QED BY <2>1, <2>3, <3>1 DEF RowInv, RowHears, RowTold, RowThere, Effect, Finished
  <2> QED BY <1>5, <2>2, <2>3 DEF HashJobDone
<1> QED BY <1>2, <1>3, <1>4, <1>5

LEMMA RowsWait ==
  ASSUME HandlerInv, HandlerInv', RowInv, React,
         ChannelCreated \/ ChannelNotCreated \/ ChannelOpens \/ \E ok \in BOOLEAN : FileReplied(ok)
  PROVE  RowInv'
<1> USE DEF privVars, chanVars, jobVars, histVars, Emit, EmitError
<1>1. /\ cancelled' \in BOOLEAN /\ completed' \in BOOLEAN /\ ListTyped /\ RowHears
      /\ UNCHANGED <<incoming, useHash, completed, bytes, refs>>
  BY DEF HandlerInv, HandlerTruths, RowInv, ChannelCreated, ChannelNotCreated, ChannelOpens, FileReplied
<1>2. CASE /\ signals' = <<>> /\ UNCHANGED <<failed, cancelled>>
           /\ step' = step \/ (step = "request" /\ step' = "channel")
  <2>1. UNCHANGED listVars
    BY <1>2, NoneHeard
  <2> QED BY <1>1, <1>2, <2>1 DEF RowInv, ListTyped, RowHears, RowTold, RowThere, Finished, listVars
<1>3. CASE /\ signals' = <<"error">> /\ failed' /\ cancelled' /\ ~completed
           /\ step' = step \/ step' = "over"
           /\ step \in {"request", "channel", "over"}
  <2>1. ListTyped' /\ window' = window /\ Effect("error", row, heard, row', heard')
    BY <1>1, <1>3, OneHeard DEF Names
  <2> QED BY <1>1, <1>3, <2>1 DEF RowInv, RowHears, RowTold, RowThere, Effect, Finished
<1>4. CASE ChannelCreated \/ ChannelNotCreated
  BY <1>2, <1>3, <1>4 DEF ChannelCreated, ChannelNotCreated, HandlerInv, StepTells, Beginning
<1>5. CASE ChannelOpens
  BY <1>2, <1>5 DEF ChannelOpens
<1>6. ASSUME NEW ok \in BOOLEAN, FileReplied(ok) PROVE RowInv'
  <2>1. reply = "pending" /\ ~completed /\ step \notin Beginning \union {"hash"}
    BY <1>6 DEF FileReplied, HandlerInv, StepTells
  <2>2. step \in {"channel", "over"}
    BY <2>1 DEF HandlerInv, HandlerTyped, Steps, Beginning
  <2> QED BY <1>2, <1>3, <1>6, <2>1, <2>2 DEF FileReplied
<1> QED BY <1>4, <1>5, <1>6

LEMMA RowsProgress ==
  ASSUME HandlerInv, HandlerInv', RowInv, React, BytesTransferred
  PROVE  RowInv'
<1>1. /\ chan = "open" /\ reply \in {"ok", "failed"} /\ sent' = sent + 1
      /\ UNCHANGED <<incoming, cancelled, useHash, completed, step, refs, failed>>
      /\ \/ /\ ~cancelled /\ bytes' = sent'
            /\ signals' = IF bytes = 0 THEN <<"started", "progress">> ELSE <<"progress">>
         \/ signals' = <<>> /\ bytes' = bytes
  BY DEF BytesTransferred, Emit, histVars
<1>2. step = "channel" /\ (~cancelled => ~failed)
  BY <1>1 DEF HandlerInv, StepTells, ReplyTells
<1>3. cancelled' \in BOOLEAN /\ completed' \in BOOLEAN /\ ListTyped /\ RowHears
  BY DEF HandlerInv, HandlerTruths, RowInv
<1>4. ~completed
  BY <1>1 DEF HandlerInv, StepTells
<1>5. CASE signals' = <<>> /\ bytes' = bytes
  <2>1. UNCHANGED listVars
    BY <1>5, NoneHeard
  <2> QED BY <1>1, <1>5, <2>1 DEF RowInv, ListTyped, RowHears, RowTold, RowThere, Finished, listVars
<1>6. CASE ~cancelled /\ bytes = 0 /\ signals' = <<"started", "progress">>
  <2>1. /\ ListTyped' /\ window' = window
        /\ \E r, h : Effect("started", row, heard, r, h) /\ Effect("progress", r, h, row', heard')
    BY <1>3, <1>6, TwoHeard DEF Names
  <2>2. /\ row' = "none" <=> row = "none"
        /\ heard \subseteq heard'
        /\ row # "none" => "done" \in heard'
    BY <1>2, <2>1 DEF Effect, RowInv, RowHears
  <2>3. row # "none" => row' # "completed"
    BY <1>2, <1>4, <2>1 DEF Effect, RowInv, RowHears, RowTold
  <2> QED BY <1>1, <1>2, <1>4, <1>6, <2>1, <2>2, <2>3 DEF RowInv, RowHears, RowTold, RowThere, Finished
<1>7. CASE ~cancelled /\ bytes # 0 /\ signals' = <<"progress">>
  <2>1. ListTyped' /\ window' = window /\ Effect("progress", row, heard, row', heard')
    BY <1>3, <1>7, OneHeard DEF Names
  <2> QED BY <1>1, <1>2, <1>4, <1>7, <2>1 DEF RowInv, RowHears, RowTold, RowThere, Effect, Finished
<1> QED BY <1>1, <1>5, <1>6, <1>7

LEMMA RowsEnd ==
  ASSUME HandlerInv, HandlerInv', RowInv, React, ChannelCompletes \/ ChannelCancelled
  PROVE  RowInv'
<1> USE DEF privVars, chanVars, jobVars, histVars, Emit, EmitError
<1>1. cancelled' \in BOOLEAN /\ completed' \in BOOLEAN /\ ListTyped /\ RowHears
  BY DEF HandlerInv, HandlerTruths, RowInv
<1>2. CASE ~Listening
  <2>1. /\ signals' = <<>>
        /\ UNCHANGED <<incoming, cancelled, useHash, completed, bytes, step, refs, failed>>
    BY <1>2 DEF ChannelCompletes, ChannelCancelled
  <2>2. UNCHANGED listVars
    BY <2>1, NoneHeard
  <2> QED BY <2>1, <2>2 DEF RowInv, ListTyped, RowHears, RowTold, RowThere, Finished, listVars
<1>3. CASE ChannelCancelled /\ Listening
  <2>1. /\ step = "channel" /\ ~completed
        /\ signals' = <<"error">> /\ failed' /\ cancelled' /\ step' = "over"
        /\ UNCHANGED <<incoming, useHash, completed, bytes, refs>>
    BY <1>3 DEF ChannelCancelled, Listening, HandlerInv, StepTells, ReplyTells
  <2>2. ListTyped' /\ window' = window /\ Effect("error", row, heard, row', heard')
    BY <1>1, <2>1, OneHeard DEF Names
  <2> QED BY <2>1, <2>2 DEF RowInv, RowHears, RowTold, RowThere, Effect, Finished
<1>4. CASE ChannelCompletes /\ Listening
  <2>1. /\ step = "channel" /\ ~failed /\ completed'
        /\ UNCHANGED <<incoming, cancelled, useHash, bytes, failed>> /\ refs \subseteq refs'
    BY <1>4 DEF ChannelCompletes, HandlerInv, ReplyTells, StartJob
  <2>2. CASE incoming /\ useHash
    <3>1. signals' = <<"done", "hashing-started">> /\ step' = "hash"
      BY <1>4, <2>2 DEF ChannelCompletes
    <3>2. /\ ListTyped' /\ window' = window
          /\ \E r, h : Effect("done", row, heard, r, h) /\ Effect("hashing-started", r, h, row', heard')
      BY <1>1, <3>1, TwoHeard DEF Names
    <3>3. row' = "none" <=> row = "none"
      BY <3>2 DEF Effect
    <3>4. heard \subseteq heard'
      BY <3>2 DEF Effect
    <3>5. row # "none" /\ bytes # 0 => "hashing-done" \in heard'
      BY <2>2, <3>2 DEF Effect, RowInv, RowHears
    <3>6. row' # "completed"
      BY <2>1, <2>2, <3>2 DEF Effect, RowInv, RowTold
    <3> QED BY <2>1, <2>2, <3>1, <3>2, <3>3, <3>4, <3>5, <3>6 DEF RowInv, RowHears, RowTold, RowThere, Finished
  <2>3. CASE ~(incoming /\ useHash)
    <3>1. signals' = <<"done">> /\ step' = "over"
      BY <1>4, <2>3 DEF ChannelCompletes
    <3>2. ListTyped' /\ window' = window /\ Effect("done", row, heard, row', heard')
      BY <1>1, <3>1, OneHeard DEF Names
    <3> QED BY <2>1, <2>3, <3>1, <3>2 DEF RowInv, RowHears, RowTold, RowThere, Effect, Finished
  <2> QED BY <2>2, <2>3
<1> QED BY <1>2, <1>3, <1>4

(* What the user does to the window, and what the other rows do. *)
LEMMA RowsCleared ==
  ASSUME HandlerInv, RowInv, Clear, UNCHANGED <<step, cancelled, completed, useHash, incoming, bytes, failed>>,
         window' = window \/ window' = "hidden" \/ (window' = "destroyed" /\ row' = "none"),
         window = "shown"
  PROVE  RowInv'
<1>1. CASE row # "none" /\ Finished
  <2>1. row' = "none" /\ clearButton' = FALSE /\ stopButton' \in BOOLEAN /\ UNCHANGED <<heard, wild>>
    BY <1>1 DEF Clear, RowInv, ListTyped
  <2>2. ListTyped'
    BY <2>1 DEF RowInv, ListTyped, Rows
  <2> QED BY <1>1, <2>1, <2>2 DEF RowInv, RowHears, RowTold, RowThere, Finished
<1>2. CASE ~(row # "none" /\ Finished)
  <2>1. clearButton' = FALSE /\ UNCHANGED <<refs, row, heard, wild, stopButton>>
    BY <1>2 DEF Clear
  <2>2. ListTyped'
    BY <2>1 DEF RowInv, ListTyped
  <2> QED BY <2>1, <2>2 DEF RowInv, RowHears, RowTold, RowThere, Finished
<1> QED BY <1>1, <1>2

LEMMA RowsInWindow ==
  ASSUME HandlerInv, HandlerInv', RowInv,
         \/ ClearClicked \/ StopClicked \/ EscapePressed \/ ShowWindow
         \/ \E others \in BOOLEAN : CloseWindow(others)
         \/ OtherRows \/ LateCallback
  PROVE  RowInv'
<1> USE DEF privVars, chanVars, jobVars, histVars, Emit
<1>1. CASE ClearClicked \/ \E others \in BOOLEAN : CloseWindow(others)
  <2>1. /\ Clear /\ UNCHANGED <<step, cancelled, completed, useHash, incoming, bytes, failed>>
        /\ window = "shown"
        /\ window' = window \/ window' = "hidden" \/ (window' = "destroyed" /\ row' = "none")
    BY <1>1 DEF ClearClicked, CloseWindow, Unhandled
  <2> QED BY <2>1, RowsCleared
<1>2. CASE StopClicked
  <2>1. /\ UNCHANGED <<step, completed, useHash, incoming, bytes, failed, refs, listVars>>
        /\ (cancelled => cancelled')
    BY <1>2 DEF StopClicked, CancelTransfer
  <2> QED BY <2>1 DEF RowInv, ListTyped, RowHears, RowTold, RowThere, Finished, listVars
<1>3. CASE EscapePressed
  BY <1>3 DEF EscapePressed, Unhandled, RowInv, ListTyped, RowHears, RowTold, RowThere, Finished, Rows
<1>4. CASE ShowWindow
  BY <1>4 DEF ShowWindow, Unhandled, RowInv, ListTyped, RowHears, RowTold, RowThere, Finished
<1>5. CASE OtherRows
  <2> DEFINE k == UpdateButtons(List)
             m == [k EXCEPT !.clear = TRUE]
  <2>1. List \in Lists /\ List.row = row /\ List.heard = heard
    BY DEF RowInv, ListTyped, List, Lists
  <2>2. cancelled' \in BOOLEAN /\ completed' \in BOOLEAN
    BY DEF HandlerInv, HandlerTruths
  <2>3. k \in Lists /\ k.row = row /\ k.heard = heard
    BY <2>1, <2>2, ButtonsUpdated
  <2>4. Become(k) \/ Become(m)
    BY <1>5 DEF OtherRows
  <2> HIDE DEF k
  <2>5. m \in Lists /\ m.row = row /\ m.heard = heard
    BY <2>3 DEF Lists
  <2> HIDE DEF m
  <2>6. ListTyped' /\ row' = row /\ heard' = heard
    <3>1. UNCHANGED window
      BY <1>5 DEF OtherRows
    <3> QED BY <2>3, <2>4, <2>5, <3>1 DEF Become, Lists, ListTyped, RowInv
  <2>7. UNCHANGED <<step, cancelled, completed, useHash, incoming, bytes, failed, refs, window>>
    BY <1>5 DEF OtherRows
  <2> QED BY <2>6, <2>7 DEF RowInv, RowHears, RowTold, RowThere, Finished
<1>6. CASE LateCallback
  BY <1>6 DEF LateCallback, RowInv, ListTyped, RowHears, RowTold, RowThere, Finished, Losses
<1> QED BY <1>1, <1>2, <1>3, <1>4, <1>5, <1>6

LEMMA RowInitially == ManagerInit => HandlerInv /\ RowInv
<1> SUFFICES ASSUME ManagerInit PROVE HandlerInv /\ RowInv
  OBVIOUS
<1>1. HandlerInv
  BY HandlerInitially DEF ManagerInit
<1>2. RowInv
  BY DEF ManagerInit, HandlerInit, RowInv, ListTyped, RowHears, RowTold, RowThere, Rows
<1> QED BY <1>1, <1>2

LEMMA RowStep == HandlerInv /\ RowInv /\ [ManagerNext]_allVars => HandlerInv' /\ RowInv'
<1> SUFFICES ASSUME HandlerInv, RowInv, [ManagerNext]_allVars PROVE HandlerInv' /\ RowInv'
  OBVIOUS
<1>1. CASE UNCHANGED allVars
  <2>1. HandlerInv'
    BY <1>1 DEF allVars, handlerVars, HandlerInv, HandlerTruths, HandlerTyped, Counted, StepTells, ReplyTells
  <2>2. RowInv'
    BY <1>1 DEF allVars, handlerVars, listVars, RowInv, ListTyped, RowHears, RowTold, RowThere, Finished
  <2> QED BY <2>1, <2>2
<1>2. CASE HandlerNext /\ React
  <2>1. HandlerInv'
    BY <1>2, HandlersStep DEF Kept
  <2> QED BY <1>2, <2>1, RowsAdded, RowsHash, RowsWait, RowsProgress, RowsEnd DEF HandlerNext
<1>3. CASE \/ ClearClicked \/ StopClicked \/ EscapePressed \/ ShowWindow
           \/ \E others \in BOOLEAN : CloseWindow(others)
           \/ OtherRows \/ LateCallback
  <2>1. HandlerInv'
    BY <1>3, WindowsStep DEF Kept
  <2> QED BY <1>3, <2>1, RowsInWindow
<1> QED BY <1>1, <1>2, <1>3 DEF ManagerNext

(* The row tells how the transfer ended, however its signals, the window and *)
(* the user interleave, and a transfer under way keeps its row.              *)
THEOREM RowsTellTransfers == ManagerSpec => []RowTellsTransfer
<1>1. HandlerInv /\ RowInv => RowTellsTransfer
  <2> SUFFICES ASSUME HandlerInv, RowInv PROVE RowTellsTransfer
    OBVIOUS
  <2>1. bytes \in 0..Size /\ sent \in 0..Size /\ read \in 0..Size /\ idles \in 0..Size
    BY SizeAssumption DEF HandlerInv, Counted
  <2>2. HandlerTypeOK
    BY <2>1 DEF HandlerInv, HandlerTyped, HandlerTruths, HandlerTypeOK
  <2>3. ManagerTypeOK
    BY <2>2 DEF RowInv, ListTyped, ManagerTypeOK, Names, Losses
  <2>4. bytes > 0 => bytes # 0
    BY <2>1
  <2> QED BY <2>3, <2>4 DEF RowInv, RowTold, RowThere, RowTellsTransfer
<1> QED BY <1>1, RowInitially, RowStep, PTL DEF ManagerSpec

-----------------------------------------------------------------------------
(* The sounds.  A finish callback always finds the entry it was given, for   *)
(* any sounds and callbacks that come at once or late.                       *)

SoundInv == TypeOK /\ CallbackHasEntry

LEMMA SoundsStart == ASSUME Init PROVE SoundInv
  BY DEF Init, SoundInv, TypeOK, CallbackHasEntry

(* Each action changes the entry of one sound only. *)
LEMMA SoundStarts ==
  ASSUME SoundInv, NEW s \in Sounds, NEW w \in {"none", "alive"}, NEW plays \in BOOLEAN,
         StartPlaying(s, w, plays)
  PROVE  SoundInv'
<1>1. wanted' \in [Sounds -> BOOLEAN]
  BY DEF SoundInv, TypeOK, StartPlaying
<1>2. CASE enabled[s] /\ loop[s] = "none"
  BY <1>1, <1>2 DEF SoundInv, TypeOK, CallbackHasEntry, StartPlaying
<1>3. CASE ~(enabled[s] /\ loop[s] = "none")
  BY <1>1, <1>3 DEF SoundInv, TypeOK, CallbackHasEntry, StartPlaying
<1> QED BY <1>2, <1>3

LEMMA SoundStops ==
  ASSUME SoundInv, NEW s \in Sounds, Stop(s)
  PROVE  SoundInv'
<1>1. wanted' \in [Sounds -> BOOLEAN]
  BY DEF SoundInv, TypeOK, Stop
<1>2. CASE loop[s] = "waiting"
  <2>1. Forget(s) /\ UNCHANGED <<late, enabled, sounding, callback>>
    BY <1>2 DEF Stop
  <2> QED BY <1>1, <1>2, <2>1 DEF SoundInv, TypeOK, CallbackHasEntry, Forget
<1>3. CASE loop[s] # "waiting"
  <2>1. Cancel(s) /\ UNCHANGED <<late, enabled>>
    BY <1>3 DEF Stop
  <2>2. CASE sounding[s] # "loop"
    BY <1>1, <2>1, <2>2 DEF SoundInv, TypeOK, CallbackHasEntry, Cancel
  <2>3. CASE sounding[s] = "loop" /\ late
    BY <1>1, <2>1, <2>3 DEF SoundInv, TypeOK, CallbackHasEntry, Cancel
  <2>4. CASE sounding[s] = "loop" /\ ~late
    BY <1>1, <2>1, <2>4 DEF SoundInv, TypeOK, CallbackHasEntry, Cancel, Forget
  <2> QED BY <2>2, <2>3, <2>4
<1> QED BY <1>2, <1>3

LEMMA SoundIsOver ==
  ASSUME SoundInv, NEW s \in Sounds, SoundEnds(s)
  PROVE  SoundInv'
<1>1. CASE sounding[s] = "shot" \/ late
  BY <1>1 DEF SoundInv, TypeOK, CallbackHasEntry, SoundEnds
<1>2. CASE ~(sounding[s] = "shot" \/ late)
  BY <1>2 DEF SoundInv, TypeOK, CallbackHasEntry, SoundEnds, Await
<1> QED BY <1>1, <1>2

LEMMA SoundsStep ==
  ASSUME SoundInv, [Next]_vars
  PROVE  SoundInv'
<1>1. CASE UNCHANGED vars
  BY <1>1 DEF SoundInv, TypeOK, CallbackHasEntry, vars
<1>2. ASSUME NEW s \in Sounds, Play(s) PROVE SoundInv'
  BY <1>2 DEF SoundInv, TypeOK, CallbackHasEntry, Play
<1>3. ASSUME NEW s \in Sounds, SoundEnds(s) PROVE SoundInv'
  BY <1>3, SoundIsOver
<1>4. ASSUME NEW s \in Sounds, PlayingFinished(s) PROVE SoundInv'
  BY <1>4 DEF SoundInv, TypeOK, CallbackHasEntry, PlayingFinished, Await, Forget
<1>5. ASSUME NEW s \in Sounds, PlayingTimeout(s) PROVE SoundInv'
  BY <1>5 DEF SoundInv, TypeOK, CallbackHasEntry, PlayingTimeout, Forget
<1>6. ASSUME NEW s \in Sounds, WidgetDestroyed(s) PROVE SoundInv'
  BY <1>6 DEF SoundInv, TypeOK, CallbackHasEntry, WidgetDestroyed, Cancel, Forget
<1>7. ASSUME NEW s \in Sounds, PrefChanges(s) PROVE SoundInv'
  BY <1>7 DEF SoundInv, TypeOK, CallbackHasEntry, PrefChanges
<1> QED BY <1>1, <1>2, <1>3, <1>4, <1>5, <1>6, <1>7, SoundStarts, SoundStops DEF Next

(* The user data of a finish callback is alive when it comes. *)
THEOREM CallbackSafe == Spec => []CallbackHasEntry
<1>1. SoundInv => CallbackHasEntry BY DEF SoundInv
<1> QED BY <1>1, SoundsStart, SoundsStep, PTL DEF Spec
=============================================================================
