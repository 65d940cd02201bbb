----------------------------- MODULE DeviceProofs -----------------------------
(***************************************************************************)
(* Proofs about the station, the panel and the two together, for every set *)
(* of networks and setters, every number of samples, retries and steps of  *)
(* the backoff, and any length of the event queue.                         *)
(***************************************************************************)
EXTENDS Device, TLAPS

------------------------------------------------------------------------------
(* The station. *)

(* A setter that is about to connect has taken the uplink back first, and  *)
(* the uplink timer leaves it alone until it has.                          *)
ConnectingIsWanted ==
    \A t \in Setters : setting[t].phase = "connect" => ~ suspended

StationInv == StationTypeOK /\ RadioLeftToAccessPoint /\ ConnectingIsWanted

(* Where a setter can be, and what it can become. *)
Settings ==
    [phase : {"none", "pass", "detach", "apply", "connect"}, network : Ssids, tries : 0 .. Retries]

LEMMA SettledType == Settled \in Settings
BY StationAssumption DEF Settled, Settings, Ssids

LEMMA PostType ==
    ASSUME StationTypeOK, NEW e \in {"disconnected", "gotIp"}, Post(e)
    PROVE  events' \in Seq({"disconnected", "gotIp"})
BY DEF StationTypeOK, Post

LEMMA DisconnectType ==
    ASSUME StationTypeOK, DriverDisconnects
    PROVE  /\ link' \in {"idle", "up"} \cup Occupied
           /\ events' \in Seq({"disconnected", "gotIp"})
BY DEF StationTypeOK, DriverDisconnects, Post, Occupied

LEMMA RetryType ==
    ASSUME StationTypeOK, ScheduleReconnect \/ CancelReconnect \/ UNCHANGED pacing
    PROVE  retry' \in BOOLEAN /\ attempts' \in 0 .. BackoffSteps
<1>1. retry' \in {retry, TRUE, FALSE}
    BY Zenon DEF ScheduleReconnect, CancelReconnect, pacing
<1>2. attempts' \in 0 .. BackoffSteps
    BY StationAssumption DEF StationTypeOK, ScheduleReconnect, CancelReconnect, pacing
<1> QED BY <1>1, <1>2 DEF StationTypeOK

------------------------------------------------------------------------------
LEMMA DriverStepKeeps == StationInv /\ DriverStep => StationInv'
<1> SUFFICES ASSUME StationInv, DriverStep PROVE StationInv'
    OBVIOUS
<1>1. StationTypeOK'
    <2>1. events' \in Seq({"disconnected", "gotIp"})
        BY PostType DEF DriverStep, StationInv
    <2> QED BY <2>1 DEF DriverStep, StationInv, StationTypeOK, pacing, Occupied
<1>2. RadioLeftToAccessPoint'
    BY DEF DriverStep, StationInv, RadioLeftToAccessPoint, pacing
<1>3. ConnectingIsWanted'
    BY DEF DriverStep, StationInv, ConnectingIsWanted
<1> QED BY <1>1, <1>2, <1>3 DEF StationInv

LEMMA ReconnectTimerKeeps == StationInv /\ ReconnectTimer => StationInv'
<1> SUFFICES ASSUME StationInv, ReconnectTimer PROVE StationInv'
    OBVIOUS
<1>1. retry' \in BOOLEAN /\ attempts' \in 0 .. BackoffSteps
    <2>1. ScheduleReconnect \/ (retry' = FALSE /\ UNCHANGED attempts)
        BY Zenon DEF ReconnectTimer
    <2>2. CASE ScheduleReconnect
        BY <2>2, RetryType DEF StationInv
    <2>3. CASE retry' = FALSE /\ UNCHANGED attempts
        BY <2>3 DEF StationInv, StationTypeOK
    <2> QED BY <2>1, <2>2, <2>3
<1>2. link' \in {"idle", "up"} \cup Occupied
    BY DEF ReconnectTimer, DriverConnects, StationInv, StationTypeOK, Occupied
<1>3. StationTypeOK'
    BY <1>1, <1>2 DEF ReconnectTimer, StationInv, StationTypeOK
<1>4. RadioLeftToAccessPoint'
    BY DEF ReconnectTimer, StationInv, RadioLeftToAccessPoint
<1>5. ConnectingIsWanted'
    BY DEF ReconnectTimer, StationInv, ConnectingIsWanted
<1> QED BY <1>3, <1>4, <1>5 DEF StationInv

LEMMA HandleEventKeeps == StationInv /\ HandleEvent => StationInv'
<1> SUFFICES ASSUME StationInv, HandleEvent PROVE StationInv'
    OBVIOUS
<1>1. events' \in Seq({"disconnected", "gotIp"})
    BY DEF HandleEvent, StationInv, StationTypeOK
<1>2. retry' \in BOOLEAN /\ attempts' \in 0 .. BackoffSteps
    BY RetryType DEF HandleEvent, GotIp, Disconnected, StationInv
<1>3. connected' \in BOOLEAN /\ reason' \in BOOLEAN
    BY DEF HandleEvent, GotIp, Disconnected
<1>4. StationTypeOK'
    <2>1. refused' \in BOOLEAN
        BY DEF HandleEvent
    <2> QED BY <1>1, <1>2, <1>3, <2>1 DEF HandleEvent, StationInv, StationTypeOK
<1>5. RadioLeftToAccessPoint'
    BY DEF HandleEvent, GotIp, Disconnected, CancelReconnect, ScheduleReconnect, pacing,
           StationInv, RadioLeftToAccessPoint
<1>6. ConnectingIsWanted'
    BY DEF HandleEvent, StationInv, ConnectingIsWanted
<1> QED BY <1>4, <1>5, <1>6 DEF StationInv

LEMMA UplinkTimerKeeps ==
    ASSUME NEW busy \in BOOLEAN
    PROVE  StationInv /\ UplinkTimer(busy) => StationInv'
<1> SUFFICES ASSUME StationInv, UplinkTimer(busy) PROVE StationInv'
    OBVIOUS
<1>1. CASE DropUplink /\ Judged(busy) /\ link = "up"
    <2>1. link' = "idle" /\ suspended' = TRUE /\ weak' = 0
        BY <1>1 DEF DropUplink, DriverDisconnects
    <2>2. events' \in Seq({"disconnected", "gotIp"})
        BY <1>1, DisconnectType DEF DropUplink, StationInv
    <2>3. StationTypeOK'
        BY <2>1, <2>2, StationAssumption DEF UplinkTimer, StationInv, StationTypeOK, pacing
    <2>4. RadioLeftToAccessPoint'
        BY <1>1, <2>1 DEF UplinkTimer, Judged, StationInv, RadioLeftToAccessPoint, pacing
    <2>5. ConnectingIsWanted'
        BY DEF UplinkTimer, StationInv, ConnectingIsWanted
    <2> QED BY <2>3, <2>4, <2>5 DEF StationInv
<1>2. CASE UNCHANGED <<suspended, link, events>> /\ weak' \in 0 .. WeakSamples - 1
    <2>1. StationTypeOK'
        BY <1>2 DEF UplinkTimer, StationInv, StationTypeOK, pacing
    <2>2. RadioLeftToAccessPoint' /\ ConnectingIsWanted'
        BY <1>2 DEF UplinkTimer, StationInv, RadioLeftToAccessPoint, ConnectingIsWanted, pacing
    <2> QED BY <2>1, <2>2 DEF StationInv
<1> QED
    BY <1>1, <1>2, StationAssumption DEF UplinkTimer, StationInv, StationTypeOK

------------------------------------------------------------------------------
LEMMA SaveSsidKeeps ==
    ASSUME NEW t \in Setters, NEW n \in Ssids
    PROVE  StationInv /\ SaveSsid(t, n) => StationInv'
<1> SUFFICES ASSUME StationInv, SaveSsid(t, n) PROVE StationInv'
    OBVIOUS
<1>1. StationTypeOK'
    <2>1. [phase |-> "pass", network |-> n, tries |-> 0] \in Settings
        BY StationAssumption DEF Settings
    <2>2. setting' \in [Setters -> Settings]
        BY <2>1 DEF SaveSsid, StationInv, StationTypeOK, Settings
    <2>3. saved' \in [ssid : Ssids, pass : Ssids]
        BY DEF SaveSsid, StationInv, StationTypeOK
    <2>4. UNCHANGED <<ssid, connected, reason, suspended, reconfiguring, weak, retry, attempts,
                      link, config, events, refused>>
        BY DEF SaveSsid, pacing, driver
    <2> QED BY <2>2, <2>3, <2>4 DEF StationInv, StationTypeOK, Settings
<1>2. RadioLeftToAccessPoint' /\ ConnectingIsWanted'
    BY DEF SaveSsid, StationInv, StationTypeOK, RadioLeftToAccessPoint, ConnectingIsWanted,
           pacing, driver
<1> QED BY <1>1, <1>2 DEF StationInv

LEMMA SavePassKeeps ==
    ASSUME NEW t \in Setters
    PROVE  StationInv /\ SavePass(t) => StationInv'
<1> SUFFICES ASSUME StationInv, SavePass(t) PROVE StationInv'
    OBVIOUS
<1>1. StationTypeOK'
    <2>1. setting' \in [Setters -> Settings]
        <3>1. setting \in [Setters -> Settings]
            BY DEF StationInv, StationTypeOK, Settings
        <3>2. SetPhase(t, "detach") \/ setting' = [setting EXCEPT ![t] = Settled]
            BY DEF SavePass
        <3> QED BY <3>1, <3>2, SettledType DEF SetPhase, Settings
    <2>2. saved' \in [ssid : Ssids, pass : Ssids]
        BY DEF SavePass, StationInv, StationTypeOK
    <2> QED BY <2>1, <2>2 DEF SavePass, StationInv, StationTypeOK, Settings, pacing, driver
<1>2. RadioLeftToAccessPoint' /\ ConnectingIsWanted'
    BY DEF SavePass, SetPhase, Settled, StationInv, StationTypeOK, RadioLeftToAccessPoint,
           ConnectingIsWanted, pacing, driver
<1> QED BY <1>1, <1>2 DEF StationInv

LEMMA DetachKeeps ==
    ASSUME NEW t \in Setters
    PROVE  StationInv /\ Detach(t) => StationInv'
<1> SUFFICES ASSUME StationInv, Detach(t) PROVE StationInv'
    OBVIOUS
<1>1. /\ link' \in {"idle", "up"} \cup Occupied
      /\ events' \in Seq({"disconnected", "gotIp"})
    BY DisconnectType DEF Detach, StationInv
<1>2. StationTypeOK'
    <2>1. setting' \in [Setters -> Settings]
        BY DEF Detach, SetPhase, StationInv, StationTypeOK, Settings
    <2> QED BY <1>1, <2>1 DEF Detach, StationInv, StationTypeOK, Settings, pacing
<1>3. RadioLeftToAccessPoint' /\ ConnectingIsWanted'
    BY DEF Detach, DriverDisconnects, SetPhase, StationInv, StationTypeOK,
           RadioLeftToAccessPoint, ConnectingIsWanted, pacing
<1> QED BY <1>2, <1>3 DEF StationInv

LEMMA SettingType ==
    ASSUME StationTypeOK, NEW t \in Setters,
           SetPhase(t, "connect") \/ Retried(t) \/ SettingDone(t)
    PROVE  setting' \in [Setters -> Settings]
<1>1. setting \in [Setters -> Settings]
    BY DEF StationTypeOK, Settings
<1>2. CASE SetPhase(t, "connect")
    BY <1>1, <1>2 DEF SetPhase, Settings
<1>3. CASE Retried(t)
    <2>1. setting[t].tries + 1 \in 0 .. Retries
        BY <1>1, <1>3, StationAssumption DEF Settings, Retried
    <2> QED BY <1>1, <1>3, <2>1 DEF Settings, Retried
<1>4. CASE SettingDone(t)
    BY <1>1, <1>4, SettledType DEF SettingDone
<1> QED BY <1>2, <1>3, <1>4

LEMMA ApplyConfigKeeps ==
    ASSUME NEW t \in Setters
    PROVE  StationInv /\ ApplyConfig(t) => StationInv'
<1> SUFFICES ASSUME StationInv, ApplyConfig(t) PROVE StationInv'
    OBVIOUS
<1>1. SetPhase(t, "connect") \/ Retried(t) \/ SettingDone(t)
    BY Zenon DEF ApplyConfig
<1>2. StationTypeOK'
    <2>1. retry' \in BOOLEAN /\ attempts' \in 0 .. BackoffSteps
        BY RetryType DEF ApplyConfig, StationInv
    <2>2. config' \in Ssids
        BY DEF ApplyConfig, StationInv, StationTypeOK
    <2>3. reconfiguring' \in {reconfiguring, FALSE}
        BY DEF ApplyConfig, SettingDone, Retried
    <2>4. reconfiguring' \in BOOLEAN
        BY <2>3 DEF StationInv, StationTypeOK
    <2>5. weak' = 0 /\ 0 \in 0 .. WeakSamples - 1 /\ suspended' = FALSE
        BY StationAssumption DEF ApplyConfig
    <2>6. UNCHANGED <<saved, ssid, connected, reason, link, events>>
        BY DEF ApplyConfig
    <2>7. setting' \in [Setters -> Settings]
        BY <1>1, SettingType DEF StationInv
    <2>8. refused' \in BOOLEAN
        BY DEF ApplyConfig, DriverFails, StationInv, StationTypeOK
    <2> QED BY <2>1, <2>2, <2>4, <2>5, <2>6, <2>7, <2>8
            DEF StationInv, StationTypeOK, Settings
<1>3. RadioLeftToAccessPoint' /\ ConnectingIsWanted'
    BY DEF ApplyConfig, CancelReconnect, RadioLeftToAccessPoint, ConnectingIsWanted
<1> QED BY <1>2, <1>3 DEF StationInv

LEMMA ApplyConnectKeeps ==
    ASSUME NEW t \in Setters
    PROVE  StationInv /\ ApplyConnect(t) => StationInv'
<1> SUFFICES ASSUME StationInv, ApplyConnect(t) PROVE StationInv'
    OBVIOUS
<1>1. StationTypeOK'
    <2>1. setting' \in [Setters -> Settings]
        <3>1. Retried(t) \/ SettingDone(t)
            BY Zenon DEF ApplyConnect
        <3> QED BY <3>1, SettingType DEF StationInv
    <2>2. link' \in {"idle", "up"} \cup Occupied
        BY DEF ApplyConnect, DriverConnects, StationInv, StationTypeOK, Occupied
    <2>3. ssid' \in Ssids /\ connected' = FALSE
        BY DEF ApplyConnect, StationInv, StationTypeOK
    <2>4. reconfiguring' \in BOOLEAN /\ refused' \in BOOLEAN
        BY DEF ApplyConnect, SettingDone, Retried, DriverFails, StationInv, StationTypeOK
    <2> QED BY <2>1, <2>2, <2>3, <2>4
            DEF ApplyConnect, StationInv, StationTypeOK, Settings, pacing
<1>2. ~ suspended /\ suspended' = suspended
    BY DEF ApplyConnect, StationInv, ConnectingIsWanted
<1>3. RadioLeftToAccessPoint' /\ ConnectingIsWanted'
    BY <1>2 DEF ApplyConnect, StationInv, RadioLeftToAccessPoint, ConnectingIsWanted, pacing
<1> QED BY <1>1, <1>3 DEF StationInv

------------------------------------------------------------------------------
LEMMA StationInitial == StationInit => StationInv
<1> SUFFICES ASSUME StationInit PROVE StationInv
    OBVIOUS
<1>1. StationTypeOK
    <2>1. setting \in [Setters -> Settings]
        BY SettledType DEF StationInit
    <2>2. PICK n \in Ssids : /\ saved = [ssid |-> n, pass |-> n]
                             /\ ssid = n
                             /\ config \in {n, NoNetwork}
                             /\ link \in {"idle", "connecting"}
                             /\ refused \in BOOLEAN
        BY DEF StationInit
    <2>3. link \in {"idle", "up"} \cup Occupied
        BY <2>2 DEF Occupied
    <2>4. weak \in 0 .. WeakSamples - 1 /\ attempts \in 0 .. BackoffSteps
        BY StationAssumption DEF StationInit
    <2>5. saved \in [ssid : Ssids, pass : Ssids] /\ ssid \in Ssids /\ config \in Ssids
        BY <2>2 DEF Ssids
    <2>6. events \in Seq({"disconnected", "gotIp"})
        BY DEF StationInit
    <2>7. {connected, reason, suspended, reconfiguring, retry} \subseteq BOOLEAN
        BY DEF StationInit
    <2> QED BY <2>1, <2>2, <2>3, <2>4, <2>5, <2>6, <2>7 DEF StationTypeOK, Settings
<1>2. RadioLeftToAccessPoint /\ ConnectingIsWanted
    BY DEF StationInit, RadioLeftToAccessPoint, ConnectingIsWanted
<1> QED BY <1>1, <1>2 DEF StationInv

(* Every step of the station keeps the invariant, whatever the panel shows. *)
LEMMA StationStepKeeps ==
    ASSUME NEW busy \in BOOLEAN
    PROVE  StationInv /\ StationNext(busy) => StationInv'
<1> SUFFICES ASSUME StationInv, StationNext(busy) PROVE StationInv'
    OBVIOUS
<1>1. CASE DriverStep \/ ReconnectTimer \/ HandleEvent
    BY <1>1, DriverStepKeeps, ReconnectTimerKeeps, HandleEventKeeps
<1>2. CASE UplinkTimer(busy)
    BY <1>2, UplinkTimerKeeps
<1>3. ASSUME NEW t \in Setters, SetterStep(t) PROVE StationInv'
    BY <1>3, SavePassKeeps, DetachKeeps, ApplyConfigKeeps, ApplyConnectKeeps DEF SetterStep
<1>4. ASSUME NEW t \in Setters, NEW n \in Ssids, SaveSsid(t, n) PROVE StationInv'
    BY <1>4, SaveSsidKeeps
<1> QED BY <1>1, <1>2, <1>3, <1>4 DEF StationNext

LEMMA StationStutters == StationInv /\ UNCHANGED stationVars => StationInv'
BY DEF StationInv, StationTypeOK, RadioLeftToAccessPoint, ConnectingIsWanted,
       stationVars, pacing, driver, Ssids, Occupied

LEMMA StationInvariance == StationSpec => []StationInv
<1>1. StationInv /\ [\E busy \in BOOLEAN : StationNext(busy)]_stationVars => StationInv'
    BY StationStepKeeps, StationStutters
<1> QED BY StationInitial, <1>1, PTL DEF StationSpec

(* The variables of the station keep their types: the static state of      *)
(* wifi_ap.c, its two NVS values and the events in flight.                 *)
THEOREM StationTypeCorrect == StationSpec => []StationTypeOK
<1>1. StationInv => StationTypeOK
    BY DEF StationInv
<1> QED BY StationInvariance, <1>1, PTL

(* No retry is pending while a connection lasts or after a hopeless one    *)
(* was dropped, and a dropped uplink is not attempted again until a        *)
(* network is set, through every interleaving of the event loop, the two   *)
(* timers and any number of calls of wifi_ap_set_station() at once         *)
(* (wifi_ap.c).                                                            *)
THEOREM RadioIsLeft == StationSpec => []RadioLeftToAccessPoint
<1>1. StationInv => RadioLeftToAccessPoint
    BY DEF StationInv
<1> QED BY StationInvariance, <1>1, PTL
------------------------------------------------------------------------------
(* The panel and the tasks that draw on it. *)

(* A level that is being debounced has been seen in the last count + 1     *)
(* samples, and not yet in a whole window of them.                         *)
CandidateSeen ==
    candidate # stable =>
        /\ count < StableSamples
        /\ Len(pin) >= count + 1
        /\ \A i \in Len(pin) - count .. Len(pin) : pin[i] = candidate

ScreensInv == ScreensTypeOK /\ CandidateSeen

(* What the calls that draw leave behind. *)
LEMMA PanelType ==
    ASSUME ScreensTypeOK,
           \/ ShowTransfer \/ ClearTransfer \/ ShowStatus \/ ClearQr \/ UNCHANGED panel
           \/ \E s \in QrScreens : ShowQr(s)
    PROVE  /\ image' \in QrScreens \cup {"boot", "status", "transfer"}
           /\ transferActive' \in BOOLEAN
           /\ qrActive' \in BOOLEAN
<1>1. image' \in {image, "transfer", "status"} \cup QrScreens
    BY DEF ShowTransfer, ClearTransfer, ShowStatus, ClearQr, ShowQr, panel
<1>2. transferActive' \in {transferActive, TRUE, FALSE}
    BY DEF ShowTransfer, ClearTransfer, ShowStatus, ClearQr, ShowQr, panel
<1>3. qrActive' \in {qrActive, TRUE, FALSE}
    BY DEF ShowTransfer, ClearTransfer, ShowStatus, ClearQr, ShowQr, panel
<1> QED BY <1>1, <1>2, <1>3 DEF ScreensTypeOK

(* The window slides: the newest sample is the level just read, and those  *)
(* before it move down.                                                    *)
LEMMA WindowSlides ==
    ASSUME ScreensTypeOK, NEW level \in {High, Low}
    PROVE  /\ Window(level) \in Seq({High, Low})
           /\ Len(Window(level)) = IF Len(pin) = StableSamples + 1 THEN Len(pin) ELSE Len(pin) + 1
           /\ Window(level)[Len(Window(level))] = level
           /\ \A i \in 1 .. Len(Window(level)) - 1 :
                  Window(level)[i] = IF Len(pin) = StableSamples + 1 THEN pin[i + 1] ELSE pin[i]
<1> DEFINE samples == Append(pin, level)
<1>1. /\ samples \in Seq({High, Low})
      /\ Len(samples) = Len(pin) + 1
      /\ samples[Len(pin) + 1] = level
      /\ \A i \in 1 .. Len(pin) : samples[i] = pin[i]
    BY DEF ScreensTypeOK
<1>2. Len(pin) \in Nat /\ Len(pin) <= StableSamples + 1
    BY DEF ScreensTypeOK
<1>3. CASE Len(pin) = StableSamples + 1
    <2>1. Window(level) = Tail(samples)
        BY <1>1, <1>3, ScreensAssumption DEF Window
    <2>2. /\ Tail(samples) \in Seq({High, Low})
          /\ Len(Tail(samples)) = Len(pin)
          /\ \A i \in 1 .. Len(pin) : Tail(samples)[i] = samples[i + 1]
        BY <1>1, <1>2, <1>3, ScreensAssumption
    <2> HIDE DEF samples
    <2> QED BY <1>1, <1>2, <1>3, <2>1, <2>2, ScreensAssumption
<1>4. CASE Len(pin) # StableSamples + 1
    <2>1. Window(level) = samples
        BY <1>1, <1>2, <1>4, ScreensAssumption DEF Window
    <2> HIDE DEF samples
    <2> QED BY <1>1, <1>2, <1>4, <2>1
<1> QED BY <1>3, <1>4

LEMMA TransferStepKeeps == ScreensInv /\ TransferStep => ScreensInv'
<1> SUFFICES ASSUME ScreensInv, TransferStep PROVE ScreensInv'
    OBVIOUS
<1>1. UNCHANGED <<shown, suppressed, read, button, scannable>>
    BY DEF TransferStep, HttpOpens, HttpTransfer, BleTransfer, TransferProgress, HttpTransferEnds,
           BleTransferEnds, status
<1>2. transfers' \in [http : {"none", "opening", "install", "upload"}, ble : BOOLEAN]
    BY DEF TransferStep, HttpOpens, HttpTransfer, BleTransfer, TransferProgress, HttpTransferEnds,
           BleTransferEnds, ScreensInv, ScreensTypeOK
<1>3. facts' \in 1 .. MaxFacts + 1
    BY ScreensAssumption
    DEF TransferStep, HttpOpens, HttpTransfer, BleTransfer, TransferProgress, HttpTransferEnds,
        BleTransferEnds, NewFacts, status, ScreensInv, ScreensTypeOK
<1>4. /\ image' \in QrScreens \cup {"boot", "status", "transfer"}
      /\ transferActive' \in BOOLEAN
      /\ qrActive' \in BOOLEAN
    <2>1. CASE BleTransfer /\ Panel
        BY <2>1 DEF BleTransfer
    <2>2. CASE ~ (BleTransfer /\ Panel)
        <3>1. ShowTransfer \/ ClearTransfer \/ UNCHANGED panel
            BY <2>2 DEF TransferStep, HttpOpens, HttpTransfer, BleTransfer, TransferProgress,
                        HttpTransferEnds, BleTransferEnds
        <3> QED BY <3>1, PanelType DEF ScreensInv
    <2> QED BY <2>1, <2>2
<1>5. ScreensTypeOK'
    BY <1>1, <1>2, <1>3, <1>4 DEF ScreensInv, ScreensTypeOK, button, QrScreens, High, Low
<1>6. CandidateSeen'
    BY <1>1 DEF ScreensInv, CandidateSeen, button
<1> QED BY <1>5, <1>6 DEF ScreensInv

LEMMA StatusStepKeeps == ScreensInv /\ (StatusStep \/ FactsChange) => ScreensInv'
<1> SUFFICES ASSUME ScreensInv, StatusStep \/ FactsChange PROVE ScreensInv'
    OBVIOUS
<1>1. UNCHANGED <<transfers, button, scannable>>
    BY DEF StatusStep, StatusLooks, StatusDraws, FactsChange
<1>2. ShowStatus \/ UNCHANGED panel
    BY DEF StatusStep, StatusLooks, StatusDraws, FactsChange
<1>3. /\ image' \in QrScreens \cup {"boot", "status", "transfer"}
      /\ transferActive' \in BOOLEAN
      /\ qrActive' \in BOOLEAN
    BY <1>2, PanelType DEF ScreensInv
<1>4. suppressed' \in BOOLEAN
    <2>1. suppressed' \in {suppressed, TRUE, FALSE}
        BY DEF StatusStep, StatusLooks, StatusDraws, FactsChange
    <2> QED BY <2>1 DEF ScreensInv, ScreensTypeOK
<1>5. facts' \in 1 .. MaxFacts + 1 /\ shown' \in 0 .. MaxFacts + 1 /\ read' \in 0 .. MaxFacts + 1
    BY ScreensAssumption
    DEF StatusStep, StatusLooks, StatusDraws, FactsChange, ScreensInv, ScreensTypeOK
<1>6. ScreensTypeOK'
    BY <1>1, <1>3, <1>4, <1>5 DEF ScreensInv, ScreensTypeOK, button, QrScreens, High, Low
<1>7. CandidateSeen'
    BY <1>1 DEF ScreensInv, CandidateSeen, button
<1> QED BY <1>6, <1>7 DEF ScreensInv

LEMMA SampleKeeps == ScreensInv /\ Sample => ScreensInv'
<1> SUFFICES ASSUME ScreensInv,
                    NEW level \in {High, Low},
                    pin' = Window(level),
                    candidate' = level,
                    count' = Counted(level),
                    press = "none",
                    \/ /\ Debounced(level, count')
                       /\ stable' = level
                       /\ press' = IF level = Low /\ ~ transferActive THEN Advance(screen)
                                                                      ELSE "none"
                    \/ /\ ~ Debounced(level, count')
                       /\ UNCHANGED <<stable, press>>,
                    UNCHANGED <<panel, transfers, status, screen, scannable>>
             PROVE  ScreensInv'
    BY DEF Sample
<1>1. ScreensTypeOK
    BY DEF ScreensInv
<1>2. /\ pin' \in Seq({High, Low})
      /\ Len(pin') = IF Len(pin) = StableSamples + 1 THEN Len(pin) ELSE Len(pin) + 1
      /\ pin'[Len(pin')] = level
      /\ \A i \in 1 .. Len(pin') - 1 :
             pin'[i] = IF Len(pin) = StableSamples + 1 THEN pin[i + 1] ELSE pin[i]
    BY <1>1, WindowSlides
<1>3. Len(pin) \in Nat /\ Len(pin) <= StableSamples + 1
    BY <1>1 DEF ScreensTypeOK
<1>4. count' \in 0 .. StableSamples
    BY <1>1, ScreensAssumption DEF Counted, ScreensTypeOK
<1>5. ScreensTypeOK'
    <2>1. press' \in QrScreens \cup {"none", "status"}
        BY DEF Advance, QrScreens
    <2>2. stable' \in {High, Low}
        BY <1>1 DEF ScreensTypeOK
    <2>3. Len(pin') <= StableSamples + 1
        BY <1>2, <1>3, ScreensAssumption
    <2> QED BY <1>1, <1>2, <1>4, <2>1, <2>2, <2>3
            DEF ScreensTypeOK, panel, status, QrScreens, High, Low
<1>6. CandidateSeen'
    <2>1. SUFFICES ASSUME level # stable'
                   PROVE  /\ count' < StableSamples
                          /\ Len(pin') >= count' + 1
                          /\ \A i \in Len(pin') - count' .. Len(pin') : pin'[i] = level
        BY DEF CandidateSeen
    <2>2. stable' = stable /\ level # stable
        BY <2>1
    <2>3. count' < StableSamples
        BY <1>4, <2>1, <2>2, ScreensAssumption DEF Debounced
    <2>4. CASE level # candidate
        <3>1. count' = 0
            BY <2>4 DEF Counted
        <3>2. Len(pin') \in Nat /\ Len(pin') >= 1
            BY <1>2, <1>3, ScreensAssumption
        <3>3. ASSUME NEW i \in Len(pin') - count' .. Len(pin') PROVE i = Len(pin')
            BY <3>1, <3>2
        <3> QED BY <1>2, <2>3, <3>1, <3>2, <3>3
    <2>5. CASE level = candidate
        <3>1. /\ count < StableSamples
              /\ Len(pin) >= count + 1
              /\ \A i \in Len(pin) - count .. Len(pin) : pin[i] = level
            BY <2>2, <2>5 DEF ScreensInv, CandidateSeen
        <3>2. count' = count + 1 /\ count \in Nat
            BY <1>1, <2>5, <3>1 DEF Counted, ScreensTypeOK
        <3>3. Len(pin') >= count' + 1
            BY <1>2, <1>3, <2>3, <3>1, <3>2, ScreensAssumption
        <3>4. ASSUME NEW i \in Len(pin') - count' .. Len(pin') PROVE pin'[i] = level
            <4>1. CASE i = Len(pin')
                BY <1>2, <4>1
            <4>2. CASE i # Len(pin')
                <5>1. i \in 1 .. Len(pin') - 1
                    BY <1>2, <1>3, <3>2, <3>3, <4>2, ScreensAssumption
                <5>2. CASE Len(pin) = StableSamples + 1
                    BY <1>2, <1>3, <3>1, <3>2, <5>1, <5>2, ScreensAssumption
                <5>3. CASE Len(pin) # StableSamples + 1
                    BY <1>2, <1>3, <3>1, <3>2, <5>1, <5>3, ScreensAssumption
                <5> QED BY <5>2, <5>3
            <4> QED BY <4>1, <4>2
        <3> QED BY <2>3, <3>3, <3>4
    <2> QED BY <2>4, <2>5
<1> QED BY <1>5, <1>6 DEF ScreensInv

LEMMA PressKeeps == ScreensInv /\ (PressEncodes \/ PressDraws \/ PressReturns) => ScreensInv'
<1> SUFFICES ASSUME ScreensInv, PressEncodes \/ PressDraws \/ PressReturns PROVE ScreensInv'
    OBVIOUS
<1>1. UNCHANGED <<transfers, status, pin, stable, candidate, count, scannable>>
    BY DEF PressEncodes, PressDraws, PressReturns
<1>2. ClearQr \/ UNCHANGED panel \/ \E s \in QrScreens : ShowQr(s)
    BY DEF PressEncodes, PressDraws, PressReturns, QrScreens
<1>3. /\ image' \in QrScreens \cup {"boot", "status", "transfer"}
      /\ transferActive' \in BOOLEAN
      /\ qrActive' \in BOOLEAN
    BY <1>2, PanelType DEF ScreensInv
<1>4. /\ screen' \in QrScreens \cup {"status"}
      /\ press' \in QrScreens \cup {"none", "status", "drawJoin", "drawReader"}
    BY DEF PressEncodes, PressDraws, PressReturns, Advance, QrScreens, ScreensInv, ScreensTypeOK
<1>5. ScreensTypeOK'
    BY <1>1, <1>3, <1>4 DEF ScreensInv, ScreensTypeOK, status, QrScreens, High, Low
<1>6. CandidateSeen'
    BY <1>1 DEF ScreensInv, CandidateSeen
<1> QED BY <1>5, <1>6 DEF ScreensInv

LEMMA ScreensInitial == ScreensInit => ScreensInv
<1> SUFFICES ASSUME ScreensInit PROVE ScreensInv
    OBVIOUS
<1>1. image \in QrScreens \cup {"boot", "status", "transfer"} /\ scannable \subseteq QrScreens
    BY DEF ScreensInit, QrScreens
<1>2. transferActive \in BOOLEAN /\ qrActive \in BOOLEAN /\ suppressed \in BOOLEAN
    BY DEF ScreensInit
<1>3. transfers \in [http : {"none", "opening", "install", "upload"}, ble : BOOLEAN]
    BY DEF ScreensInit
<1>4. facts \in 1 .. MaxFacts + 1 /\ shown \in 0 .. MaxFacts + 1 /\ read \in 0 .. MaxFacts + 1
    BY ScreensAssumption DEF ScreensInit
<1>5. pin \in Seq({High, Low}) /\ Len(pin) <= StableSamples + 1 /\ count \in 0 .. StableSamples
    BY ScreensAssumption DEF ScreensInit
<1> QED BY <1>1, <1>2, <1>3, <1>4, <1>5 DEF ScreensInit, ScreensInv, ScreensTypeOK, CandidateSeen

LEMMA ScreensStepKeeps == ScreensInv /\ ScreensNext => ScreensInv'
BY TransferStepKeeps, StatusStepKeeps, SampleKeeps, PressKeeps
DEF ScreensNext, ButtonStep

LEMMA ScreensStutter == ScreensInv /\ UNCHANGED screenVars => ScreensInv'
BY DEF ScreensInv, ScreensTypeOK, CandidateSeen, screenVars, panel, status, button,
       QrScreens, High, Low

LEMMA ScreensInvariance == ScreensSpec => []ScreensInv
<1>1. ScreensInv /\ [ScreensNext]_screenVars => ScreensInv'
    BY ScreensStepKeeps, ScreensStutter
<1> QED BY ScreensInitial, <1>1, PTL DEF ScreensSpec

(* The variables of the panel and its tasks keep their types: the static   *)
(* state of oled_display.c, boot_button.c and app_main.c.                  *)
THEOREM ScreensTypeCorrect == ScreensSpec => []ScreensTypeOK
<1>1. ScreensInv => ScreensTypeOK
    BY DEF ScreensInv
<1> QED BY ScreensInvariance, <1>1, PTL

LEMMA OnlySampleSettles ==
    ScreensNext => \/ Sample
                   \/ /\ UNCHANGED stable
                      /\ press = "none" => UNCHANGED press
BY DEF ScreensNext, TransferStep, HttpOpens, HttpTransfer, BleTransfer, TransferProgress,
       HttpTransferEnds, BleTransferEnds, FactsChange, StatusStep, StatusLooks, StatusDraws,
       ButtonStep, PressEncodes, PressDraws, PressReturns, status, button, QrScreens

(* Contact bounce advances nothing, and one hold advances the cycle of     *)
(* screens by one, for any number of samples a level must last             *)
(* (boot_button.c:115-132).                                                *)
THEOREM PressesAreHeld == ScreensSpec => PressIsHeld
<1> DEFINE Held == /\ stable' # stable => /\ Len(pin') = StableSamples + 1
                                          /\ \A i \in 1 .. Len(pin') : pin'[i] = stable'
                   /\ press = "none" /\ press' # "none" => stable = High /\ stable' = Low
<1>1. ASSUME ScreensInv, Sample PROVE Held
    <2>1. PICK level \in {High, Low} :
             /\ pin' = Window(level)
             /\ candidate' = level
             /\ count' = Counted(level)
             /\ \/ /\ Debounced(level, count')
                   /\ stable' = level
                   /\ press' = IF level = Low /\ ~ transferActive THEN Advance(screen) ELSE "none"
                \/ /\ ~ Debounced(level, count')
                   /\ UNCHANGED <<stable, press>>
        BY <1>1 DEF Sample
    <2>2. CASE ~ Debounced(level, count')
        BY <2>1, <2>2
    <2>3. CASE Debounced(level, count')
        <3>1. stable' = level /\ level # stable /\ count' = StableSamples
            BY <2>1, <2>3 DEF Debounced
        <3>2. level = candidate /\ (count = StableSamples - 1 \/ count = StableSamples)
            BY <1>1, <2>1, <3>1, ScreensAssumption DEF Counted, ScreensInv, ScreensTypeOK
        <3>3. /\ count = StableSamples - 1
              /\ Len(pin) >= count + 1
              /\ \A i \in Len(pin) - count .. Len(pin) : pin[i] = level
            BY <1>1, <3>1, <3>2, ScreensAssumption DEF ScreensInv, CandidateSeen
        <3>4. Len(pin) \in Nat /\ Len(pin) <= StableSamples + 1
            BY <1>1 DEF ScreensInv, ScreensTypeOK
        <3>5. /\ Len(pin') = IF Len(pin) = StableSamples + 1 THEN Len(pin) ELSE Len(pin) + 1
              /\ pin'[Len(pin')] = level
              /\ \A i \in 1 .. Len(pin') - 1 :
                     pin'[i] = IF Len(pin) = StableSamples + 1 THEN pin[i + 1] ELSE pin[i]
            BY <1>1, <2>1, WindowSlides DEF ScreensInv
        <3>6. Len(pin') = StableSamples + 1
            BY <3>3, <3>4, <3>5, ScreensAssumption
        <3>7. ASSUME NEW i \in 1 .. Len(pin') PROVE pin'[i] = level
            BY <3>3, <3>4, <3>5, <3>6, ScreensAssumption
        <3>8. press = "none" /\ press' # "none" => stable = High /\ stable' = Low
            BY <1>1, <2>1, <2>3, <3>1 DEF ScreensInv, ScreensTypeOK
        <3> QED BY <3>1, <3>6, <3>7, <3>8
    <2> QED BY <2>2, <2>3
<1>2. ScreensInv /\ [ScreensNext]_screenVars => [Held]_screenVars
    BY <1>1, OnlySampleSettles
<1> QED BY ScreensInvariance, <1>2, PTL DEF ScreensSpec, PressIsHeld

------------------------------------------------------------------------------
(* The station beside the panel. *)

(* A download has the transfer screen up as long as it runs, if there is a *)
(* panel: the BLE session that could take it down is closed by then.       *)
DownloadIsShown == Panel /\ transfers.http = "install" => transferActive

DeviceInv == StationInv /\ ScreensInv /\ DownloadIsShown

LEMMA DownloadShownKeeps == DeviceInv /\ ScreensNext => DownloadIsShown'
<1> SUFFICES ASSUME DeviceInv, ScreensNext, Panel, transfers'.http = "install"
             PROVE  transferActive'
    BY DEF DownloadIsShown
<1>1. CASE HttpOpens \/ \E kind \in {"install", "upload"} : HttpTransfer(kind)
    BY <1>1 DEF HttpOpens, HttpTransfer, ShowTransfer, DeviceInv, ScreensInv, ScreensTypeOK
<1>2. CASE BleTransfer
    BY <1>2 DEF BleTransfer
<1>3. CASE TransferProgress
    BY <1>3 DEF TransferProgress, ShowTransfer
<1>4. CASE HttpTransferEnds \/ BleTransferEnds
    BY <1>4 DEF HttpTransferEnds, BleTransferEnds, BleHostUp, DeviceInv, ScreensInv, ScreensTypeOK
<1>5. CASE FactsChange \/ StatusStep \/ ButtonStep
    <2>1. UNCHANGED <<transfers, transferActive>>
        BY <1>5 DEF FactsChange, StatusStep, StatusLooks, StatusDraws, ButtonStep, Sample,
                    PressEncodes, PressDraws, PressReturns, ShowStatus, ShowQr, ClearQr, panel
    <2> QED BY <2>1 DEF DeviceInv, DownloadIsShown
<1> QED BY <1>1, <1>2, <1>3, <1>4, <1>5 DEF ScreensNext, TransferStep

LEMMA DeviceInvariance == DeviceSpec => []DeviceInv
<1>1. StationInit /\ ScreensInit => DeviceInv
    BY StationInitial, ScreensInitial DEF DeviceInv, DownloadIsShown, ScreensInit
<1>2. DeviceInv /\ [DeviceNext]_deviceVars => DeviceInv'
    <2> SUFFICES ASSUME DeviceInv, [DeviceNext]_deviceVars PROVE DeviceInv'
        OBVIOUS
    <2>1. CASE StationNext(transferActive) /\ UNCHANGED screenVars
        <3>1. transferActive \in BOOLEAN
            BY DEF DeviceInv, ScreensInv, ScreensTypeOK
        <3>2. StationInv'
            BY <2>1, <3>1, StationStepKeeps DEF DeviceInv
        <3> QED BY <2>1, <3>2, ScreensStutter DEF DeviceInv, DownloadIsShown, screenVars, panel
    <2>2. CASE ScreensNext /\ UNCHANGED stationVars
        BY <2>2, ScreensStepKeeps, StationStutters, DownloadShownKeeps DEF DeviceInv
    <2>3. CASE UNCHANGED deviceVars
        BY <2>3, ScreensStutter, StationStutters
        DEF DeviceInv, DownloadIsShown, deviceVars, screenVars, panel
    <2> QED BY <2>1, <2>2, <2>3 DEF DeviceNext
<1> QED BY <1>1, <1>2, PTL DEF DeviceSpec

(* With a panel, the uplink timer never drops the uplink of a download     *)
(* whose first frame was shown (wifi_ap.c:203, web_server.c:1930), through *)
(* every interleaving of the handlers, the timers, the button and the      *)
(* status task.  Before that frame, and on a board without a panel, it     *)
(* can: TransferKeepsUplink and DownloadKeepsUplink are refuted there.     *)
THEOREM PanelKeepsDownload ==
    ASSUME Panel
    PROVE  DeviceSpec => DownloadKeepsUplink
<1>1. DeviceInv /\ [DeviceNext]_deviceVars => [Drops => transfers.http # "install"]_deviceVars
    <2> SUFFICES ASSUME DeviceInv, DeviceNext, Drops PROVE transfers.http # "install"
        OBVIOUS
    <2>1. StationNext(transferActive)
        BY DEF DeviceNext, Drops, stationVars
    <2>2. UplinkTimer(transferActive)
        BY <2>1 DEF StationNext, Drops, DriverStep, ReconnectTimer, HandleEvent, SetterStep,
                    SaveSsid, SavePass, Detach, ApplyConfig, ApplyConnect
    <2>3. ~ transferActive
        BY <2>2 DEF UplinkTimer, Judged, Drops
    <2> QED BY <2>3 DEF DeviceInv, DownloadIsShown
<1> QED BY DeviceInvariance, <1>1, PTL DEF DeviceSpec, DownloadKeepsUplink
==============================================================================
