----------------------------- MODULE WifiStation -----------------------------
(***************************************************************************)
(* The station side of wifi_ap.c: the event handler, the reconnect timer,  *)
(* the uplink timer that drops a hopeless link, and wifi_ap_set_station(), *)
(* which the httpd task and the BLE host task both call, with no lock      *)
(* between them.  The access point shares the radio, so an attempt to join *)
(* a network takes the reader off the air.                                 *)
(*                                                                         *)
(* The driver (esp_wifi, esp_event) is external: it joins, fails or loses  *)
(* a network and posts one event for each.  It refuses a new configuration *)
(* or a new attempt while one is under way, and may fail either call for a *)
(* reason of its own.  A timer callback runs above the tasks it            *)
(* interrupts, so it is one step.                                          *)
(***************************************************************************)
EXTENDS Naturals, Sequences

CONSTANTS
    Networks,      \* networks a user can choose
    NoNetwork,     \* the empty SSID: the station is not configured
    Setters,       \* the tasks that call wifi_ap_set_station()
    WeakSamples,   \* PW_STA_WEAK_SAMPLES
    Retries,       \* how often set_station retries a busy driver
    BackoffSteps,  \* doublings from PW_RECONNECT_FIRST_MS to the cap
    MaxEvents      \* bound: events the driver has in flight by itself

ASSUME StationAssumption ==
    /\ NoNetwork \notin Networks
    /\ WeakSamples \in Nat \ {0}
    /\ Retries \in Nat
    /\ BackoffSteps \in Nat
    /\ MaxEvents \in Nat \ {0}

VARIABLES
    saved,          \* wifi_ssid and wifi_pass in NVS, each by the network it is for
    ssid,           \* s_ssid
    connected,      \* s_connected
    reason,         \* s_reason is not zero
    suspended,      \* s_sta_suspended
    reconfiguring,  \* s_reconfiguring
    weak,           \* s_weak_samples
    retry,          \* the reconnect timer is armed
    attempts,       \* s_reconnect_attempts, up to the one that reaches the cap
    link,           \* the driver's station
    config,         \* the network the driver is configured for
    events,         \* posted to the event loop, not yet handled
    setting,        \* where each task is in wifi_ap_set_station()
    refused         \* history: an idle driver failed a call of wifi_ap_set_station()
                    \* or wifi_ap_init(), and no attempt was begun or scheduled since

pacing == <<retry, attempts>>
driver == <<link, config, events>>
stationVars == <<saved, ssid, connected, reason, suspended, reconfiguring,
                 weak, pacing, driver, setting, refused>>

Ssids == Networks \cup {NoNetwork}
Settled == [phase |-> "none", network |-> NoNetwork, tries |-> 0]
Occupied == {"connecting", "leaving"}

StationTypeOK ==
    /\ saved \in [ssid : Ssids, pass : Ssids]
    /\ ssid \in Ssids
    /\ connected \in BOOLEAN
    /\ reason \in BOOLEAN
    /\ suspended \in BOOLEAN
    /\ reconfiguring \in BOOLEAN
    /\ weak \in 0 .. WeakSamples - 1
    /\ retry \in BOOLEAN
    /\ attempts \in 0 .. BackoffSteps
    /\ link \in {"idle", "up"} \cup Occupied
    /\ config \in Ssids
    /\ events \in Seq({"disconnected", "gotIp"})
    /\ setting \in [Setters ->
                      [phase : {"none", "pass", "detach", "apply", "connect"},
                       network : Ssids, tries : 0 .. Retries]]
    /\ refused \in BOOLEAN

------------------------------------------------------------------------------
(* The driver. *)

Post(e) == events' = Append(events, e)

(* esp_wifi_disconnect(): a connection ends at once, an attempt takes time *)
(* to settle; either way the handler hears of it.                          *)
DriverDisconnects ==
    /\ link' = CASE link = "up" -> "idle"
                 [] link = "connecting" -> "leaving"
                 [] OTHER -> link
    /\ IF link = "up" THEN Post("disconnected") ELSE UNCHANGED events

(* esp_wifi_connect(): the station must be idle, and even then it may fail, *)
(* which leaves the station as it is.                                      *)
DriverConnects == link = "idle" /\ link' = "connecting"

(* The outcome of an attempt, the loss of a connection, the end of a       *)
(* disconnect the driver was still working on.                             *)
DriverStep ==
    /\ Len(events) < MaxEvents
    /\ \/ link = "connecting" /\ link' = "up" /\ Post("gotIp")
       \/ link \in {"connecting", "up", "leaving"} /\ link' = "idle" /\ Post("disconnected")
    /\ UNCHANGED <<saved, ssid, connected, reason, suspended, reconfiguring,
                   weak, pacing, config, setting, refused>>

------------------------------------------------------------------------------
(* Retries: 1 s, doubling to 30 s. *)

ScheduleOnce ==                             \* and gives up after it
    IF suspended \/ attempts > 0 THEN UNCHANGED pacing ELSE retry' = TRUE /\ attempts' = 1

(* schedule_station_reconnect() *)
ScheduleReconnect ==
    IF suspended THEN UNCHANGED pacing
    ELSE /\ retry' = TRUE
         /\ attempts' = IF attempts < BackoffSteps THEN attempts + 1 ELSE attempts

ForgetBackoff == attempts' = 0 /\ UNCHANGED retry      \* without stopping the timer

(* cancel_station_reconnect() *)
CancelReconnect == retry' = FALSE /\ attempts' = 0

(* reconnect_timer_cb() *)
ReconnectTimer ==
    /\ retry
    /\ IF ssid = NoNetwork \/ connected \/ reconfiguring
       THEN retry' = FALSE /\ UNCHANGED <<attempts, link>>
       ELSE \/ DriverConnects /\ retry' = FALSE /\ UNCHANGED attempts
            \/ ScheduleReconnect /\ UNCHANGED link
    /\ UNCHANGED <<saved, ssid, connected, reason, suspended, reconfiguring,
                   weak, config, events, setting, refused>>

------------------------------------------------------------------------------
(* The event handler. *)

Disconnected ==
    /\ connected' = FALSE
    /\ reason' = TRUE
    /\ IF ssid = NoNetwork \/ suspended \/ reconfiguring
       THEN UNCHANGED pacing
       ELSE ScheduleReconnect

GotIp ==
    /\ connected' = TRUE
    /\ reason' = FALSE
    /\ CancelReconnect

(* wifi_event() *)
HandleEvent ==
    /\ events # <<>>
    /\ events' = Tail(events)
    /\ IF Head(events) = "gotIp" THEN GotIp ELSE Disconnected
    /\ refused' = (refused /\ ~ retry')
    /\ UNCHANGED <<saved, ssid, suspended, reconfiguring, weak, link, config, setting>>

------------------------------------------------------------------------------
(* uplink_timer_cb(), once a second; `busy` is oled_transfer_active().     *)
(* Five samples take five seconds: none of them falls between the two      *)
(* calls apply_station() makes to the driver, which reset the count.       *)

DropUplink ==
    /\ suspended' = TRUE
    /\ weak' = 0
    /\ DriverDisconnects

JudgedAlways(busy) == connected /\ ~ suspended         \* in a transfer too
Judged(busy) == connected /\ ~ suspended /\ ~ busy

UplinkTimer(busy) ==
    /\ \A t \in Setters : setting[t].phase # "connect"
    /\ \/ /\ ~ Judged(busy)
          /\ weak' = 0
          /\ UNCHANGED <<suspended, link, events>>
       \/ /\ Judged(busy) /\ link = "up"
          /\ \/ weak' = 0 /\ UNCHANGED <<suspended, link, events>>
             \/ IF weak + 1 < WeakSamples
                THEN weak' = weak + 1 /\ UNCHANGED <<suspended, link, events>>
                ELSE DropUplink
    /\ UNCHANGED <<saved, ssid, connected, reason, reconfiguring, pacing, config, setting,
                   refused>>

------------------------------------------------------------------------------
(* wifi_ap_set_station(), by a request or a Bluetooth write: two values    *)
(* into NVS, then the running station.  NVS may refuse the second value;   *)
(* a driver that fails a call ends the request there and then, and nothing *)
(* schedules another attempt.                                              *)

SetPhase(t, phase) == setting' = [setting EXCEPT ![t].phase = phase]
SettingDone(t) ==
    /\ setting' = [setting EXCEPT ![t] = Settled]
    /\ reconfiguring' = FALSE

DriverFails == refused' = (link = "idle" /\ ~ retry')
Retried(t) ==                                   \* ESP_ERR_WIFI_STATE, 100 ms later
    /\ setting[t].tries < Retries
    /\ setting' = [setting EXCEPT ![t].phase = "apply", ![t].tries = @ + 1]
    /\ UNCHANGED reconfiguring

SaveSsid(t, n) ==
    /\ setting[t].phase = "none"
    /\ saved' = [saved EXCEPT !.ssid = n]
    /\ setting' = [setting EXCEPT ![t] = [phase |-> "pass", network |-> n, tries |-> 0]]
    /\ UNCHANGED <<ssid, connected, reason, suspended, reconfiguring, weak, pacing, driver,
                   refused>>

SavePass(t) ==
    /\ setting[t].phase = "pass"
    /\ \/ saved' = [saved EXCEPT !.pass = setting[t].network] /\ SetPhase(t, "detach")
       \/ UNCHANGED saved /\ setting' = [setting EXCEPT ![t] = Settled]
    /\ UNCHANGED <<ssid, connected, reason, suspended, reconfiguring, weak, pacing, driver,
                   refused>>

Detach(t) ==
    /\ setting[t].phase = "detach"
    /\ reconfiguring' = TRUE
    /\ DriverDisconnects
    /\ SetPhase(t, "apply")
    /\ UNCHANGED <<saved, ssid, connected, reason, suspended, weak, pacing, config, refused>>

(* apply_station() up to esp_wifi_set_config(), which a busy driver        *)
(* refuses; the loop tries again 100 ms later and gives up in the end.     *)
(* The driver settles in less than 100 ms, so the last try does not find   *)
(* it leaving.  Any other error leaves the loop at once: the network that  *)
(* was disconnected for it stays the one s_ssid names.                     *)
ApplyConfig(t) ==
    /\ setting[t].phase = "apply"
    /\ setting[t].tries < Retries \/ link # "leaving"
    /\ suspended' = FALSE
    /\ weak' = 0
    /\ CancelReconnect
    /\ \/ /\ link \notin Occupied
          /\ config' = setting[t].network
          /\ SetPhase(t, "connect")
          /\ UNCHANGED <<reconfiguring, refused>>
       \/ link \in Occupied /\ Retried(t) /\ UNCHANGED <<config, refused>>
       \/ /\ SettingDone(t)
          /\ DriverFails
          /\ UNCHANGED config
    /\ UNCHANGED <<saved, ssid, connected, reason, link, events>>

(* The rest of apply_station(): the network is remembered and joined, or   *)
(* the driver fails that call too.  The attempt outlasts the few           *)
(* instructions left in wifi_ap_set_station().                             *)
ApplyConnect(t) ==
    /\ setting[t].phase = "connect"
    /\ ssid' = setting[t].network
    /\ connected' = FALSE
    /\ UNCHANGED <<saved, reason, suspended, weak, pacing, config, events>>
    /\ \/ setting[t].network = NoNetwork /\ SettingDone(t) /\ UNCHANGED <<link, refused>>
       \/ /\ setting[t].network # NoNetwork
          /\ \/ DriverConnects /\ SettingDone(t) /\ refused' = FALSE
             \/ DriverFails /\ SettingDone(t) /\ UNCHANGED link
             \/ Retried(t) /\ UNCHANGED <<link, refused>>

SetterStep(t) ==
    \/ SavePass(t) \/ Detach(t) \/ ApplyConfig(t) \/ ApplyConnect(t)

------------------------------------------------------------------------------
(* wifi_ap_init(): the saved network, if there is one, is applied, and     *)
(* whether that succeeds is ignored.                                       *)
StationInit ==
    /\ \E n \in Ssids :
          /\ saved = [ssid |-> n, pass |-> n]
          /\ ssid = n
          /\ \/ n = NoNetwork /\ config = n /\ link = "idle" /\ refused = FALSE
             \/ n # NoNetwork /\ config = n /\ link = "connecting" /\ refused = FALSE
             \/ n # NoNetwork /\ config \in {n, NoNetwork} /\ link = "idle" /\ refused = TRUE
    /\ connected = FALSE
    /\ reason = FALSE
    /\ suspended = FALSE
    /\ reconfiguring = FALSE
    /\ weak = 0
    /\ retry = FALSE
    /\ attempts = 0
    /\ events = <<>>
    /\ setting = [t \in Setters |-> Settled]

StationNext(busy) ==
    \/ DriverStep
    \/ ReconnectTimer
    \/ HandleEvent
    \/ UplinkTimer(busy)
    \/ \E t \in Setters : SetterStep(t) \/ \E n \in Ssids : SaveSsid(t, n)

(* The station by itself: the transfer screen is up or not at any time.    *)
StationSpec == StationInit /\ [][\E busy \in BOOLEAN : StationNext(busy)]_stationVars

------------------------------------------------------------------------------

(* While a connection lasts, and after a hopeless one was dropped, nothing *)
(* makes the radio leave the access point: no retry is pending, and a      *)
(* dropped uplink is not attempted again until a network is set            *)
(* (uplink_timer_cb, wifi_event, reconnect_timer_cb).                      *)
RadioLeftToAccessPoint ==
    /\ connected \/ suspended => ~ retry
    /\ suspended => link \notin {"connecting", "up"}

(* A configured station that is down does not stay down unattended: it is  *)
(* tried again, unless the uplink is dropped for its signal, the network   *)
(* forgotten, or the last call of a request failed in the driver, after    *)
(* which the code leaves the station alone (wifi_ap.c:236-240, 287, 290,   *)
(* 369, 391).  One event per attempt carries this through every            *)
(* interleaving of set_station, the event loop and the timer.              *)
StationTried ==
    (link = "idle" /\ ssid # NoNetwork /\ ~ suspended /\ ~ refused)
        ~> (link # "idle" \/ ssid = NoNetwork \/ suspended \/ refused)
==============================================================================
