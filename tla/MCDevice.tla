------------------------------ MODULE MCDevice ------------------------------
(***************************************************************************)
(* The long-running work of the device for TLC, one part at a time: an     *)
(* install (PackInstall), the station (WifiStation), the station with the  *)
(* transfers that hold its uplink (Device), and the panel with everything  *)
(* that draws on it (Screens).  The parts that are not chosen stand still  *)
(* in one state.                                                           *)
(***************************************************************************)
EXTENDS PackInstall, Device

CONSTANTS
    Subjects,       \* the parts
    UplinkSetters   \* bound: the tasks that set a network while transfers run

VARIABLE subject    \* the part this behaviour is about

(* Three bodies: the catalogue lists the second, which is as long as the   *)
(* first; the third is longer.                                             *)
MCVersions == 1 .. 3
MCLength == <<2, 2, 3>>

allVars == <<vars, deviceVars, subject>>

StationStill == StationInit /\ ssid = NoNetwork
ScreensStill == ScreensInit /\ stable = High /\ scannable = {"reader"}
InstallStill == Init

MCInit ==
    /\ subject \in Subjects
    /\ IF subject = "install" THEN Init ELSE InstallStill
    /\ IF subject = "uplink" THEN UplinkInit
       ELSE /\ IF subject = "station" THEN StationInit ELSE StationStill
            /\ IF subject = "panel" THEN ScreensInit ELSE ScreensStill

MCNext ==
    /\ UNCHANGED subject
    /\ \/ subject = "install" /\ Next /\ UNCHANGED deviceVars
       \/ subject = "station" /\ StationNext(FALSE) /\ UNCHANGED <<screenVars, vars>>
       \/ /\ subject = "uplink" /\ UplinkNext /\ UNCHANGED vars
          /\ \A t \in Setters \ UplinkSetters : setting'[t] = setting[t]
       \/ subject = "panel" /\ ScreensNext /\ UNCHANGED <<stationVars, vars>>

(* The tasks and handlers of the chosen part run.  The user, the pack      *)
(* server and the signal need not.  A driver that is idle and asked again  *)
(* and again takes an attempt in the end.                                  *)
StationRuns(A) == subject \in {"station", "uplink"} /\ A /\ UNCHANGED <<screenVars, vars, subject>>

MCFairness ==
    /\ WF_allVars(subject = "install" /\ Handler /\ UNCHANGED <<deviceVars, subject>>)
    /\ WF_allVars(subject = "panel" /\ StatusStep /\ UNCHANGED <<stationVars, vars, subject>>)
    /\ WF_allVars(StationRuns(DriverStep))
    /\ WF_allVars(StationRuns(HandleEvent))
    /\ WF_allVars(StationRuns(ReconnectTimer))
    /\ WF_allVars(StationRuns(ReconnectTimer /\ DriverConnects))
    /\ \A t \in Setters : WF_allVars(StationRuns(SetterStep(t)))

MCSpec == MCInit /\ [][MCNext]_allVars /\ MCFairness

(* Every variable keeps its type: the handler's, the station's, the        *)
(* panel's (the static state of web_server.c, wifi_ap.c, oled_display.c).  *)
TypesOK == TypeOK /\ StationTypeOK /\ ScreensTypeOK
=============================================================================
