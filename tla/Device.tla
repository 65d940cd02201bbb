------------------------------- MODULE Device --------------------------------
(***************************************************************************)
(* The station of WifiStation beside the panel of Screens.  What joins     *)
(* them is one flag: the uplink timer leaves a weak uplink alone while     *)
(* oled_transfer_active() says that the transfer screen is up.             *)
(***************************************************************************)
EXTENDS WifiStation, Screens

deviceVars == <<stationVars, screenVars>>

(* The transfers as far as the uplink is concerned: the rest of the panel  *)
(* stands still.                                                           *)
UplinkTransfer ==
    /\ UNCHANGED facts
    /\ \/ HttpOpens \/ HttpTransfer("install") \/ BleTransfer \/ TransferProgress
       \/ HttpTransferEnds \/ BleTransferEnds

UplinkNext ==
    \/ StationNext(transferActive) /\ UNCHANGED screenVars
    \/ UplinkTransfer /\ UNCHANGED stationVars

UplinkInit == StationInit /\ ScreensInit /\ stable = High /\ scannable = {"reader"}

(* The whole panel beside the whole station. *)
DeviceNext ==
    \/ StationNext(transferActive) /\ UNCHANGED screenVars
    \/ ScreensNext /\ UNCHANGED stationVars

DeviceSpec == StationInit /\ ScreensInit /\ [][DeviceNext]_deviceVars

Drops == suspended' /\ ~ suspended

(* The uplink timer leaves alone the uplink that a download on the device  *)
(* is reading its pack from: from the first frame of the transfer on, the  *)
(* flag of the screen says so (wifi_ap.c:203, web_server.c:1930).          *)
DownloadKeepsUplink == [][Drops => transfers.http # "install"]_deviceVars

(* "A pack transfer in progress is never interrupted" (docs/HARDWARE.md:29, *)
(* wifi_ap.c:204): nor while the install connects, negotiates TLS and      *)
(* waits for the headers (web_server.c:1904-1930), before that frame.      *)
TransferKeepsUplink ==
    [][Drops => transfers.http \notin {"opening", "install"}]_deviceVars
==============================================================================
