------------------------------- MODULE Screens -------------------------------
(***************************************************************************)
(* The one panel of oled_display.c and the tasks that draw on it: the web  *)
(* server and the BLE service show a transfer, the BOOT button of          *)
(* boot_button.c walks through the QR screens, and the status task of      *)
(* app_main.c draws the status whenever neither owns the panel.  They      *)
(* share two flags and take no lock; a call that draws is one step, what   *)
(* a task decides before it calls is another.  A layout is a name.         *)
(***************************************************************************)
EXTENDS Naturals, Sequences

CONSTANTS
    Panel,          \* s_ok: a display was found at boot
    StableSamples,  \* PW_BUTTON_STABLE_SAMPLES
    MaxFacts        \* bound: how often what the status shows may change

ASSUME ScreensAssumption ==
    /\ Panel \in BOOLEAN
    /\ StableSamples \in Nat \ {0}
    /\ MaxFacts \in Nat

VARIABLES
    image,          \* what the panel shows
    transferActive, \* s_transfer_active; s_last_transfer_pct is set with it
    qrActive,       \* s_qr_active
    transfers,      \* in progress: an install that is opening its connection or has shown
                    \* its first frame, or an upload; a BLE session
    facts,          \* what the status would show: counts, storage, the uplink
    shown,          \* the last_* variables of the status task, 0 when forced
    suppressed,     \* last_suppressed
    read,           \* the facts the status task has read, 0 while it sleeps
    screen,         \* s_screen
    press,          \* the screen the button task is about to show, or "none"
    scannable,      \* the QR payloads that fit the panel
    pin,            \* the samples of the button: the last ones, newest last
    stable,         \* the debounced level
    candidate,      \* the level being debounced
    count           \* consecutive samples at that level

panel == <<image, transferActive, qrActive>>
status == <<facts, shown, suppressed, read>>
button == <<screen, press, pin, stable, candidate, count>>
screenVars == <<panel, transfers, status, button, scannable>>

QrScreens == {"join", "reader"}
High == 1                       \* the button is active low
Low == 0

ScreensTypeOK ==
    /\ image \in QrScreens \cup {"boot", "status", "transfer"}
    /\ transferActive \in BOOLEAN
    /\ qrActive \in BOOLEAN
    /\ transfers \in [http : {"none", "opening", "install", "upload"}, ble : BOOLEAN]
    /\ facts \in 1 .. MaxFacts + 1
    /\ shown \in 0 .. MaxFacts + 1
    /\ suppressed \in BOOLEAN
    /\ read \in 0 .. MaxFacts + 1
    /\ screen \in QrScreens \cup {"status"}
    /\ press \in QrScreens \cup {"none", "status", "drawJoin", "drawReader"}
    /\ scannable \subseteq QrScreens
    /\ pin \in Seq({High, Low}) /\ Len(pin) <= StableSamples + 1
    /\ stable \in {High, Low}
    /\ candidate \in {High, Low}
    /\ count \in 0 .. StableSamples

------------------------------------------------------------------------------
(* The calls that draw. *)

(* oled_show_transfer(): a frame with the same percentage as the last one, *)
(* less than 250 ms after it, is skipped; the first and the last are not.  *)
ShowTransfer ==
    IF ~ Panel THEN UNCHANGED panel
    ELSE /\ qrActive' = FALSE
         /\ \/ image' = "transfer" /\ transferActive' = TRUE
            \/ transferActive /\ UNCHANGED <<image, transferActive>>

(* oled_clear_transfer() *)
ClearTransfer == transferActive' = FALSE /\ UNCHANGED <<image, qrActive>>

(* oled_show_status(): "a direct status draw takes the screen back" *)
ShowStatus ==
    IF ~ Panel THEN UNCHANGED panel
    ELSE /\ qrActive' = FALSE
         /\ image' = "status"
         /\ UNCHANGED transferActive

(* oled_show_qr() after its checks: the symbol is drawn and marked. *)
ShowQr(s) ==
    /\ qrActive' = TRUE
    /\ image' = s
    /\ UNCHANGED transferActive

(* oled_clear_qr() *)
ClearQr == qrActive' = FALSE /\ UNCHANGED <<image, transferActive>>

------------------------------------------------------------------------------
(* Transfers.  The web server runs one request at a time; it stops the BLE *)
(* host before it downloads a pack.                                        *)

BleHostUp == transfers.http \notin {"opening", "install"}

(* handle_pack_install() up to the headers of the answer: the uplink is in *)
(* use, for the connection, TLS and the request, and nothing is drawn.     *)
HttpOpens ==
    /\ transfers.http = "none"
    /\ ~ transfers.ble
    /\ transfers' = [transfers EXCEPT !.http = "opening"]
    /\ UNCHANGED <<panel, status, button, scannable>>

(* The first frame of handle_pack_install() or handle_pack_upload(). *)
HttpTransfer(kind) ==
    /\ transfers.http = IF kind = "install" THEN "opening" ELSE "none"
    /\ transfers' = [transfers EXCEPT !.http = kind]
    /\ ShowTransfer
    /\ UNCHANGED <<status, button, scannable>>

(* begin_upload(): abort_upload() clears the screen, then the transfer     *)
(* shows its first frame, which nothing skips.                             *)
BleTransfer ==
    /\ BleHostUp
    /\ ~ transfers.ble
    /\ transfers' = [transfers EXCEPT !.ble = TRUE]
    /\ IF Panel THEN image' = "transfer" /\ transferActive' = TRUE /\ qrActive' = FALSE
                ELSE ClearTransfer
    /\ UNCHANGED <<status, button, scannable>>

(* A block arrives and its frame is shown. *)
TransferProgress ==
    /\ transfers.http \in {"install", "upload"} \/ transfers.ble
    /\ ShowTransfer
    /\ UNCHANGED <<transfers, status, button, scannable>>

(* The transfer ends or fails; a pack it installed changes the status. *)
NewFacts == \/ UNCHANGED facts
            \/ facts <= MaxFacts /\ facts' = facts + 1

HttpTransferEnds ==
    /\ transfers.http # "none"
    /\ transfers' = [transfers EXCEPT !.http = "none"]
    /\ ClearTransfer
    /\ NewFacts
    /\ UNCHANGED <<shown, suppressed, read, button, scannable>>

(* commit_upload(), abort_upload(): also when a client without a session   *)
(* disconnects or aborts.                                                  *)
BleTransferEnds ==
    /\ BleHostUp
    /\ transfers' = [transfers EXCEPT !.ble = FALSE]
    /\ ClearTransfer
    /\ IF transfers.ble THEN NewFacts ELSE UNCHANGED facts
    /\ UNCHANGED <<shown, suppressed, read, button, scannable>>

TransferStep ==
    \/ HttpOpens
    \/ \E kind \in {"install", "upload"} : HttpTransfer(kind)
    \/ BleTransfer \/ TransferProgress \/ HttpTransferEnds \/ BleTransferEnds

(* The uplink comes or goes, a pack is removed, the queue advances. *)
FactsChange ==
    /\ facts <= MaxFacts
    /\ facts' = facts + 1
    /\ UNCHANGED <<panel, transfers, shown, suppressed, read, button, scannable>>

------------------------------------------------------------------------------
(* oled_status_task(): look at the flags, forget what was drawn last if    *)
(* they were set before, scan the packs, draw what changed, sleep.         *)

Owned == transferActive \/ qrActive
NeverForced == FALSE                        \* the frame left behind stays
ForcesRedraw == suppressed

StatusLooks ==
    /\ Panel
    /\ read = 0
    /\ \/ /\ Owned
          /\ suppressed' = TRUE
          /\ UNCHANGED <<shown, read>>
       \/ /\ ~ Owned
          /\ shown' = IF ForcesRedraw THEN 0 ELSE shown
          /\ suppressed' = FALSE
          /\ read' = facts
    /\ UNCHANGED <<panel, transfers, facts, button, scannable>>

StatusDraws ==
    /\ read # 0
    /\ IF read # shown THEN ShowStatus ELSE UNCHANGED panel
    /\ shown' = read
    /\ read' = 0
    /\ UNCHANGED <<transfers, facts, suppressed, button, scannable>>

------------------------------------------------------------------------------
(* button_task(): one sample every 20 ms. *)

Advance(s) == CASE s = "status" -> "join"
                [] s = "join" -> "reader"
                [] OTHER -> "status"

Window(level) ==
    LET samples == Append(pin, level)
    IN  IF Len(samples) > StableSamples + 1 THEN Tail(samples) ELSE samples

DebouncedByOne(level, n) == n >= StableSamples - 1 /\ level # stable
Debounced(level, n) == n = StableSamples /\ level # stable
Counted(level) ==
    IF level # candidate THEN 0
    ELSE IF count < StableSamples THEN count + 1 ELSE count

(* A stable low level is a press; handle_press() ignores it while a        *)
(* transfer owns the screen.                                               *)
Sample ==
    /\ Panel
    /\ press = "none"
    /\ \E level \in {High, Low} :
          /\ pin' = Window(level)
          /\ candidate' = level
          /\ count' = Counted(level)
          /\ \/ /\ Debounced(level, count')
                /\ stable' = level
                /\ press' = IF level = Low /\ ~ transferActive THEN Advance(screen) ELSE "none"
             \/ /\ ~ Debounced(level, count')
                /\ UNCHANGED <<stable, press>>
    /\ UNCHANGED <<panel, transfers, status, screen, scannable>>

(* show_screen() of a QR screen up to the drawing: a symbol that does not  *)
(* fit, or a transfer that has begun, skips to the next screen.            *)
PressEncodes ==
    /\ press \in QrScreens
    /\ press' = IF transferActive \/ press \notin scannable THEN Advance(press)
                ELSE IF press = "join" THEN "drawJoin" ELSE "drawReader"
    /\ UNCHANGED <<panel, transfers, status, screen, pin, stable, candidate, count, scannable>>

PressDraws ==
    /\ press \in {"drawJoin", "drawReader"}
    /\ screen' = IF press = "drawJoin" THEN "join" ELSE "reader"
    /\ ShowQr(screen')
    /\ press' = "none"
    /\ UNCHANGED <<transfers, status, pin, stable, candidate, count, scannable>>

PressReturns ==
    /\ press = "status"
    /\ ClearQr
    /\ screen' = "status"
    /\ press' = "none"
    /\ UNCHANGED <<transfers, status, pin, stable, candidate, count, scannable>>

ButtonStep == Sample \/ PressEncodes \/ PressDraws \/ PressReturns
StatusStep == StatusLooks \/ StatusDraws

------------------------------------------------------------------------------
(* app_main() with a valid archive: the status is drawn before its task    *)
(* starts, which remembers nothing of it.                                  *)
ScreensInit ==
    /\ image = IF Panel THEN "status" ELSE "boot"
    /\ transferActive = FALSE /\ qrActive = FALSE
    /\ transfers = [http |-> "none", ble |-> FALSE]
    /\ facts = 1 /\ shown = 0 /\ suppressed = FALSE /\ read = 0
    /\ screen = "status" /\ press = "none"
    /\ scannable \in {{"reader"}, QrScreens}
    /\ pin = <<>> /\ stable \in {High, Low} /\ candidate = stable /\ count = 0

ScreensNext == TransferStep \/ FactsChange \/ StatusStep \/ ButtonStep

ScreensSpec == ScreensInit /\ [][ScreensNext]_screenVars

------------------------------------------------------------------------------

(* A frame the status task has seen in the way is cleared once nothing     *)
(* owns the panel any more (app_main.c:74-76, 82-89): the task draws, or   *)
(* the panel is taken again.                                               *)
SeenFrameCleared ==
    (suppressed /\ ~ Owned) ~> (image = "status" \/ Owned)

(* A press is a press: the debounced level follows only a whole window of  *)
(* equal samples, and a screen is chosen only when it falls, so contact    *)
(* bounce advances nothing and one hold advances the cycle by one          *)
(* (boot_button.c:115-132).                                                *)
PressIsHeld ==
    [][/\ stable' # stable => /\ Len(pin') = StableSamples + 1
                             /\ \A i \in 1 .. Len(pin') : pin'[i] = stable'
       /\ press = "none" /\ press' # "none" => stable = High /\ stable' = Low]_screenVars
==============================================================================
