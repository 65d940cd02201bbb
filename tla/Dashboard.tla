------------------------------ MODULE Dashboard ------------------------------
(***************************************************************************)
(* The dashboard script, assets/manager.js, in one tab: the selection of   *)
(* packs and its budget, the batch that installs it one stream at a time,  *)
(* the forms and buttons that work beside it, and the reloads that end the *)
(* page.  The device answers one request at a time; what it does to finish *)
(* an install is in PackInstall, here an install succeeds or fails.        *)
(***************************************************************************)
EXTENDS Naturals, FiniteSets, FiniteSetsExt

CONSTANTS
    Packs,      \* the packs, in catalogue order
    PackSize,       \* the bytes of each
    Capacity,   \* the bytes the volume has for packs
    Listings,   \* what a catalogue may list
    MaxUses     \* bound: what the user does

ASSUME DashboardAssumption ==
    /\ Packs \subseteq Nat /\ IsFiniteSet(Packs)
    /\ PackSize \in [Packs -> Nat \ {0}]
    /\ Listings \subseteq SUBSET Packs
    /\ Capacity \in Nat /\ MaxUses \in Nat

VARIABLES
    has,          \* the packs installed on the device
    serving,      \* the install stream the device is writing: whose, and the pack
    installable,  \* the free space written into the page
    deviceUplink, \* "known" up, "down", or "unknown"
    rendered,     \* the packs of the catalogue shown
    boxes,        \* those whose checkbox can be ticked
    chosen,       \* those ticked
    bar,          \* catalogActions.hidden and catalogInstall.disabled
    batch,        \* installSelected(): running, the packs left, the whole queue
    stream,       \* installFromDevice(), called by the batch and by the URL form
    calls,        \* other requests without an answer
    page,         \* "shown", "leaving" with a reload timer set, "loading"
    landed,       \* what the device installed for each caller since it began
    changed,      \* the library changed since the page loaded, but by this batch
    uses          \* what the user has done so far

view == <<installable, deviceUplink, rendered, boxes, chosen, bar>>
shelf == <<has, serving, landed, changed>>
dashboardVars == <<shelf, view, batch, stream, calls, page, uses>>

Callers == {"batch", "form"}
Idle == [at |-> "idle", pack |-> 0, line |-> "none", result |-> "null"]
NoBatch == [installing |-> FALSE, left |-> {}, whole |-> {}, claimed |-> FALSE]
Nobody == [who |-> "none", pack |-> 0]

DashboardTypeOK ==
    /\ has \subseteq Packs
    /\ serving \in [who : Callers \cup {"none", "orphan"}, pack : Packs \cup {0}]
    /\ installable \in 0 .. Capacity
    /\ deviceUplink \in {"unknown", "known", "down"}
    /\ rendered \subseteq Packs /\ boxes \subseteq rendered /\ chosen \subseteq rendered
    /\ bar \in [hidden : BOOLEAN, disabled : BOOLEAN]
    /\ batch \in [installing : BOOLEAN, left : SUBSET Packs, whole : SUBSET Packs, claimed : BOOLEAN]
    /\ stream \in [Callers -> [at : {"idle", "waiting", "open", "ended"}, pack : Packs \cup {0},
                               line : {"none", "OK", "ERR"}, result : {"null", "OK", "ERR"}]]
    /\ calls \subseteq {"catalog", "refresh", "status", "upload", "remove"}
    /\ page \in {"shown", "leaving", "loading"}
    /\ landed \in [Callers -> SUBSET Packs]
    /\ changed \in BOOLEAN
    /\ uses \in 0 .. MaxUses

Weight(packs) == MapThenSumSet(LAMBDA p : PackSize[p], packs)
Free == Capacity - Weight(has)

------------------------------------------------------------------------------
(* The selection. *)

FitsOneByOne(packs) == \A p \in packs : PackSize[p] <= installable      \* not the sum
Fits(packs) == Weight(packs) <= installable

(* syncSelection() *)
SyncSelection(packs, installing) ==
    bar' = [hidden |-> installing \/ packs = {},
            disabled |-> IF installing THEN bar.disabled
                         ELSE ~ Fits(packs) \/ deviceUplink = "down"]

Use == page # "loading" /\ uses < MaxUses /\ uses' = uses + 1

Tick(p) ==
    /\ Use
    /\ p \in boxes
    /\ chosen' = IF p \in chosen THEN chosen \ {p} ELSE chosen \cup {p}
    /\ SyncSelection(chosen', batch.installing)
    /\ UNCHANGED <<shelf, installable, deviceUplink, rendered, boxes, batch, stream, calls, page>>

Clear ==
    /\ Use
    /\ ~ batch.installing /\ ~ bar.hidden
    /\ chosen' = {}
    /\ SyncSelection({}, FALSE)
    /\ UNCHANGED <<shelf, installable, deviceUplink, rendered, boxes, batch, stream, calls, page>>

(* renderCatalog() *)
Render(packs) ==
    /\ rendered' = packs
    /\ boxes' = {p \in packs : PackSize[p] <= installable /\ deviceUplink # "down"}
    /\ chosen' = {}
    /\ SyncSelection({}, batch.installing)

(* loadCatalog(): what it finds replaces the list, or a notice does.  A    *)
(* refresh without an uplink asks the public server from the phone, and    *)
(* one the device is too slow for ends at its sixty seconds.               *)
Refresh ==
    /\ Use
    /\ "refresh" \notin calls
    /\ calls' = calls \cup {"refresh"}
    /\ UNCHANGED <<shelf, view, batch, stream, page>>

CatalogArrives(call) ==
    /\ call \in calls /\ page # "loading"
    /\ call = "catalog" => serving = Nobody
    /\ calls' = calls \ {call}
    /\ \/ \E packs \in Listings : Render(packs)
       \/ boxes' = {} /\ UNCHANGED <<rendered, chosen, bar>>
    /\ UNCHANGED <<shelf, installable, deviceUplink, batch, stream, page, uses>>

(* loadStatus(), at the start and after Wi-Fi was set up: nothing on the   *)
(* page is drawn again for it but the status card.                         *)
WifiSaved ==
    /\ Use
    /\ serving = Nobody
    /\ calls' = calls \cup {"status"}
    /\ UNCHANGED <<shelf, view, batch, stream, page>>

StatusArrives ==
    /\ "status" \in calls /\ page # "loading"
    /\ serving = Nobody
    /\ calls' = calls \ {"status"}
    /\ deviceUplink' \in {"unknown", "known", "down"}
    /\ UNCHANGED <<shelf, installable, rendered, boxes, chosen, bar, batch, stream, page, uses>>

------------------------------------------------------------------------------
(* installFromDevice() *)

Asks(u, p) == [stream EXCEPT ![u] = [Idle EXCEPT !.at = "waiting", !.pack = p]]

(* The device begins to stream, or refuses; or the request is lost. *)
DeviceTakes(u) ==
    /\ stream[u].at = "waiting"
    /\ serving = Nobody
    /\ stream' = [stream EXCEPT ![u].at = "open"]
    /\ serving' = [who |-> u, pack |-> stream[u].pack]
    /\ UNCHANGED <<has, landed, changed, view, batch, calls, page, uses>>

Declined(u) ==
    /\ stream[u].at = "waiting"
    /\ stream' = [stream EXCEPT ![u].at = "ended"]
    /\ UNCHANGED <<shelf, view, batch, calls, page, uses>>

(* The device installs the pack, or cannot, and writes the result line. *)
DeviceInstalls(u) ==
    /\ serving.who = u /\ stream[u].line = "none"
    /\ \/ /\ PackSize[serving.pack] <= Free
          /\ has' = has \cup {serving.pack}
          /\ landed' = [landed EXCEPT ![u] = @ \cup {serving.pack}]
          /\ changed' = (changed \/ u # "batch")
          /\ stream' = [stream EXCEPT ![u].line = "OK"]
       \/ /\ stream' = [stream EXCEPT ![u].line = "ERR"]
          /\ UNCHANGED <<has, landed, changed>>
    /\ UNCHANGED <<serving, view, batch, calls, page, uses>>

(* A stream nobody reads any more: the pack may still be installed. *)
OrphanEnds ==
    /\ serving.who = "orphan"
    /\ \/ PackSize[serving.pack] <= Free /\ has' = has \cup {serving.pack} /\ changed' = TRUE
       \/ UNCHANGED <<has, changed>>
    /\ serving' = Nobody
    /\ UNCHANGED <<landed, view, batch, stream, calls, page, uses>>

(* The newline of the result line arrives: consume(). *)
LineArrives(u) ==
    /\ stream[u].at = "open" /\ stream[u].line # "none" /\ stream[u].result = "null"
    /\ stream' = [stream EXCEPT ![u].result = stream[u].line]
    /\ UNCHANGED <<shelf, view, batch, calls, page, uses>>

(* The stream ends: a line without its newline is consumed as well. *)
StreamEnds(u) ==
    /\ stream[u].at = "open" /\ stream[u].line # "none"
    /\ stream' = [stream EXCEPT ![u].at = "ended", ![u].result = stream[u].line]
    /\ serving' = Nobody
    /\ UNCHANGED <<has, landed, changed, view, batch, calls, page, uses>>

(* The connection breaks; before the line, read() ends or throws. *)
StreamBreaks(u) ==
    /\ stream[u].at = "open"
    /\ stream' = [stream EXCEPT ![u].at = "ended"]
    /\ serving' = IF stream[u].line = "none" THEN [serving EXCEPT !.who = "orphan"] ELSE Nobody
    /\ UNCHANGED <<has, landed, changed, view, batch, calls, page, uses>>

NotRefused(s) == s.result # "ERR"                       \* silence taken for consent
Confirmed(s) == s.result = "OK"

------------------------------------------------------------------------------
(* installSelected() *)

First(packs) == Min(packs)

ClickInstall ==
    /\ Use
    /\ ~ bar.hidden /\ ~ bar.disabled
    /\ ~ batch.installing
    /\ chosen # {}
    /\ batch' = [installing |-> TRUE, left |-> chosen, whole |-> chosen, claimed |-> FALSE]
    /\ SyncSelection(chosen, TRUE)
    /\ stream' = Asks("batch", First(chosen))
    /\ landed' = [landed EXCEPT !.batch = {}]
    /\ changed' = (changed \/ batch.whole # {})
    /\ UNCHANGED <<has, serving, installable, deviceUplink, rendered, boxes, chosen, calls, page>>

(* The next pack after an installed one. *)
BatchContinues ==
    /\ batch.installing /\ stream["batch"].at = "ended"
    /\ Confirmed(stream["batch"])
    /\ LET left == batch.left \ {stream["batch"].pack}
       IN  /\ left # {}
           /\ batch' = [batch EXCEPT !.left = left]
           /\ stream' = Asks("batch", First(left))
    /\ UNCHANGED <<shelf, view, calls, page, uses>>

(* All installed: the selection is dropped and the page reloads soon. *)
BatchSucceeds ==
    /\ batch.installing /\ stream["batch"].at = "ended"
    /\ Confirmed(stream["batch"]) /\ batch.left = {stream["batch"].pack}
    /\ batch' = [batch EXCEPT !.installing = FALSE, !.left = {}, !.claimed = TRUE]
    /\ stream' = [stream EXCEPT !["batch"] = Idle]
    /\ chosen' = {}
    /\ page' = "leaving"
    /\ UNCHANGED <<shelf, installable, deviceUplink, rendered, boxes, bar, calls, uses>>

BatchStops ==
    /\ batch.installing /\ stream["batch"].at = "ended"
    /\ ~ Confirmed(stream["batch"])
    /\ batch' = [batch EXCEPT !.installing = FALSE, !.left = {}]
    /\ stream' = [stream EXCEPT !["batch"] = Idle]
    /\ SyncSelection(chosen, FALSE)
    /\ UNCHANGED <<shelf, installable, deviceUplink, rendered, boxes, chosen, calls, page, uses>>

------------------------------------------------------------------------------
(* The forms and buttons beside it; none looks at the batch. *)

SubmitUrl(p) ==
    /\ Use
    /\ stream["form"].at = "idle"
    /\ stream' = Asks("form", p)
    /\ landed' = [landed EXCEPT !.form = {}]
    /\ UNCHANGED <<has, serving, changed, view, batch, calls, page>>

FormReturns ==
    /\ stream["form"].at = "ended"
    /\ stream' = [stream EXCEPT !["form"] = Idle]
    /\ UNCHANGED <<shelf, view, batch, calls, page, uses>>

(* install() a file: too large for the page, it is not sent. *)
SubmitFile ==
    /\ Use
    /\ "upload" \notin calls
    /\ \E p \in Packs : PackSize[p] <= installable
    /\ calls' = calls \cup {"upload"}
    /\ UNCHANGED <<shelf, view, batch, stream, page>>

UploadAnswered ==
    /\ "upload" \in calls /\ page # "loading"
    /\ serving = Nobody
    /\ calls' = calls \ {"upload"}
    /\ \/ \E p \in Packs : /\ PackSize[p] <= Free
                           /\ has' = has \cup {p}
                           /\ changed' = TRUE
                           /\ page' = "leaving"
       \/ UNCHANGED <<has, changed, page>>
    /\ UNCHANGED <<serving, landed, view, batch, stream, uses>>

(* A pack's Remove button: the page reloads at once. *)
ClickRemove ==
    /\ Use
    /\ "remove" \notin calls
    /\ calls' = calls \cup {"remove"}
    /\ UNCHANGED <<shelf, view, batch, stream, page>>

(* location.reload(): whatever the page was doing ends here. *)
Leave ==
    /\ page' = "loading"
    /\ stream' = [u \in Callers |-> Idle]
    /\ calls' = {}

RemoveAnswered ==
    /\ "remove" \in calls /\ page # "loading"
    /\ serving = Nobody
    /\ \/ /\ \E p \in has : has' = has \ {p}
          /\ changed' = TRUE
          /\ Leave
       \/ calls' = calls \ {"remove"} /\ UNCHANGED <<has, changed, page, stream>>
    /\ UNCHANGED <<serving, landed, view, batch, uses>>

ReloadTimer ==
    /\ page = "leaving"
    /\ Leave
    /\ serving' = IF serving = Nobody THEN Nobody ELSE [serving EXCEPT !.who = "orphan"]
    /\ UNCHANGED <<has, landed, changed, view, batch, uses>>

(* The device serves the page again and the script starts. *)
PageLoads ==
    /\ page = "loading"
    /\ serving = Nobody
    /\ page' = "shown"
    /\ installable' = Free
    /\ deviceUplink' = "unknown"
    /\ rendered' = {} /\ boxes' = {} /\ chosen' = {}
    /\ bar' = [hidden |-> TRUE, disabled |-> FALSE]
    /\ batch' = NoBatch
    /\ calls' = {"catalog", "status"}
    /\ changed' = FALSE
    /\ landed' = [u \in Callers |-> {}]
    /\ UNCHANGED <<has, serving, stream, uses>>

DashboardInit ==
    /\ has \in {packs \in SUBSET Packs : Weight(packs) <= Capacity}
    /\ serving = Nobody
    /\ installable = 0 /\ deviceUplink = "unknown"
    /\ rendered = {} /\ boxes = {} /\ chosen = {}
    /\ bar = [hidden |-> TRUE, disabled |-> FALSE]
    /\ batch = NoBatch
    /\ stream = [u \in Callers |-> Idle]
    /\ calls = {} /\ page = "loading"
    /\ landed = [u \in Callers |-> {}] /\ changed = FALSE
    /\ uses = 0

DashboardNext ==
    \/ \E p \in Packs : Tick(p) \/ SubmitUrl(p)
    \/ SubmitFile \/ Clear \/ Refresh \/ WifiSaved \/ ClickInstall \/ ClickRemove
    \/ \E call \in {"catalog", "refresh"} : CatalogArrives(call)
    \/ StatusArrives \/ UploadAnswered \/ RemoveAnswered
    \/ \E u \in Callers : \/ DeviceTakes(u) \/ Declined(u) \/ DeviceInstalls(u)
                          \/ LineArrives(u) \/ StreamEnds(u) \/ StreamBreaks(u)
    \/ OrphanEnds
    \/ BatchContinues \/ BatchSucceeds \/ BatchStops \/ FormReturns
    \/ ReloadTimer \/ PageLoads

DashboardSpec == DashboardInit /\ [][DashboardNext]_dashboardVars

------------------------------------------------------------------------------

(* What the page reports is what the device did: a pack said to be         *)
(* installed was, and so was each pack of a batch said to be complete,     *)
(* however its stream was cut (manager.js:126-166, 265-288).               *)
ClaimedIsInstalled ==
    /\ \A u \in Callers : stream[u].result = "OK" => stream[u].pack \in landed[u]
    /\ batch.claimed => batch.whole \subseteq landed["batch"]

(* A batch runs out of nothing: as long as nothing else has changed the    *)
(* library since the page was loaded, what is left of it fits the space    *)
(* the device has left (manager.js:237-239, 262-264).                      *)
BatchStillFits ==
    batch.installing /\ ~ changed =>
        Weight({p \in batch.left : p \notin landed["batch"]}) <= Free
==============================================================================
