------------------------------ MODULE Catalogue ------------------------------
(***************************************************************************)
(* The pack catalogue of web_server.c and its two users.  The device has a *)
(* catalogue in firmware and may have a newer one on the volume, which a   *)
(* request downloads, validates and renames into place.  Which of the two  *)
(* is active is cached in three plain globals that catalog_cache_ensure()  *)
(* fills, the sync sets and catalog_cache_invalidate() clears.             *)
(*                                                                         *)
(* Handlers run one at a time in the httpd task under the archive lock.    *)
(* The first-boot queue task takes no lock: it looks up the next pack in   *)
(* the same globals, asks the httpd task to install it over a local        *)
(* socket, and commits the rest of the queue to NVS.  Every access to a    *)
(* global is a step, as the tasks run on two cores on the ESP32-S3.        *)
(***************************************************************************)
EXTENDS Naturals, Sequences, SequencesExt

CONSTANTS
    Ids,         \* pack ids
    Catalogues,  \* published documents, by catalog_version and generated_at
    Asset,       \* the one built into the firmware
    Lists,       \* the ids each document lists
    Queues,      \* what the browser flasher may leave in NVS
    Garbage,     \* a document that does not validate
    None

ASSUME CatalogueAssumption ==
    /\ Catalogues \subseteq Nat
    /\ Asset \in Catalogues
    /\ Lists \in [Catalogues -> SUBSET Ids]
    /\ Queues \subseteq Seq(Ids)
    /\ Garbage \notin Catalogues
    /\ None \notin Catalogues \cup Ids \cup {Garbage}

VARIABLES
    saved,      \* "/packs/.catalog.json"
    temp,       \* "/packs/.catalog.tmp"
    ready,      \* s_catalog_cache_ready
    ok,         \* s_catalog_cache_ok
    source,     \* s_catalog_source: "file" or "asset"
    http,       \* the request in progress
    lookup,     \* each task's call of catalog_find()
    queued,     \* what was left in NVS by the flasher; never changes
    nvs,        \* the queue in NVS
    queue,      \* the queue task's copy
    task,       \* where the queue task is
    added,      \* the ids installed so far
    unread,     \* history: the synced file could not be opened or read when the
                \* selection was last made
    answer      \* history: what the last sync responded with

volume == <<saved, temp>>
cache == <<ready, ok, source>>
queueVars == <<queue, task>>
history == <<queued, unread, answer>>
vars == <<volume, cache, http, lookup, history, nvs, queueVars, added>>

Tasks == {"httpd", "queue"}
NoRequest == [phase |-> "idle", kind |-> "none", id |-> None]
NoLookup == [at |-> "idle", id |-> None, newer |-> FALSE]
Kinds == {"page", "list", "install", "queued"}
Installs == {"install", "queued"}

Requests ==
    {NoRequest} \cup
    [phase : {"lookup"}, kind : Kinds, id : Ids] \cup
    [phase : {"forget", "forgotten"}, kind : Kinds \ {"page"}, id : Ids] \cup
    [phase : {"install"}, kind : Installs, id : Ids] \cup
    [phase : {"check", "remove", "rename", "ready", "ok", "source", "serve"},
     kind : {"sync"}, id : {None}]

TypeOK ==
    /\ saved \in Catalogues \cup {Garbage, None}
    /\ temp \in Catalogues \cup {Garbage, None}
    /\ ready \in BOOLEAN /\ ok \in BOOLEAN
    /\ source \in {"asset", "file"}
    /\ http \in Requests
    /\ lookup \in [Tasks -> [at : {"idle", "test", "read", "select", "ready", "ok", "source",
                                   "find", "found", "missed"},
                             id : Ids \cup {None}, newer : BOOLEAN]]
    /\ queued \in Queues
    /\ nvs \in Seq(Ids) /\ queue \in Seq(Ids)
    /\ task \in {"boot", "head", "lookup", "asked", "waiting", "commit", "stopped"}
    /\ added \subseteq Ids
    /\ unread \in BOOLEAN
    /\ answer \in {"none", "fetched", "other", "unreadable"}

------------------------------------------------------------------------------
(* catalog_find(), which begins with catalog_cache_ensure(). *)

LookUp(t, id) == lookup' = [lookup EXCEPT ![t] = [at |-> "test", id |-> id, newer |-> FALSE]]
Goto(t, at) == lookup' = [lookup EXCEPT ![t].at = at]
Answered(t) == lookup[t].at \in {"found", "missed"}
Elsewhere == UNCHANGED <<volume, http, nvs, queueVars, added>>
OnlyLookup == Elsewhere /\ UNCHANGED history

TestReady(t) ==
    /\ lookup[t].at = "test"
    /\ Goto(t, IF ready THEN "read" ELSE "select")
    /\ UNCHANGED cache /\ OnlyLookup

ReadOk(t) ==
    /\ lookup[t].at = "read"
    /\ Goto(t, IF ok THEN "find" ELSE "missed")
    /\ UNCHANGED cache /\ OnlyLookup

(* A synced file wins when it is newer than the embedded document and can  *)
(* be opened and read; the embedded one always can.                        *)
SyncedIsNewer == saved \in Catalogues /\ saved > Asset

Select(t) ==
    /\ lookup[t].at = "select"
    /\ \E failed \in BOOLEAN :
          /\ lookup' = [lookup EXCEPT ![t].at = "ready", ![t].newer = SyncedIsNewer /\ ~ failed]
          /\ unread' = failed
    /\ UNCHANGED <<cache, queued, answer>> /\ Elsewhere

StoreReady(t) ==
    /\ lookup[t].at = "ready"
    /\ ready' = TRUE
    /\ Goto(t, "ok")
    /\ UNCHANGED <<ok, source>> /\ OnlyLookup

StoreOk(t) ==
    /\ lookup[t].at = "ok"
    /\ ok' = TRUE
    /\ Goto(t, "source")
    /\ UNCHANGED <<ready, source>> /\ OnlyLookup

StoreSource(t) ==
    /\ lookup[t].at = "source"
    /\ source' = IF lookup[t].newer THEN "file" ELSE "asset"
    /\ Goto(t, "find")
    /\ UNCHANGED <<ready, ok>> /\ OnlyLookup

(* The synced file first, when it can be opened and read; then always the  *)
(* asset.                                                                  *)
ListedInActive(id, readable) ==             \* without the second look
    IF source = "file" THEN readable /\ saved \in Catalogues /\ id \in Lists[saved]
                       ELSE id \in Lists[Asset]
CatalogueLists(id, readable) ==
    \/ source = "file" /\ readable /\ saved \in Catalogues /\ id \in Lists[saved]
    \/ id \in Lists[Asset]

Find(t) ==
    /\ lookup[t].at = "find"
    /\ \E readable \in BOOLEAN :
          Goto(t, IF CatalogueLists(lookup[t].id, readable) THEN "found" ELSE "missed")
    /\ UNCHANGED cache /\ OnlyLookup

LookupStep(t) ==
    TestReady(t) \/ ReadOk(t) \/ Select(t) \/ StoreReady(t) \/ StoreOk(t) \/ StoreSource(t) \/ Find(t)

------------------------------------------------------------------------------
(* Handlers that look packs up: pages, GET /api/packs, an install. *)

HttpLookup(kind, id) ==
    /\ http = NoRequest
    /\ http' = [phase |-> "lookup", kind |-> kind, id |-> id]
    /\ LookUp("httpd", id)
    /\ UNCHANGED <<volume, cache, history, nvs, queue, added>>

HttpBrowser(kind, id) == kind # "queued" /\ HttpLookup(kind, id) /\ UNCHANGED task

HttpAnswered ==
    /\ http.phase = "lookup"
    /\ Answered("httpd")
    /\ lookup' = [lookup EXCEPT !["httpd"] = NoLookup]
    /\ http' = IF http.kind = "page" THEN NoRequest ELSE [http EXCEPT !.phase = "forget"]
    /\ UNCHANGED <<volume, cache, history, nvs, queueVars, added>>

(* catalog_cache_invalidate(), by GET /api/packs and by every install. *)
ForgetReady ==
    /\ http.phase = "forget"
    /\ ready' = FALSE
    /\ http' = [http EXCEPT !.phase = "forgotten"]
    /\ UNCHANGED <<volume, ok, source, lookup, history, nvs, queueVars, added>>

AlwaysDownload == [http EXCEPT !.phase = "install"]   \* whoever invalidated it
AfterForget == IF http.kind \in Installs THEN [http EXCEPT !.phase = "install"] ELSE NoRequest

ForgetOk ==
    /\ http.phase = "forgotten"
    /\ ok' = FALSE
    /\ http' = AfterForget
    /\ UNCHANGED <<volume, ready, source, lookup, history, nvs, queueVars, added>>

(* The rest of handle_pack_install(); the queue task sees "OK:" only if    *)
(* the response arrives.                                                   *)
InstallEnds(success) ==
    /\ http.phase = "install"
    /\ http' = NoRequest
    /\ added' = IF success THEN added \cup {http.id} ELSE added
    /\ IF http.kind = "queued" THEN task' \in (IF success THEN {"commit", "stopped"} ELSE {"stopped"})
                               ELSE UNCHANGED task
    /\ UNCHANGED <<volume, cache, lookup, history, nvs, queue>>

------------------------------------------------------------------------------
(* handle_packs_catalog_sync() *)

SyncAlone == UNCHANGED <<lookup, queued, nvs, queueVars, added>>
SyncStep == SyncAlone /\ UNCHANGED <<unread, answer>>
HttpProceeds(phase) == http' = [http EXCEPT !.phase = phase]
GiveUp == http' = NoRequest /\ temp' = None

(* The document is written to the temporary file, whole or damaged. *)
SyncDownload ==
    /\ http = NoRequest
    /\ temp' \in Catalogues \cup {Garbage}
    /\ http' = [phase |-> "check", kind |-> "sync", id |-> None]
    /\ UNCHANGED <<saved, cache>> /\ SyncStep

StagedAnything == temp # None               \* pw_catalog_validate() left out
StagedIsValid == temp \in Catalogues

SyncCheck ==
    /\ http.phase = "check"
    /\ \/ StagedIsValid /\ HttpProceeds("remove") /\ UNCHANGED temp
       \/ GiveUp                            \* invalid, incomplete, or no space
    /\ UNCHANGED <<saved, cache>> /\ SyncStep

SyncRemove ==
    /\ http.phase = "remove"
    /\ \/ HttpProceeds("rename") /\ saved' = None /\ UNCHANGED temp
       \/ GiveUp /\ UNCHANGED saved
    /\ UNCHANGED cache /\ SyncStep

SyncRename ==
    /\ http.phase = "rename"
    /\ \/ HttpProceeds("ready") /\ saved' = temp /\ temp' = None
       \/ GiveUp /\ UNCHANGED saved
    /\ UNCHANGED cache /\ SyncStep

SyncStoreReady ==
    /\ http.phase = "ready"
    /\ ready' = TRUE
    /\ HttpProceeds("ok")
    /\ UNCHANGED <<volume, ok, source>> /\ SyncStep

SyncStoreOk ==
    /\ http.phase = "ok"
    /\ ok' = TRUE
    /\ HttpProceeds("source")
    /\ UNCHANGED <<volume, ready, source>> /\ SyncStep

KeepSource == source                        \* the selection left to catalog_cache_ensure()
SelectSynced == "file"

SyncStoreSource ==
    /\ http.phase = "source"
    /\ source' = SelectSynced
    /\ unread' = FALSE
    /\ HttpProceeds("serve")
    /\ UNCHANGED <<volume, ready, ok, answer>> /\ SyncAlone

(* catalog_stream_to_client(): the selected document.  A synced file that  *)
(* cannot be opened any more is replaced by the embedded document; one     *)
(* that cannot be read to its end leaves the response unfinished.          *)
Served == IF source = "file" /\ saved # None THEN "fetched" ELSE "other"

SyncServe ==
    /\ http.phase = "serve"
    /\ http' = NoRequest
    /\ answer' \in {Served} \cup (IF Served = "fetched" THEN {"unreadable"} ELSE {})
    /\ UNCHANGED <<volume, cache, unread>> /\ SyncAlone

------------------------------------------------------------------------------
(* flash_pack_queue_task() *)

OnlyQueue == UNCHANGED <<volume, cache, http, history, added>>

QueueStart ==
    /\ task = "boot"
    /\ queue' = nvs
    /\ task' = IF nvs = <<>> THEN "stopped" ELSE "head"
    /\ UNCHANGED <<lookup, nvs>> /\ OnlyQueue

(* The station is up: look the first id up. *)
QueueLookUp ==
    /\ task = "head"
    /\ LookUp("queue", Head(queue))
    /\ task' = "lookup"
    /\ UNCHANGED <<queue, nvs>> /\ OnlyQueue

QueueAnswered ==
    /\ task = "lookup"
    /\ Answered("queue")
    /\ lookup' = [lookup EXCEPT !["queue"] = NoLookup]
    /\ task' = IF lookup["queue"].at = "found" THEN "asked" ELSE "stopped"
    /\ UNCHANGED <<queue, nvs>> /\ OnlyQueue

(* The httpd task takes the request; the connection can fail instead. *)
QueueInstall ==
    /\ task = "asked"
    /\ \/ HttpLookup("queued", Head(queue)) /\ task' = "waiting"
       \/ task' = "stopped" /\ UNCHANGED <<lookup, queue, nvs>> /\ OnlyQueue

Pop == /\ queue' = Tail(queue)
       /\ nvs' \in {nvs, Tail(queue)}       \* nvs_set_str() can fail

AdvanceTwice == queue' = <<>> /\ nvs' = <<>>     \* the key erased too early
Advance == Pop

QueueCommit ==
    /\ task = "commit"
    /\ Advance
    /\ task' = IF queue' = <<>> THEN "stopped" ELSE "head"
    /\ UNCHANGED lookup /\ OnlyQueue

------------------------------------------------------------------------------
(* Power loss: the volume and NVS stay, the tasks and globals start over. *)
PowerLoss ==
    /\ ready' = FALSE /\ ok' = FALSE /\ source' = "asset"
    /\ http' = NoRequest
    /\ lookup' = [t \in Tasks |-> NoLookup]
    /\ queue' = <<>> /\ task' = "boot"
    /\ unread' = FALSE /\ answer' = "none"
    /\ UNCHANGED <<volume, queued, nvs, added>>

Init ==
    /\ saved \in Catalogues \cup {None} /\ temp = None
    /\ ready = FALSE /\ ok = FALSE /\ source = "asset"
    /\ http = NoRequest
    /\ lookup = [t \in Tasks |-> NoLookup]
    /\ queued \in Queues /\ nvs = queued
    /\ queue = <<>> /\ task = "boot"
    /\ added = {}
    /\ unread = FALSE /\ answer = "none"

Next ==
    \/ PowerLoss
    \/ \E t \in Tasks : LookupStep(t)
    \/ \E kind \in Kinds, id \in Ids : HttpBrowser(kind, id)
    \/ HttpAnswered \/ ForgetReady \/ ForgetOk
    \/ \E success \in BOOLEAN : InstallEnds(success)
    \/ SyncDownload \/ SyncCheck \/ SyncRemove \/ SyncRename
    \/ SyncStoreReady \/ SyncStoreOk \/ SyncStoreSource \/ SyncServe
    \/ QueueStart \/ QueueLookUp \/ QueueAnswered \/ QueueInstall \/ QueueCommit

Spec == Init /\ [][Next]_vars

------------------------------------------------------------------------------
(* Properties *)

(* "Temp file + rename so a power loss never corrupts the previous copy"   *)
(* (web_server.c:1540): the synced file is a whole, valid document or is   *)
(* missing, whatever step of the update fails or loses power.              *)
CatalogueIsWhole == saved # Garbage

(* "A lookup never fails on a catalogue the device already accepted"       *)
(* (web_server.c:1359-1361): what the firmware's own document lists is     *)
(* found, also while the synced file is missing, being replaced or older.  *)
LookupsSucceed ==
    \A t \in Tasks : lookup[t].at = "missed" => lookup[t].id \notin Lists[Asset]

(* The queue task is the only one that looks packs up outside a request.   *)
NothingQueued == queued = <<>>

(* The same, when no queue task runs beside the handlers.                  *)
LookupsSucceedAlone == NothingQueued => LookupsSucceed

(* "Responds with the fetched catalogue" (web_server.c:1541), when no      *)
(* queue task runs beside the handlers: nothing else selects a source      *)
(* between the rename and the response, so a response is the fetched       *)
(* document unless the volume fails to give it back (web_server.c:1486).   *)
SyncAnswersFetched ==
    NothingQueued => answer # "other"

(* "The active catalogue is the synced file or the embedded asset,         *)
(* whichever is newer" (web_server.c:1283), when no queue task runs beside *)
(* the handlers: a newer synced file is ignored only while a selection is  *)
(* cached that was made when the file could not be opened or read          *)
(* (web_server.c:1314, 1334), however syncs, failures, invalidations and   *)
(* restarts alternate.                                                     *)
NewerIsActive ==
    NothingQueued /\ ready /\ ~ unread /\ SyncedIsNewer /\ http.phase \notin {"rename", "ready", "ok", "source"}
        /\ lookup["httpd"].at \notin {"ok", "source"}
    => source = "file"

(* Both: while only handlers touch the selection, it is the right one for  *)
(* whoever asks next.                                                      *)
SelectionIsRight == SyncAnswersFetched /\ NewerIsActive

(* The queue "keeps the ones that fail for a later boot"                   *)
(* (docs/ARCHITECTURE.md:32-34): whatever fails and whenever the power     *)
(* goes, NVS holds the rest of the queue, and an id leaves it only after   *)
(* its pack was installed.                                                 *)
QueueKeepsUninstalled ==
    /\ IsSuffix(nvs, queued)
    /\ \A i \in 1 .. Len(queued) - Len(nvs) : queued[i] \in added
==============================================================================
