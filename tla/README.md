# PocketWiki: verification of the firmware's stateful parts

PocketWiki is firmware for an ESP32 that serves an offline wiki over its own
Wi-Fi access point. Articles come in *packs* (`.pwp` files) on a FAT volume in
flash, plus one built-in library in a flash partition. Packs are installed over
HTTP, over BLE, or downloaded by the device itself.

This directory holds TLA+ modules of the firmware's stateful parts, the TLC
configurations that check them, and TLAPS proofs. Paths below such as
`pack_store.c` are under `src/firmware/main/`.

Run a check with `tlc -config PackStore.cfg MCPackStore.tla`, a proof with
`tlapm PackStoreProofs.tla`. `PROJECT.json` maps every definition to its source
lines and lists the runs, mutants, hazards and theorems.

## The system

| Component | State it keeps | Operations | Hard behaviour |
|---|---|---|---|
| Pack store (`pack_store.c`) | files under `/packs`, active name, metadata cache, guide flag and marker, archive lock, metadata mutex | open for read, remove, begin/finish/abort upload, list/count/rescan, hide guide, init | two-rename replacement, I/O errors, power loss, case-insensitive names, open files |
| Content archive (`content_archive.c`) | one global archive `s_ca`, one open `FILE*` | probe, load, revert to flash, read | switching under a reader, full-file validation |
| BLE service (`ble_provisioning.c`) | one upload session, connection handle, host up or down | INFO, PACK_AT, BEGIN, COMMIT, ABORT, DELETE, data writes, Wi-Fi setup, suspend, resume | data writes and disconnects take no lock; commands time out on it |
| Web server (`web_server.c`) | one request at a time, catalogue cache, install state | reader routes, upload, install, delete, catalogue, pack queue task | holds the archive lock to the last byte; waits for BLE to stop; retries |
| Catalogue (`web_server.c`, `catalog_index.c`) | file, embedded copy, parsed index | look up, sync, stream | unlink then rename, cache against file |
| First-boot queue (`web_server.c`) | ids in NVS, pending count | install head, commit | restart between install and commit |
| Wi-Fi (`wifi_ap.c`) | station flags, reconnect and uplink timers, credentials in NVS | events, set station, drop a weak uplink | one event per attempt, swallowed events, two setters without a lock, one radio for the station and the access point |
| Display and button (`oled_display.c`, `boot_button.c`, `app_main.c`) | transfer flag, QR flag, last drawn status, debounced level | show and clear transfer, QR, status; press | three tasks share one screen |
| Reader routes (`web_server.c`) | the decoder's ring, one response | article, search, browse, redirect | bytes leave before they are verified; one open library for all visitors |
| Title lookup (`title_lookup.c`) | none | exact, prefix and word search | windows over a string table |
| QR encoder (`qr_code.c`) | none | encode | capacity edges, interleaving |
| HTML and URL helpers | none | conversions | |
| Dashboard (`assets/manager.js`) | selection, batch, streams | tick, install, upload, remove, reload | answers lost, page reloaded under a batch |
| Simulator, tools, Cloudflare workers | outside the device | | |

**How they interact.** The httpd task runs one handler at a time, under the
archive lock (`dispatch_locked`). The NimBLE host task runs one callback at a
time; a control command takes the same lock with a two-second limit, while data
writes and the disconnect callback take none. Both reach the pack store, which
owns the volume and the global archive. The metadata mutex orders the scan, the
final part of a replacement and removals, because the status task scans too.
An install stops the BLE host for the TLS download and starts it again. The Wi-Fi
event handler runs in the event loop, its timers above every task, and
`wifi_ap_set_station()` in the httpd task or the BLE host; the uplink timer asks the
display whether a transfer runs. A browser follows links, redirects and the script
of the dashboard against all of this, one request at a time being answered.

**What makes them correct.** The listing is the directory; the reader sees what
is installed; an upload changes the library only as a validated whole; a
response comes from one library; one upload uses the staging file; waiting for
the lock and for the BLE host ends; a download hands over one complete body;
the progress stream stays readable; the catalogue file is whole or missing, the
newer catalogue is the one in use, and a lookup of what it lists succeeds; the
queue loses no pack that was not installed; an archive that is accepted can be read
to its last byte and never past it; an article is sent in order and ended as whole
only when it was verified; a search finds exactly the matches; a reader stays in a library; a station
that is down is tried again, and the access point is left alone when that is
hopeless; the panel returns to the status; a phone can find the device, scan its
symbol and list its packs; the dashboard claims only what happened.

## Modules

| Module | Models | Role |
|---|---|---|
| `PackLibrary` | what the store promises | abstract specification |
| `UploadSlot` | what the two ways of uploading promise together | abstract specification |
| `PackStore` | `pack_store.c` over `content_archive.c` | one upload session in detail, with I/O errors and power loss |
| `PackStoreProofs`, `PackTasksProofs`, `PackInstallProofs`, `CatalogueProofs`, `DeviceProofs`, `BleLinkProofs`, `ArchiveProofs`, `ReaderProofs` | | the theorems; `DeviceProofs` is about `WifiStation`, `Screens` and `Device`, `ArchiveProofs` about `ContentArchive` and `TitleLookup`, `ReaderProofs` about `ReaderRoutes`, `Dashboard` and `ArticleStream` |
| `PackTasks` | `ble_provisioning.c`, pack routes of `web_server.c`, `oled_*_transfer` | the two tasks over one store |
| `PackInstall` | `handle_pack_install()` | download, retries, progress stream |
| `Catalogue` | the catalogue of `web_server.c`, `flash_pack_queue_task()` | cached selection, sync, lookups of two tasks, queue in NVS |
| `CatalogIndex` | `catalog_index.c` | the streaming scanner against the document |
| `WifiStation` | the station of `wifi_ap.c` | events, timers, two setters |
| `Screens` | `oled_display.c`, `boot_button.c`, the status task of `app_main.c` | owners of the panel, the button |
| `Device` | | `WifiStation` composed with `Screens` |
| `ContentArchive` | `content_archive.c` | validation and reads over machine words |
| `ArticleStream` | `serve_article()`, `stream_article_deflate()` | the decoding stream |
| `TitleLookup` | `title_lookup.c`, `handle_search()` | searches against a reference |
| `ReaderRoutes` | library selection, redirects, `handle_browse()` and its script | visitors of one open archive |
| `Dashboard` | `assets/manager.js` | one tab beside the device |
| `QrCode` | `qr_code.c` | the encoder against a reader |
| `BleLink` | NimBLE start, stop, advertising and enumeration of `ble_provisioning.c` | the link `PackTasks` takes for granted |
| `MCPackStore`, `MCPackTasks`, `MCCatalogue`, `MCDevice`, `MCReader` | | instances for TLC |

`MCPackStore`, `MCDevice` and `MCReader` check several modules in one run, *one part at a time*:
`subject` names the part a behaviour is about, the others stand still in one
state, and `Subjects` says which parts a run covers. The parts of one run share no
state (that is what `Device` is for), so nothing is lost, and an invariant of one part
holds in the resting state of the others.

### PackStore

`files` maps paths to contents. Two names with one `Stem` differ only in case
and are one directory entry. `archive`/`active` are `s_ca` and `s_active_name`.
`metadata` is the cache, `upload` the progress of one session.

- `pack_store_open_for_read()` is `OpenForRead`: answered from the open archive
  (no step), `OpenPack`, or `FallBack`. A failed read of another library changes
  nothing and is no step either.
- `pack_store_finish_upload()` is split where another task can run or power can
  fail: `FinishCheck` (close and validate), `FinishMoveAside` (invalidate the
  cache, drop the old backup, rename the old pack), `FinishPlace` or
  `FinishRollBack`, `FinishDone`. The phase holds the metadata mutex from
  `FinishMoveAside` on and the archive lock from `FinishCheck` on.
- `MetadataRefresh` and `Rescan` fail or succeed; a library larger than the cache
  leaves it invalid.
- `PowerLoss` is the cut and `pack_store_init()` together. RAM is lost, the
  volume stays, `.upload.tmp` is unlinked; `.replace.bak` is not, as in the code.
- Every `unlink()` may fail (`Unlinked`, `UnlinkStaging`): the code returns the failure
  of a removal and ignores the others. One that can fail is that of a staging file
  whose handle was dropped (`web_server.c:2052`). `refused` remembers a staging file
  that could not be unlinked; no step of the code depends on it.
- The volume lets open files be renamed and unlinked. The code's comments assume that
  it does not (`pack_store.c:369`, `web_server.c:1805`), but FATFS refuses only when
  `FF_FS_LOCK` is on, and the project's configuration leaves it at the default. A
  refusal is one of the failures every rename and unlink may have anyway.

A rename that overwrites nothing is one step: FATFS updates one directory entry.
Torn sectors inside FATFS or the wear-levelling layer are not modelled. The
contents a stream of writes passes through are one nondeterministic `StageData`.

### PackTasks

Here a file is an inode, because the hazard is two tasks whose handles and path
name different files. `data` records who wrote each block; `Whole` is what
`ca_probe_pack()` accepts, a CRC over the whole file being satisfied by one
writer's complete pack and not by a mixture. `http.phase` is where the one
handler is: not `"idle"` means the archive lock is held. A BLE command is
`SendCommand` (the callback is entered), then `Execute` (lock obtained, the whole
command, lock released) or `TimeOut` (two seconds passed). `WriteData` and
`Disconnect` take no lock. `InstallCheck`/`InstallStop` are the two halves of
`ble_provisioning_suspend()`.

Files can be truncated, renamed and unlinked while they are open, as on the shipped
configuration; a file that is unlinked keeps its inode until the last handle is closed.
FAT may give the clusters of such a file to another at once. That would spoil
files no upload names, and is outside the model.

The steps of a transaction that no unlocked step of the other task can affect are
merged (`SwapIn`); `PackStore` has them apart.

`UploadSlot` is the same without files, handles, locks or phases: whose pack is under
each name, the uploads in progress, and the installed packs an open session still writes
into (`exposed`). An upload that did not begin under another one ends with its client's
whole pack under its own name, or with nothing; two that overlap may leave a mixture, but
only under the names they were begun with. `InstalledBy` reads the library off the blocks
of the installed files. `contended` remembers whether the upload in progress began under
another; no step of the code depends on it.

### PackInstall

Blocks stand for 1 KiB reads. The server may publish another body at any moment
(`Publish`); an open connection keeps delivering the body it started. `Open`,
`ReadBlock`, `ReadTimesOut`, `ReadBreaks`, `Reopen` (`Resume` on 206, `Restart` on
200), `ReadEnds`, `Verify`, `Drain` and `Finish` follow the handler. The progress
stream is abstracted to whether a frame is unsent, partly sent, or torn by bytes
of another.

### Catalogue

Three globals, `ready`, `ok` and `source`, cache which catalogue is active. The httpd
task fills, sets and clears them under the archive lock, the queue task fills them
without it, so every load and store is a step: `TestReady`, `ReadOk`, `Select` (both
headers compared), `StoreReady`, `StoreOk`, `StoreSource`, `Find` are
`catalog_find()`, in the order of its statements and for either task; `ForgetReady`
and `ForgetOk` are `catalog_cache_invalidate()`. `http` is the one request in
progress: a page that looks a name up, the listing (which invalidates at its end),
an install (which invalidates after its lookup), or a sync. The synced file may fail to
open or to be read at each of its three readers: `Select` then takes the embedded document,
`Find` looks there, and `SyncServe` answers with it or breaks off. `unread` and `answer`
remember what the last selection and the last sync met. A document is its place in
the order of `catalog_version` and `generated_at`, with the ids it lists; one that
does not validate is `Garbage`. The sync is `SyncDownload` (the temporary file, with
any outcome), `SyncCheck`, `SyncRemove`, `SyncRename`, the three stores and
`SyncServe`; its refusals before the temporary file is opened change nothing.

The queue task is `QueueStart`, then for every id `QueueLookUp`, `QueueAnswered`,
`QueueInstall` (its request enters the httpd task, or the connection fails),
`InstallEnds` (the install itself is `PackInstall`; here only its result, which
reaches the queue task or is lost) and `QueueCommit`, where NVS may refuse the
write. `PowerLoss` keeps the volume and NVS.

### CatalogIndex

A document is a header and entries; `Tokens` is how it reads, `Fed` one token of the
scanner: one key, one entry, a depth, no stack. A pass may end after any token (the
file is cut off) and asks for the header, a pack, names, or validity. The property
compares the answer with `Expected`, which looks at the document, not at tokens.
Characters, escapes and buffer sizes are texts that fit or do not (`Long`).

### WifiStation, Screens, Device

`link` and `events` are the driver: joining, failing and losing a network post one
event each. `HandleEvent` is `wifi_event()`, `ReconnectTimer` and `UplinkTimer` the
callbacks, and a call of `wifi_ap_set_station()` is `SaveSsid`, `SavePass`, `Detach`,
`ApplyConfig` (again while the driver is busy) and `ApplyConnect`, for each of two
tasks. `esp_wifi_set_config()` and `esp_wifi_connect()` may fail with any error: busy is
tried again, another ends the request at once (`DriverFails`), at boot it is ignored, and
only the reconnect timer schedules another attempt. `refused` remembers a request that
left the station idle in this way.

`Screens` has the two flags `s_transfer_active` and `s_qr_active`, the status task as
`StatusLooks` (flags, then the facts it draws from) and `StatusDraws`, the button as
`Sample` (one poll) and the steps of `show_screen()`. `HttpOpens` is an install that
connects to the pack server, `HttpTransfer` its first frame. `BleHostUp` says that an
install has no BLE host beside it. `Device` joins the two: `StationNext(transferActive)`.

### ContentArchive

A file is its header fields and entries; a length or an offset is a word of
`WordSize` values and wraps where the code adds in 32 bits. `PackValid` and
`FlashValid` are the validations check by check, `LoadPack` the switch, and
`ReadPayload`, `ReadIndex`, `GetArticle` what every reader goes through. The
instance varies every length and offset over all words, two at a time.

### ArticleStream

A frame says for every output byte after which input byte it can be produced, and for
every byte whether it is right. `Inflate` is one call of the inflater with the room the
ring has left, `Refill` the next input block. `response` holds the bytes sent and what was
`added`: `DecodeError` adds a message of failure when nothing was sent before, and
otherwise only the tags every page ends with, so that a browser sees no difference. The
positions in `ring` are those of output bytes, the dictionary's being negative.

### TitleLookup

A byte is a letter, a capital, a space or a mark. `LowerBound`, `PrefixRun` and
`WordStart` are the loops; `ScanTitle` is one title of the scan through the window, a
step, because a read may fail. `SearchExact`, `SearchPrefix`, `SearchWords` and
`SearchShow` are one library of `handle_search()`; `SearchShow` leaves out any titles that
can no longer be read. `SearchIsExact` compares the page with `Matches`, which is said
without searches or windows: the titles where the query begins the title or a word. They come in the
order of `Above`, and one may be missing only from below a full page, or when
something could not be read (`unsearched`).

### ReaderRoutes

A handler holds the archive lock, so a request is a step. `FollowRedirect` is the
browser's second request, and `OthersRead` any other visitor's. `scroll` is the
state of the browse page's script; `FollowPackedLink` sends a Referer that may be
longer than the handler's buffer, or none.

### Dashboard

`Callers` are the batch and the URL form, which both call `installFromDevice()`. The
device side is reduced to one stream it serves, an install that succeeds or fails, and
the end of the stream, which may be cut anywhere. `ReloadTimer` and `PageLoads` are
`location.reload()`.

### QrCode

Every function of `qr_code.c`, with a codeword as the set of its one bits and a symbol
as the set of its dark modules. The reference shares none of it: it reads the mask
from the format bits by the published table, skips what is reserved by position, reads
the codewords in order and checks that each block is a multiple of the generator
(`NoErrors`). The penalty of a line is compared with a definition by positions.

### BleLink

`port`, `s_ble_up`, `s_stopping`, `sync_cb` are the state `bring_up()` and
`bring_down()` share with the host task; any call of the stack may fail, which
`trouble` records. A command is a step (`PackTasks` has the lock it waits for);
`ReadResponse` is the client, which enumerates with INFO and PACK_AT.

## Runs

| Run | Instance | Shows |
|---|---|---|
| `pack_store` | 4 names in 3 directory entries, one pair differing in case, 2 packs, cache of 1 entry; scans of up to 2 of 12 entries with 4 values of `schema`, cut anywhere; about 1 066 000 states | types, `MetadataIsDirectory`, `ServedIsInstalled`, `StagingReclaimed`, refinement `ImplementsLibrary`, `ScanReadsDocument` |
| `replace_open_pack` | 3 names, 2 entries | `ReplacedPackIsClosed` is violated (finding) |
| `power_loss_replace` | same | `PowerLossKeepsPacks` is violated (finding) |
| `pack_tasks` | 2 names, 3 inodes, 2 blocks; about 1 485 000 states up to symmetry | types, `SessionHasClient`, `OverlayMeansTransfer`, `StreamUndisturbed`, refinement `ImplementsSlot` |
| `pack_tasks_progress` | 1 name, 3 inodes, 1 block; about 84 000 states | `NobodyWaitsForever` (commands and requests end) |
| `two_uploads` | 2 names, 5 inodes, 2 blocks | `OneUploadAtATime` is violated (finding) |
| `device` | install: 3 bodies of 2, 2 and 3 blocks, 3 timeouts, 3 reconnections; station: 1 network, 2 setters, 2 weak samples; panel: 3 samples; about 221 000 states | types, `HandedOverIsOneBody`, `WireNeverTorn`, `InstallEnds`, `RadioLeftToAccessPoint`, `StationTried`, `SeenFrameCleared`, `PressIsHeld`, `DownloadKeepsUplink` |
| `uplink_in_transfer` | the uplink alone, with a panel | `TransferKeepsUplink` is violated (finding) |
| `catalogue_race` | 3 documents, the embedded one between an older and a newer, 2 ids, queue empty or of 2 | `LookupsSucceed` is violated (finding) |
| `reader` | ring of 2 bytes, articles of 3; indexes of 2 titles in 2 libraries; words of 16 values; 2 libraries of up to 5 articles, pages of 2, offsets of 8 values; 2 packs, 4 uses; 7 texts and about 2 200 lines; 3 libraries over BLE, 2 failing calls; the catalogue of `catalogue_race`; about 2 022 000 states | types, `RingIsHistory`, `ArticleAnswered`, `SearchIsExact`, `ArchiveIsSound`, `IndexMatchesContent`, `LinksStayInLibrary`, `BrowseShowsEachOnce`, `ClaimedIsInstalled`, `BatchStillFits`, `QrIsRight`, `BleFindable`, `ListingIsWhole`, `CatalogueIsWhole`, `LookupsSucceedAlone`, `SelectionIsRight`, `QueueKeepsUninstalled` |
| `article_tail` | the article stream alone | `IntactArticleServed` is violated (finding) |
| `plausible_text` | same | `PageIsArticle` is violated (finding) |

**Why the bounds are enough.** Three directory entries are the built-in's, the one
being replaced and a bystander; the case pair covers FAT's matching; two packs
tell the old from the new; a cache of one entry is overflowed by the two optional
packs. In `PackTasks` two names are the built-in's and an optional one; three inodes are
an installed pack, the staging file, and one more that a reader or a session holds unlinked
or renamed away, and with all taken the volume is full, which both tasks must survive; five, in
the violating runs, leave room for all at once. Two blocks are the least that can be
mixed; the progress of the tasks does not depend on what is in the blocks, and one name suffices for it.
In `PackInstall` two bodies of one
length and one longer are what a size check can and cannot tell apart; timeouts
and reconnections have the code's own limits. In `Catalogue` a synced document is
older than, equal to or newer than the embedded one, and two ids are one that every document
lists and one that only the newest does; a queue of two has a head and a rest.
Inodes are interchangeable, so the safety runs use symmetry; `pack_tasks_progress`, which
checks liveness, does not.

In `WifiStation` one network and the empty one are what a setter changes between, and
a second sample of a weak signal is what the timer waits for. An article of three
bytes goes once around a ring of two and is produced from frames of up to three;
a dictionary may be empty, shorter than the ring or as long. Two titles with a space or
a mark in them have an order, a shared prefix and a word inside; a page limit of
three cuts the results of two libraries. Words of 16 values make every sum of an
archive's header wrap; the headers are one unit each. Five articles in
pages of two have a whole, a whole and a part; offsets of eight values wrap after the last
page. Packs of one and two units fill a capacity of three exactly. The QR texts
are empty, at or just past the capacity of a version, among them both ends of the largest,
and too long; the lines are
all of up to 10 modules, and those of 14 in doubled modules, which hold the
1:1:3:1:1 pattern.

Deadlock is not checked in `reader`, `article_tail` and `plausible_text`: a search, an
encoding or a session with its uses spent ends there. A scan ends too; `MCPackStore`
lets it stand still then, so that `pack_store` checks deadlock.

**Fairness.** `PackTasks` assumes that a handler that can step does
(`WF(HandlerStep)`): waits on the client end in `recv_patiently()` and socket
timeouts, and waits on the pack server in the install's read limits, at which point
the handler goes on with another disjunct of the same step. `SF(InstallStop)`:
NimBLE serves events in order, so the stop event is reached between two
commands even if a client keeps sending them. `WF(Execute \/ TimeOut)`: a blocked
command gets the lock or the two seconds pass. `PackInstall` has weak fairness of
the handler for the same reason. In `MCDevice` the driver finishes what it was asked
and does not refuse for ever to connect when the reconnect timer asks (a refusal schedules
the timer again), the event loop handles what was posted, the reconnect timer fires, a task inside
`wifi_ap_set_station()` goes on, and the status task runs: all are calls that return or
tasks that sleep for a fixed time. Nothing is assumed of clients, users, the signal,
the pack server or the uplink timer. The other modules state safety only.

## Findings

- **Replacing a pack that is open.** `pack_store_begin_upload()` releases the old
  pack because FAT cannot replace an open file, but the replacement happens at
  the end of the session. A read in between opens it again
  (`replace_open_pack`).
- **A power cut inside a replacement loses both packs.** Between the renames the
  old pack is only `.replace.bak`, which boot ignores, and the new one is
  `.upload.tmp`, which boot deletes (`power_loss_replace`). The documentation
  calls the operation atomic. `PackLibrary` states the promise the code does keep:
  only the pack being replaced can be lost.
- **Two uploads at a time.** BLE and HTTP sessions are not exclusive (`two_uploads`), so
  a pack can change after it was validated: the BLE handle still writes to the file the web
  server validated and renamed under it. `UploadSlot` states what is left: the harm stays
  with the names the overlapping uploads were begun with.
- **A weak uplink is dropped under an install.** The timer takes "the transfer screen is up"
  for "a transfer runs". That is not so before the first frame: while the install connects,
  negotiates TLS and waits for the headers, the timer can take the uplink away
  (`uplink_in_transfer`). From that frame on `DownloadKeepsUplink` holds in `device`. On a
  device without a panel the screen never is up, and the whole download is exposed: the
  configuration of `uplink_in_transfer` with `Panel = FALSE` and `DownloadKeepsUplink` shows it.
- **An intact article can be refused at its last byte.** When the ring fills in the
  call that takes the last input, the stream asks for input it knows is over instead of
  calling the inflater again (`article_tail`). `ArticleAnswered` states that no other
  intact article is refused.
- **A damaged article is served as a page.** The text is sent while it is decoded and its CRC
  compared afterwards; when it differs, the page is closed and the response terminated like
  any other, to be kept for a day (`plausible_text`). The code's own verdict is right
  (`EndedIsVerified`), but only the log hears of it.
- **A catalogue lookup can fail while the cache is being filled.** The flag that says
  the selection was made is stored before its result, and cleared before it, with no
  lock between the two tasks; the queue task then misses a pack that the firmware lists and
  stops until the next boot (`catalogue_race`). Three properties are therefore
  stated for the time no queue is at work (`NothingQueued`): a late store of the
  queue task can also undo the selection a sync has just made.

Some comments disagree without a run of their own. `web_server.c:1943` says the reader
shall "bound the idle wait to 90 s"; the third timeout reconnects (`:1953`) and starts
the count again, so a server that accepts and stays silent is waited for up to four times
as long. `catalog_index.c:82` skips "a nested object's strings", but inside a pack a
nested `id` or `url` replaces the entry's own; `ScanReadsDocument` is therefore stated for
documents without such names. `web_server.c:1283` says the newer
catalogue is active, `web_server.c:1541` that a synced copy is used until the next
sync. A sync that fetches an older document selects it, and the next listing or
install drops it again; `NewerIsActive` states the first reading in the form the code keeps.

Some properties have an edge worth knowing. `StationTried` excepts a station whose last
request failed in the driver: it stays idle until the next request, and nothing documents
otherwise. `StagingReclaimed` excepts a staging file the volume refused to unlink.
`NewerIsActive` excepts a selection made while the synced file could not be read.
`SeenFrameCleared` is about frames the status task has seen, not one shown and cleared within a
sampling period. `LinksStayInLibrary` takes the built-in library as meant when a Referer is
missing or longer than the handler's buffer, and `ScanReadsDocument` leaves out documents whose
nested objects use a field's name or whose keys are too long.

## Proofs

Eight modules hold the theorems; `tlapm M.tla` checks one. Every safety property a
run checks is proved for all values of the constants, except the one named under
"Only model-checked" and the conjunctions `TypesOK`, which are proved part by part.

| Module | Theorem | Statement |
|---|---|---|
| `PackStoreProofs` | `TypeCorrect`, `Invariance` | `Spec => []TypeOK`, `Spec => []IInv` |
| | `ListingIsDirectory` | `Spec => []MetadataIsDirectory` |
| | `ReaderStartsRight`, `ReaderSeesInstalledPack` | `Init => ServedRight`, `Spec => ServedIsInstalled` |
| | `StagingIsReclaimed` | `Spec => []StagingReclaimed` |
| | `StoreImplementsLibrary` | `Spec => ImplementsLibrary` |
| `PackTasksProofs` | `TasksTypeCorrect` | `Spec => []TypeOK` |
| | `SessionsHaveClients` | `Spec => []SessionHasClient` |
| | `OverlaysMeanTransfers` | `Spec => []OverlayMeansTransfer` |
| | `StreamsUndisturbed` | `Spec => StreamUndisturbed` |
| | `UploadsShareOneSlot` | `Spec => ImplementsSlot` |
| `PackInstallProofs` | `InstallTypeCorrect` | `Spec => []TypeOK` |
| | `ProgressIsFramed` | `Spec => []WireNeverTorn` |
| | `InstalledFileIsOneBody` | `Spec => []HandedOverIsOneBody` |
| `CatalogueProofs` | `CatalogueTypeCorrect` | `Spec => []TypeOK` |
| | `SyncedFileIsWhole` | `Spec => []CatalogueIsWhole` |
| | `QueueLosesNothing` | `Spec => []QueueKeepsUninstalled` |
| | `HandlersFindWhatIsListed` | `Spec => []LookupsSucceedAlone` |
| | `HandlersSelectRight` | `Spec => []SelectionIsRight` |
| | `IndexTypeCorrect` | `IndexSpec => []IndexTypeOK` |
| | `CutOffAnswersNothing` | `IndexSpec => [](ReadToTheEnd /\ FoundWasAsked)` |
| | `CatalogueReadAsPublished` | `IndexSpec => []ScanReadsDocument` |
| `DeviceProofs` | `StationTypeCorrect` | `StationSpec => []StationTypeOK` |
| | `RadioIsLeft` | `StationSpec => []RadioLeftToAccessPoint` |
| | `ScreensTypeCorrect` | `ScreensSpec => []ScreensTypeOK` |
| | `PressesAreHeld` | `ScreensSpec => PressIsHeld` |
| | `PanelKeepsDownload` | `DeviceSpec => DownloadKeepsUplink`, assuming `Panel` |
| `BleLinkProofs` | `LinkTypeCorrect` | `LinkSpec => []LinkTypeOK` |
| | `DeviceFindable` | `LinkSpec => []BleFindable` |
| | `ListingsAreWhole` | `LinkSpec => []ListingIsWhole` |
| `ArchiveProofs` | `ArchiveTypeCorrect` | `ArchiveSpec => []ArchiveTypeOK` |
| | `IndexBelongsToContent` | `ArchiveSpec => []IndexMatchesContent` |
| | `ArchivesAreSound` | `ArchiveSpec => []ArchiveIsSound` |
| | `SearchTypeCorrect` | `SearchSpec => []SearchTypeOK` |
| | `SearchesAreExact` | `SearchSpec => []SearchIsExact` |
| `ReaderProofs` | `ReaderTypeCorrect` | `ReaderSpec => []ReaderTypeOK` |
| | `ReadersStayInLibrary` | `ReaderSpec => []LinksStayInLibrary` |
| | `BrowsingShowsEachOnce` | `ReaderSpec => []BrowseShowsEachOnce` |
| | `DashboardTypeCorrect` | `DashboardSpec => []DashboardTypeOK` |
| | `ReportsAreTrue` | `DashboardSpec => []ClaimedIsInstalled` |
| | `BatchesFit` | `DashboardSpec => []BatchStillFits` |
| | `ArticleTypeCorrect` | `ArticleSpec => []ArticleTypeOK` |
| | `RingHoldsHistory` | `ArticleSpec => []RingIsHistory` |
| | `AnswersAreTrue` | `ArticleSpec => []ArticleAnswered` |
| | `SymbolsAreSmallest` | `QrSpec => []SmallestDrawn` |

A part with a specification of its own (`StationSpec`, `ArticleSpec`, ...) is what the
MC module's `Spec` is when that part is the subject: the same `Init` and the same next
step, without the fairness, which no theorem here uses.

### The invariants and why they are needed

Hardly a property above is inductive. What each proof adds to it is what the code
knows, at each line, of what went before.

- **Pack store.** `IInv` adds `UploadInv`, what each phase knows: a checked or swapping
  session has a valid pack in the staging file, after `FinishMoveAside` the entry is
  empty, a replaced file is in the backup, and once the pack is placed the staging path
  is empty. It also adds that the cache is invalid from `FinishMoveAside` to the end,
  which holds because the metadata mutex keeps the scan out. The refinement follows the
  same split: staging, caches, reads and the guide marker stutter; `FinishMoveAside`
  starts a replacement; `FinishPlace` maps to the install and `FinishDone` to a stutter;
  a rollback keeps or loses the entry; a power cut loses at most the entry being replaced.
- **Two tasks.** `ClientInv`: BLE is stopped only under no session and no command,
  because the archive lock keeps BEGIN out from the check of the connection on, and
  `nimble_port_stop()` waits for the callback. The refinement to `UploadSlot` needs
  `SlotInv`: a file is at one path, except that a session's may be an installed pack
  (`PlacesInv`); what an upload opened holds nothing of an old pack (`RenewedInv`); and an
  upload that no other joined has the staging file for itself, with its own blocks in it as
  far as it has come (`ApartInv`), so that what is validated at its end is its client's pack.
- **Install.** `BytesInv` relates the block counter to the staging file, each connection
  to the body it was opened on, and the expected length to both; `RetriesInv` bounds the
  silence of a download by `ReadTimeouts * (Reconnects + 1)`; `HandOverInv` says that
  without a catalogued digest the file is what one connection delivered, and that with
  one nothing passes `Verify` but the catalogued body.
  `WireInv` says that a frame is half sent only while its tail is still to be sent.
- **Catalogue.** `FileInv`: what is about to be renamed is valid. `QueueInv`: NVS and the
  task's copy hold an end of what was flashed, and the head leaves NVS only installed.
  `AloneInv` follows the handler's lookup and the sync statement by statement when no
  queue is at work: which of the three globals can be trusted where.
- **Scanner.** `Walk` gives every token of a document its level: zero before the first and
  after the last, and nowhere between (`DocumentWalks`, by induction over the entries).
  `IndexInv` says that the scanner's depth is the level of the token it stands at, so a
  pass that ends on depth zero with a schema has read everything.
  What a document that is read to its end is answered is shown by composition, as one
  proves a program from its parts. `Takes(A, w, B)` says that from every scanner of the set `A`
  the tokens `w` lead into `B`; it is proved of one token (`TakesToken`), of one row behind
  another (`TakesConcat`), of parts with commas between (`TakesJoined`), and so of a field, a
  nested value, an entry and the document. Between entries the set is `Stage`: after the first
  `n` the scanner is done if those have every id asked for, holds what they say, and has
  failed only if one it needed cannot be used. `ReadInv` ties a behaviour to this: the
  scanner stands somewhere on such a walk through its document, with the rest unread.
- **Station and panel.** `ConnectingIsWanted`: a setter about to connect has taken the
  uplink back first. `CandidateSeen` ties the debouncer's count to the samples it has
  seen. `DownloadIsShown` ties the transfer screen to a download, and needs a panel.
- **Bluetooth.** `PortInv` relates how far an install is in stopping the host to the
  state of the port and to the callback being registered; `AnswerHolds` says what each
  answer a client may still read meant when it was written.
- **Archive.** `FlashOpen` or `PackOpen`: the archive is the flash one or the file that
  is open, and that file was valid. From there the proof is arithmetic: each addition of
  the readers stays below `WordSize`, since the validation bounded the whole.
- **Search.** `SearchInv` holds three facts together. `Mirrors`: what the window holds is
  the table's bytes at its offset, so what the scan sees of a title is the title. `IdsRight`:
  what one library has yielded is in page order, and a match not yet in it comes after
  all that is, with the page full or the scan not there yet. `PageRight`: the same of the
  libraries that are done. The binary search is shown right by induction on the width of
  the range (`KeptIsSearched`, `SearchesAgree`): it returns the number of titles before the
  query, so a match that begins with the query lies in the run after it
  (`PrefixesAdjoin`), and the title that is the query is first of them.
- **Reader routes.** `LinkKept` follows a redirect from the link to the page. `ScrollKept`
  says that a page still watched shows a run of articles up to its offset.
- **Dashboard.** `StreamKept` and `BatchKept`: what a result line says has landed, and
  what the batch has behind it landed. `PacksKept`, `BarKept` and `RoomKept`: where the
  button can be pressed, the selection fits what the page says is free, and that is free
  until something other than the page's own batch changes the library. Weights are sums
  over sets; that there is one sum, and that it does not depend on the order, is shown
  from a smallest counterexample (`SmallestSet`, `WeightSplits`).
- **Articles.** `HistoryKept`, for every byte a back-reference may reach, its place in
  the ring, by residues (`ResiduesDiffer`); `BodyKept`, that what was sent is a beginning
  of the article; `RefusalKept`, that an intact frame with nothing against it has input
  left until its end.

A step that preserves an invariant is proved action by action; parts that share many
actions are grouped by what those actions leave alone.

### Assumptions

All are the named assumptions of the modules, which TLC evaluates on every run:
sentinels are not values, bounds are numbers, and

- `IndexAssumption`: an entry is a row of texts, numbers and values with fields of their
  own, and the ids asked for are finitely many;
- `TasksAssumption`: the volume has room for every pack (there are as many files as names);
- `LinkAssumption`: a directory lists no file twice, nor the library in flash
  (`pack_store.c:164`), and removing a pack leaves a directory there may be;
- `ArchiveAssumption`: lengths and offsets are words, a file is shorter than 2^32 bytes,
  and the two flash partitions together are (`src/firmware/partitions.csv`);
- `ReaderAssumption`: an offset can be written that lies past any library by a page;
- `QrAssumption`: a text is a sequence of bytes, and `NULL` is none;
- `InstallAssumption`: there is a longest body, and none is empty;
- `TitleAssumption`: texts are sequences of numbers, and the window is no shorter than the
  longest title (`title_lookup.c:158`, `title_lookup.c:184`).

Proving them changed the models in four places. In `CatalogIndex` what an entry is made of
is said of every entry, not only of those the run lists, and `Expected` had to learn three
answers the run had no entry for, which are now in its bounds: a value of another kind than the key's
is no value, a number too large fails an entry wherever it stands in it, and a `schema` too
large is not one. In `PackTasks` opening the staging file is refused when the volume has no
room for one. In `PackInstall` a phase no step reached is gone. In
`TitleLookup` the page leaves out a title that cannot be read, and what a search means is
said of order and completeness, where it was compared with a second way to list the titles.

### Only model-checked

- `InstallEnds`, `StationTried`, `SeenFrameCleared`, `NobodyWaitsForever`: liveness and
  `ENABLED` are outside the proof system's reach.
- `QrIsRight`, but for its first part, `SmallestDrawn` (the table of capacities against the
  data codewords), and the types of `QrCode`: the symbol is a chain of folds over codewords in
  GF(256). The provers take no induction scheme; each function needs its own argument from
  a smallest counterexample, as was found for the binary search, for the weights of
  `Dashboard` and for the tokens of a catalogue.

## Not modelled

- HTML and URL helpers: stateless conversions over strings, with golden tests of their own.
- Wire formats (BLE frames, JSON of the listing and status routes), pages and styles: layout.
- Free-space accounting: a refusal for lack of space is a nondeterministic choice, except
  in `Dashboard`, where the page's own budget is the subject.
- Driver set-up in `wifi_ap_init()`, the network scan, SNTP, the DNS responder, drawing
  on the panel: calls of the SDK that keep no state another part reads.
- CRC and SHA-256: one fact of a file, right or not. DEFLATE: its contract.
- Torn sectors inside FATFS or the wear-levelling layer.
- Host simulator, build tools, hosting workers, vendored code, generated assets: not part
  of the device's state.

## Plan

Done: every component with state of its own has a module, and every safety property
but one is proved.

1. One refinement from `PackStore` and `PackTasks` together: `SwapIn` related to the steps of
   `PackStore` it merges.
