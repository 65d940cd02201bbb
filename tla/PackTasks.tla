------------------------------ MODULE PackTasks ------------------------------
(***************************************************************************)
(* The tasks that share the pack store: the one httpd task of web_server.c *)
(* and the one NimBLE host task of ble_provisioning.c.  A request holds    *)
(* the archive lock from dispatch to its last byte; a BLE control command  *)
(* waits two seconds for that lock and runs under it; BLE data writes and  *)
(* the disconnect callback take no lock.  Both tasks stage uploads in the  *)
(* same "/packs/.upload.tmp", so what a FILE* refers to matters: a file    *)
(* here is an inode, which paths and open handles name.  The shipped       *)
(* sdkconfig leaves FATFS_FS_LOCK at 0: the volume truncates, renames and  *)
(* unlinks open files, and their handles live on.                          *)
(*                                                                         *)
(* PackStore models the transaction of one session in detail, with its     *)
(* I/O errors, the metadata cache and power loss.                          *)
(***************************************************************************)
EXTENDS Naturals, FiniteSets, Functions

CONSTANTS
    Names,            \* pack names
    Builtin,          \* the name of the library in flash
    Inodes,           \* files on the volume
    None,             \* no file, no command, no session
    Parts             \* blocks of a pack

ASSUME TasksAssumption ==
    /\ Builtin \in Names
    /\ None \notin Inodes \cup Names
    /\ \E place \in [Names -> Inodes] : IsInjective(place)   \* room for every pack
    /\ Parts \in Nat \ {0}

VARIABLES
    http,      \* the request in progress: phase, pack, staging handle, blocks
    command,   \* the control command the BLE host task is blocked in, or None
    session,   \* s_upload of the BLE service, or NoSession
    conn,      \* s_conn: a BLE client is connected
    bleUp,     \* s_ble_up
    temp,      \* the inode at "/packs/.upload.tmp", or None
    packs,     \* the inode installed under each name, or None
    data,      \* who wrote each block of an inode
    reader,    \* s_ca and s_active_name: the open inode (None: flash), the name
    overlay,   \* s_transfer_active: the transfer screen is up
    contended  \* history: the last upload begun found the other task's open

ble == <<command, session, conn, bleUp>>
volume == <<temp, packs, data>>
vars == <<http, ble, volume, reader, overlay, contended>>

Blocks == 1 .. Parts
Writers == {"http", "ble", "old"}
Blank == [b \in Blocks |-> "hole"]
NoRequest == [phase |-> "idle", name |-> None, handle |-> None, part |-> 0]
NoSession == [name |-> None, handle |-> None, part |-> 0]
BuiltinReader == [file |-> None, name |-> Builtin]
Phases == {"stream", "upload", "check", "stop", "load", "probe", "swap"}
Commands == [op : {"begin", "delete"}, name : Names] \cup
            [op : {"commit", "abort", "packAt"}, name : {None}]

TypeOK ==
    /\ http \in {NoRequest} \cup
               [phase : Phases, name : Names, handle : Inodes \cup {None}, part : 0 .. Parts]
    /\ command \in Commands \cup {None}
    /\ session \in {NoSession} \cup [name : Names, handle : Inodes, part : 0 .. Parts]
    /\ conn \in BOOLEAN
    /\ bleUp \in BOOLEAN
    /\ temp \in Inodes \cup {None}
    /\ packs \in [Names -> Inodes \cup {None}]
    /\ data \in [Inodes -> [Blocks -> Writers \cup {"hole"}]]
    /\ reader \in [file : Inodes \cup {None}, name : Names]
    /\ overlay \in BOOLEAN
    /\ contended \in BOOLEAN

------------------------------------------------------------------------------
(* The volume. *)

OpenInodes == {http.handle, session.handle, reader.file} \ {None}
FreeInodes == Inodes \ (OpenInodes \cup Range(packs) \cup {temp})

(* What ca_probe_pack() accepts: one writer's complete pack. *)
Whole(i) == \E w \in Writers : \A b \in Blocks : data[i][b] = w
Readable(i) == i # None /\ Whole(i)

(* fopen(temp, "wb") truncates the file at the path, open or not, or       *)
(* creates one.  It may also fail.                                         *)
StagingOpens(i) ==
    /\ \/ i = temp
       \/ temp = None /\ FreeInodes # {} /\ i = CHOOSE j \in FreeInodes : TRUE
    /\ temp' = i
    /\ data' = [data EXCEPT ![i] = Blank]

(* unlink() of the path, which by then may name a file of the other task.  *)
(* Nobody looks at its result.                                             *)
StagingUnlinked == temp' \in {None, temp}

(* ca_probe_pack() of the staging path, then the renames of the swap, any  *)
(* of which may fail (PackStore also fails the rename that puts the old    *)
(* pack back).  The unlocked steps of the other task reach only the        *)
(* staging path and inode, so all they change is whether the last rename   *)
(* finds its file.                                                         *)
SwapIn(n) ==
    \/ /\ temp # None
       /\ packs' = [packs EXCEPT ![n] = temp]
       /\ temp' = None
    \/ StagingUnlinked /\ UNCHANGED packs

------------------------------------------------------------------------------
(* The active archive. *)

(* pack_store_open_for_read() *)
CanRead(n) == n = Builtin \/ Readable(packs[n]) \/ (packs[n] # None /\ reader.name = n)
ReaderOf(n) ==
    IF packs[n] # None /\ reader.name = n /\ reader.file # None THEN reader
    ELSE IF Readable(packs[n]) THEN [file |-> packs[n], name |-> n]
    ELSE BuiltinReader

(* release_pack_file() *)
Released(r, n) == IF r.name = n THEN BuiltinReader ELSE r

(* pack_store_remove(): its unlink() may fail. *)
RemovePack(n) ==
    /\ reader' = Released(reader, n)
    /\ packs' \in {packs, [packs EXCEPT ![n] = None]}
    /\ UNCHANGED <<temp, data>>

------------------------------------------------------------------------------
(* The httpd task.  dispatch_locked() holds the archive lock for the whole *)
(* request, so the lock is taken exactly while a request is in progress;   *)
(* a BLE command holds it within one step.                                 *)

LockIgnored == TRUE                        \* a command that takes no lock
ArchiveLockFree == http.phase = "idle"

StartRequest(phase, n, i) ==
    http' = [phase |-> phase, name |-> n, handle |-> i, part |-> 0]

HttpRead(n) ==
    /\ http.phase = "idle"
    /\ CanRead(n)
    /\ reader' = ReaderOf(n)
    /\ StartRequest("stream", n, None)
    /\ UNCHANGED <<ble, volume, overlay, contended>>

HttpStreamed ==
    /\ http.phase = "stream"
    /\ http' = NoRequest
    /\ UNCHANGED <<ble, volume, reader, overlay, contended>>

HttpDelete(n) ==
    /\ http.phase = "idle"
    /\ RemovePack(n)
    /\ UNCHANGED <<http, ble, overlay, contended>>

(* handle_pack_upload(): a refused pack_store_begin_upload() answers 507. *)
HttpUpload(n) ==
    /\ http.phase = "idle"
    /\ reader' = Released(reader, n)
    /\ \/ /\ \E i \in Inodes : StagingOpens(i) /\ StartRequest("upload", n, i)
          /\ overlay' = TRUE
          /\ contended' = (session # NoSession)
       \/ UNCHANGED <<http, temp, data, overlay, contended>>
    /\ UNCHANGED <<ble, packs>>

(* handle_pack_install(): the staging file is opened before the BLE client *)
(* check that may refuse the request.                                      *)
HttpInstall(n) ==
    /\ http.phase = "idle"
    /\ \/ /\ reader' = Released(ReaderOf(Builtin), n)
          /\ \/ /\ \E i \in Inodes : StagingOpens(i) /\ StartRequest("check", n, i)
                /\ contended' = (session # NoSession)
             \/ UNCHANGED <<http, temp, data, contended>>
       \/ /\ reader' = ReaderOf(Builtin)    \* no space, no uplink, no clock
          /\ UNCHANGED <<http, temp, data, contended>>
    /\ UNCHANGED <<ble, packs, overlay>>

Abandon ==
    /\ StagingUnlinked
    /\ http' = NoRequest

(* ble_provisioning_suspend(): the check of s_conn, then nimble_port_stop(), *)
(* which returns when the host task has left its callback.                   *)
ClientUnchecked == FALSE
ClientConnected == conn

InstallCheck ==
    /\ http.phase = "check"
    /\ \/ /\ bleUp /\ ClientConnected
          /\ Abandon
       \/ /\ bleUp /\ ~ ClientConnected
          /\ http' = [http EXCEPT !.phase = "stop"]
          /\ UNCHANGED temp
       \/ /\ ~ bleUp
          /\ http' = [http EXCEPT !.phase = "load"]
          /\ UNCHANGED temp
    /\ UNCHANGED <<ble, packs, data, reader, overlay, contended>>

InstallStop ==
    /\ http.phase = "stop"
    /\ command = None
    /\ \/ /\ http' = [http EXCEPT !.phase = "load"]
          /\ bleUp' = FALSE
          /\ conn' = FALSE
          /\ UNCHANGED temp
       \/ /\ Abandon                         \* nimble_port_stop() failed: 503
          /\ UNCHANGED <<bleUp, conn>>
    /\ UNCHANGED <<command, session, packs, data, reader, overlay, contended>>

(* One block arrives and is written; the transfer screen may show it. *)
RemainingOffByOne == http.part <= Parts
Remaining == http.part < Parts

HttpReceive ==
    /\ http.phase \in {"upload", "load"}
    /\ Remaining
    /\ http' = [http EXCEPT !.part = @ + 1]
    /\ data' = [data EXCEPT ![http.handle][http.part + 1] = "http"]
    /\ overlay' \in {overlay, TRUE}      \* not every block redraws the screen
    /\ UNCHANGED <<ble, temp, packs, reader, contended>>

Resumed == bleUp' \in {bleUp, TRUE}        \* bring_up() can fail
OverlayLeft == overlay' = overlay
OverlayCleared == overlay' = FALSE

(* The client stalls, the download fails, or storage runs full. *)
HttpGiveUp ==
    /\ http.phase \in {"upload", "load"}
    /\ Abandon
    /\ OverlayCleared
    /\ IF http.phase = "load" THEN Resumed ELSE UNCHANGED bleUp
    /\ UNCHANGED <<command, session, conn, packs, data, reader, contended>>

(* The body is complete.  An install brings BLE back and clears the screen *)
(* first, then pack_store_finish_upload() closes the staging handle.       *)
HttpComplete ==
    /\ http.phase \in {"upload", "load"}
    /\ http.part = Parts
    /\ http' = [http EXCEPT !.phase = "probe", !.handle = None]
    /\ IF http.phase = "load" THEN Resumed /\ OverlayCleared ELSE UNCHANGED <<bleUp, overlay>>
    /\ UNCHANGED <<command, session, conn, volume, reader, contended>>

HttpProbe ==
    /\ http.phase = "probe"
    /\ \/ /\ Readable(temp)
          /\ http' = [http EXCEPT !.phase = "swap"]
          /\ UNCHANGED <<temp, overlay>>
       \/ /\ ~ Readable(temp)
          /\ Abandon
          /\ OverlayCleared
    /\ UNCHANGED <<ble, packs, data, reader, contended>>

HttpSwap ==
    /\ http.phase = "swap"
    /\ SwapIn(http.name)
    /\ http' = NoRequest
    /\ OverlayCleared
    /\ UNCHANGED <<ble, data, reader, contended>>

------------------------------------------------------------------------------
(* The NimBLE host task: one callback at a time. *)

HostIdle == bleUp /\ command = None

Connect ==
    /\ HostIdle
    /\ ~ conn
    /\ conn' = TRUE
    /\ UNCHANGED <<http, command, session, bleUp, volume, reader, overlay, contended>>

(* abort_upload() *)
AbortSession ==
    /\ IF session = NoSession THEN UNCHANGED temp ELSE StagingUnlinked
    /\ session' = NoSession
    /\ OverlayCleared

(* gap_event(): the disconnect aborts the upload without the archive lock. *)
DisconnectAborts == AbortSession
Disconnect ==
    /\ HostIdle
    /\ conn
    /\ DisconnectAborts
    /\ conn' = FALSE
    /\ UNCHANGED <<http, command, bleUp, packs, data, reader, contended>>

SendCommand(c) ==
    /\ HostIdle
    /\ conn
    /\ command' = c
    /\ UNCHANGED <<http, session, conn, bleUp, volume, reader, overlay, contended>>

(* begin_upload(): one session per BLE service. *)
SessionIgnored == TRUE                     \* a BEGIN that asks for no session
SessionFree == session = NoSession
Begin(n) ==
    \/ ~ SessionFree /\ UNCHANGED <<session, volume, reader, overlay, contended>>
    \/ /\ SessionFree
       /\ reader' = Released(reader, n)
       /\ UNCHANGED packs
       /\ \/ /\ \E i \in Inodes : /\ StagingOpens(i)
                                  /\ session' = [name |-> n, handle |-> i, part |-> 0]
             /\ overlay' = TRUE
             /\ contended' = FALSE
          \/ /\ OverlayCleared
             /\ UNCHANGED <<session, temp, data, contended>>

(* commit_upload(): received and CRC match, or the session is aborted. *)
Commit ==
    \/ session.part # Parts /\ AbortSession /\ UNCHANGED <<packs, data, reader>>
    \/ /\ session.part = Parts
       /\ session' = NoSession
       /\ OverlayCleared
       /\ IF Readable(temp) THEN SwapIn(session.name)
          ELSE StagingUnlinked /\ UNCHANGED packs
       /\ UNCHANGED <<data, reader>>

(* control_access() with the archive lock. *)
Execute ==
    /\ command # None
    /\ ArchiveLockFree
    /\ \/ command.op = "begin" /\ Begin(command.name)
       \/ command.op = "commit" /\ Commit /\ UNCHANGED contended
       \/ /\ command.op = "abort"
          /\ AbortSession
          /\ UNCHANGED <<packs, data, reader, contended>>
       \/ /\ command.op = "delete"
          /\ RemovePack(command.name)
          /\ UNCHANGED <<session, overlay, contended>>
       \/ /\ command.op = "packAt"               \* respond_pack_at(0)
          /\ reader' = ReaderOf(Builtin)
          /\ UNCHANGED <<session, volume, overlay, contended>>
    /\ command' = None
    /\ UNCHANGED <<http, conn, bleUp>>

(* control_access() after two seconds without it: PW_BLE_IO_ERROR. *)
WaitForever == FALSE
LockTimeout == http.phase # "idle"
TimeOut ==
    /\ command # None
    /\ LockTimeout
    /\ command' = None
    /\ UNCHANGED <<http, session, conn, bleUp, volume, reader, overlay, contended>>

(* data_access(): no lock.  A failed write aborts the session. *)
WriteData ==
    /\ HostIdle
    /\ session # NoSession
    /\ session.part < Parts
    /\ \/ /\ data' = [data EXCEPT ![session.handle][session.part + 1] = "ble"]
          /\ session' = [session EXCEPT !.part = @ + 1]
          /\ overlay' = TRUE
          /\ UNCHANGED temp
       \/ AbortSession /\ UNCHANGED data
    /\ UNCHANGED <<http, command, conn, bleUp, packs, reader, contended>>

------------------------------------------------------------------------------
HttpNext ==
    \/ \E n \in Names : HttpRead(n) \/ HttpDelete(n) \/ HttpUpload(n) \/ HttpInstall(n)
    \/ HttpStreamed \/ InstallCheck \/ InstallStop \/ HttpReceive \/ HttpGiveUp
    \/ HttpComplete \/ HttpProbe \/ HttpSwap

BleNext ==
    \/ Connect \/ Disconnect \/ Execute \/ TimeOut \/ WriteData
    \/ \E c \in Commands : SendCommand(c)

Next == HttpNext \/ BleNext

(* One inode for each installed name; which one it is does not matter. *)
PlacedAtBoot(installed) ==
    CHOOSE f \in [Names -> Inodes \cup {None}] :
        /\ \A n \in Names : f[n] # None <=> n \in installed
        /\ IsInjective(Restrict(f, installed))

(* After boot: the volume holds old packs, BLE is up, nobody is connected. *)
Init ==
    /\ http = NoRequest
    /\ command = None /\ session = NoSession /\ conn = FALSE /\ bleUp = TRUE
    /\ temp = None
    /\ \E installed \in SUBSET Names : packs = PlacedAtBoot(installed)
    /\ data = [i \in Inodes |-> IF i \in Range(packs) THEN [b \in Blocks |-> "old"] ELSE Blank]
    /\ reader = BuiltinReader
    /\ overlay = FALSE
    /\ contended = FALSE

(* Every request makes progress: a handler's waits on its client and on    *)
(* the pack server are bounded (recv_patiently(), the read timeouts of the *)
(* install), and the NimBLE host takes the stop event from a FIFO queue,   *)
(* so clients that keep sending commands cannot postpone it forever.       *)
HandlerStep ==
    HttpStreamed \/ InstallCheck \/ HttpReceive \/ HttpComplete \/ HttpProbe \/ HttpSwap

Fairness ==
    /\ WF_vars(HandlerStep)
    /\ SF_vars(InstallStop)
    /\ WF_vars(Execute \/ TimeOut)

Spec == Init /\ [][Next]_vars /\ Fairness

------------------------------------------------------------------------------
(* Properties *)

(* "The lock keeps the BLE service from closing a pack file the web server *)
(* is streaming" (docs/ARCHITECTURE.md:87-88): from the moment a handler   *)
(* opened a library until its response ends, nobody else switches it.      *)
StreamUndisturbed ==
    [][http.phase = "stream" /\ http'.phase = "stream" => UNCHANGED reader]_vars

(* An upload session belongs to a connected client: none survives its      *)
(* connection, and BLE is never stopped under one, so no staging handle is *)
(* leaked and no client finds BEGIN refused for good                       *)
(* (ble_provisioning.c:222, 397-400, 474).                                 *)
SessionHasClient == session # NoSession => conn /\ bleUp

(* The transfer screen goes away with the transfers: the status task and   *)
(* the button wait for it (app_main.c:83, boot_button.c:94).               *)
OverlayMeansTransfer ==
    overlay => session # NoSession \/ http.phase \in {"upload", "load", "probe", "swap"}

(* A control command is answered, whatever the web server is doing.        *)
CommandAnswered == command # None ~> command = None

(* A request ends, an install included, which holds the archive lock while *)
(* it waits for the host task to stop, which may be waiting for the lock.  *)
RequestEnds == http.phase # "idle" ~> http.phase = "idle"

(* "The device accepts one upload at a time" (docs/ARCHITECTURE.md:123).   *)
OneUploadAtATime ==
    ~ (session # NoSession /\ http.phase \in {"upload", "check", "stop", "load"})

(* Whose pack is installed under each name, and whose uploads are going on.*)
Author(blocks) ==
    IF \E w \in Writers : \A b \in Blocks : blocks[b] = w
    THEN CHOOSE w \in Writers : \A b \in Blocks : blocks[b] = w
    ELSE "mixture"
InstalledBy == [n \in Names |-> IF packs[n] = None THEN None ELSE Author(data[packs[n]])]

BleUploads ==
    IF session = NoSession THEN {} ELSE {[name |-> session.name, by |-> "ble"]}
WebUploads ==
    IF http.phase \in {"idle", "stream"} THEN {} ELSE {[name |-> http.name, by |-> "http"]}
UploadsInProgress == BleUploads \cup WebUploads

(* The packs that an open session still writes into. *)
WrittenInto == {n \in Names : session # NoSession /\ packs[n] = session.handle}

Slot == INSTANCE UploadSlot WITH
    library <- InstalledBy, uploads <- UploadsInProgress, exposed <- WrittenInto,
    Clients <- {"http", "ble"}, Old <- "old", Mixture <- "mixture", Nothing <- None

(* An upload that did not begin under another one ends with its client's   *)
(* whole pack under the name it was begun with, or with nothing, whatever  *)
(* the other task does meanwhile; and what uploads that did overlap spoil  *)
(* goes no further than the names they were begun with                     *)
(* (pack_store.c:366-420, ble_provisioning.c:219-292, web_server.c:1219).  *)
ImplementsSlot == Slot!Spec

(* The two tasks wait for each other both ways: a command for the archive  *)
(* lock, an install, which holds it, for the host task.  Neither waits for *)
(* good (ble_provisioning.c:306, 474, web_server.c:1848).                  *)
NobodyWaitsForever == CommandAnswered /\ RequestEnds
==============================================================================
