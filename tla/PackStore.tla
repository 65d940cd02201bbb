------------------------------ MODULE PackStore ------------------------------
(***************************************************************************)
(* pack_store.c over content_archive.c: the pack files on the FAT volume,  *)
(* the one active archive, the metadata cache, and the transaction that    *)
(* stages, validates and swaps in a pack, with power loss at every step.   *)
(*                                                                         *)
(* Every call on the volume may fail, and the code mostly goes on as if it *)
(* had not.  An I/O error is one reason; another is a file that is still   *)
(* open, where the volume is built to refuse moving it (FATFS_FS_LOCK).    *)
(* The firmware's own configuration does not build it so: there an open    *)
(* file moves, and its handle goes on reading what it was opened on.       *)
(*                                                                         *)
(* The module has one upload session at a time, which is what              *)
(* docs/ARCHITECTURE.md promises; PackTasks models the tasks that share    *)
(* the store.  Two locks order the steps, as in the code: the archive lock *)
(* is held by whoever opens, begins, finishes or removes, the metadata     *)
(* mutex by the scan and by the final part of finish and remove.           *)
(***************************************************************************)
EXTENDS Naturals, FiniteSets

CONSTANTS
    Names,               \* pack names pack_store_safe_name() accepts
    Builtin,             \* "pocketwiki", the name of the library in flash
    Stems,               \* directory entries; FAT ignores the case of a name
    Stem,                \* the directory entry of each name
    Packs,               \* file contents that pass ca_probe_pack()
    Unreadable,          \* a file content that does not
    NoFile,              \* no such file
    Temp, Backup,        \* "/packs/.upload.tmp" and "/packs/.replace.bak"
    Flash, NoArchive,    \* the archive in flash, and no valid archive at all
    Nobody,              \* no upload session
    MetadataCacheItems   \* PW_METADATA_CACHE_ITEMS

ASSUME NamesAssumption ==
    /\ Builtin \in Names
    /\ Stem \in [Names -> Stems]

ASSUME PathsAssumption ==
    /\ Temp \notin Stems
    /\ Backup \notin Stems
    /\ Temp # Backup

ASSUME ContentsAssumption ==
    /\ NoFile \notin Packs
    /\ Unreadable \notin Packs
    /\ NoFile # Unreadable
    /\ Flash \notin Packs
    /\ NoArchive \notin Packs
    /\ Flash # NoArchive

ASSUME CacheAssumption ==
    /\ MetadataCacheItems \in Nat
    /\ Nobody \notin Names
    /\ Nobody \notin Stems

VARIABLES
    files,        \* the FAT volume: path -> content
    flash,        \* what ca_init() finds in the flash partitions
    archive,      \* s_ca: a pack content, Flash, or NoArchive
    active,       \* s_active_name
    metadata,     \* the metadata cache: s_metadata_valid and its entries
    upload,       \* the session: phase, pack name, whether a file was replaced
    guideHidden,  \* s_guide_hidden
    guideMarker,  \* the marker file "/packs/.guide-hidden" exists
    refused       \* history: the last unlink() of the staging file failed

guideVars == <<guideHidden, guideMarker>>
vars == <<files, flash, archive, active, metadata, upload, guideVars, refused>>

Paths == Stems \cup {Temp, Backup}
Contents == Packs \cup {Unreadable, NoFile}
NoUpload == [phase |-> "idle", name |-> Nobody, hadOld |-> FALSE]
Phases == {"staging", "checked", "swapping", "placed"}
Uploads == {NoUpload} \cup [phase : Phases, name : Names, hadOld : BOOLEAN]

TypeOK ==
    /\ files \in [Paths -> Contents]
    /\ flash \in {Flash, NoArchive}
    /\ archive \in Packs \cup {Flash, NoArchive}
    /\ active \in Names
    /\ metadata \in [valid : BOOLEAN, packs : SUBSET (Stems \X Packs)]
    /\ upload \in Uploads
    /\ guideHidden \in BOOLEAN
    /\ guideMarker \in BOOLEAN
    /\ refused \in BOOLEAN

------------------------------------------------------------------------------
(* Locks.  finish_upload() runs inside a locked request or command, so the *)
(* archive lock is free while a session is only being filled.              *)

ArchiveLockFree == upload.phase \in {"idle", "staging"}
MetadataMutexFree == upload.phase \notin {"swapping", "placed"}

------------------------------------------------------------------------------
(* The active archive. *)

(* ca_load_pack() left the pack file of the active name open. *)
OpenFile(s) == archive \in Packs /\ Stem[active] = s

(* release_pack_file(): close the archive when it is the named pack. *)
ReleasedCaseSensitive(n) == active = n /\ archive \in Packs  \* strcmp for strcasecmp
Released(n) == Stem[active] = Stem[n] /\ archive \in Packs

Release(n) ==
    /\ archive' = IF Released(n) THEN flash ELSE archive
    /\ active' = IF Released(n) THEN Builtin ELSE active

------------------------------------------------------------------------------
(* The metadata cache. *)

ListedUnprobed(f) ==                        \* the listing without ca_probe_pack()
    {<<s, f[s]>> : s \in {t \in Stems \ {Stem[Builtin]} : f[t] # NoFile}}

(* scan_metadata(): every readable pack but the built-in library's update. *)
Listed(f) ==
    {<<s, f[s]>> : s \in {t \in Stems \ {Stem[Builtin]} : f[t] \in Packs}}

(* Nothing reads the entries of an invalid cache. *)
Stale == [valid |-> FALSE, packs |-> {}]

(* Every change of the directory drops the snapshot, even one that fails. *)
KeepCache == metadata' = metadata
DropCache == metadata' = Stale

(* A library larger than the cache leaves it invalid: callers scan again. *)
Refreshed ==
    IF Cardinality(Listed(files)) <= MetadataCacheItems
    THEN [valid |-> TRUE, packs |-> Listed(files)]
    ELSE Stale

MetadataRefresh ==
    /\ MetadataMutexFree
    /\ ~ metadata.valid
    /\ metadata' \in {Refreshed, Stale}     \* opendir() or readdir() can fail
    /\ UNCHANGED <<files, flash, archive, active, upload, guideVars, refused>>

Rescan ==
    /\ MetadataMutexFree
    /\ metadata' \in {Refreshed, Stale}
    /\ UNCHANGED <<files, flash, archive, active, upload, guideVars, refused>>

------------------------------------------------------------------------------
(* pack_store_open_for_read() *)

AlreadyOpen(n) == files[Stem[n]] # NoFile /\ active = n /\ archive \in Packs

OpenPack(n) ==
    /\ ~ AlreadyOpen(n)
    /\ files[Stem[n]] \in Packs
    /\ archive' = files[Stem[n]]
    /\ active' = n

(* The file is missing, does not validate, or could not be opened. *)
FallBack(n) ==
    /\ n = Builtin
    /\ ~ AlreadyOpen(n)
    /\ archive' = flash
    /\ active' = IF flash = Flash THEN Builtin ELSE active

OpenForRead(n) ==
    /\ ArchiveLockFree
    /\ OpenPack(n) \/ FallBack(n)
    /\ UNCHANGED <<files, flash, metadata, upload, guideVars, refused>>

------------------------------------------------------------------------------
(* unlink(), done or failed. *)

Unlinked(f, p) == {[f EXCEPT ![p] = NoFile], f}

(* The volume f after unlink(temp_path), whose result nobody looks at. *)
UnlinkStaging(f) ==
    \/ files' = [f EXCEPT ![Temp] = NoFile] /\ refused' = FALSE
    \/ f[Temp] # NoFile /\ files' = f /\ refused' = TRUE

------------------------------------------------------------------------------
(* pack_store_remove(): a failed unlink() is the answer NOT_FOUND, with the *)
(* archive released and the snapshot dropped all the same.                 *)

Remove(n) ==
    /\ ArchiveLockFree
    /\ Release(n)
    /\ DropCache
    /\ files' \in Unlinked(files, Stem[n])
    /\ UNCHANGED <<flash, upload, guideVars, refused>>

------------------------------------------------------------------------------
(* The upload session: pack_store_begin_upload(), the writes into the      *)
(* staging file, pack_store_abort_upload(), pack_store_finish_upload().    *)

BeginUpload(n) ==
    /\ upload.phase = "idle"
    /\ Release(n)
    /\ \/ /\ files' = [files EXCEPT ![Temp] = Unreadable]
          /\ upload' = [phase |-> "staging", name |-> n, hadOld |-> FALSE]
          /\ refused' = FALSE
       \/ UNCHANGED <<files, upload, refused>>       \* fopen() failed
    /\ UNCHANGED <<flash, metadata, guideVars>>

StageData(c) ==
    /\ upload.phase = "staging"
    /\ files' = [files EXCEPT ![Temp] = c]
    /\ UNCHANGED <<flash, archive, active, metadata, upload, guideVars, refused>>

(* Every way out that gives the session up unlinks the staging file. *)
Discard ==
    /\ UnlinkStaging(files)
    /\ upload' = NoUpload

(* The file may still be open: an install whose fflush() failed has lost   *)
(* its handle (web_server.c:2052), and the unlink may be refused for that. *)
AbortUpload ==
    /\ upload.phase = "staging"
    /\ Discard
    /\ UNCHANGED <<flash, archive, active, metadata, guideVars>>

(* fclose() and ca_probe_pack() of the staging file. *)
StagedFileExists == files[Temp] # NoFile      \* the validation left out
StagedPackIsValid == files[Temp] \in Packs

FinishCheck ==
    /\ upload.phase = "staging"
    /\ \/ /\ StagedPackIsValid
          /\ upload' = [upload EXCEPT !.phase = "checked"]
          /\ UNCHANGED <<files, refused>>
       \/ Discard
    /\ UNCHANGED <<flash, archive, active, metadata, guideVars>>

(* Under the metadata mutex: drop the cache and the old backup, then move  *)
(* the installed file aside.  The rename fails onto a backup that is still *)
(* there, and may fail otherwise.                                          *)
FinishMoveAside ==
    LET s == Stem[upload.name]
        hadOld == files[s] # NoFile
    IN  /\ upload.phase = "checked"
        /\ DropCache
        /\ \/ /\ \/ hadOld /\ files' = [files EXCEPT ![Backup] = files[s], ![s] = NoFile]
                 \/ ~ hadOld /\ files' \in Unlinked(files, Backup)
              /\ upload' = [upload EXCEPT !.phase = "swapping", !.hadOld = hadOld]
              /\ UNCHANGED refused
           \/ /\ hadOld
              /\ \E f \in Unlinked(files, Backup) : UnlinkStaging(f)
              /\ upload' = NoUpload
        /\ UNCHANGED <<flash, archive, active, guideVars>>

FinishPlace ==
    /\ upload.phase = "swapping"
    /\ files' = [files EXCEPT ![Stem[upload.name]] = files[Temp], ![Temp] = NoFile]
    /\ upload' = [upload EXCEPT !.phase = "placed"]
    /\ UNCHANGED <<flash, archive, active, metadata, guideVars, refused>>

(* The rename into place failed: rename the backup back, which can fail    *)
(* as well, and give the staging file up.                                  *)
RolledBack ==
    IF upload.hadOld
    THEN [files EXCEPT ![Stem[upload.name]] = files[Backup], ![Backup] = NoFile]
    ELSE files

FinishRollBackOnly ==                  \* returns without unlink(temp_path)
    /\ upload.phase = "swapping"
    /\ files' \in {RolledBack, files}
    /\ upload' = NoUpload
    /\ UNCHANGED <<flash, archive, active, metadata, guideVars, refused>>

FinishRollBack ==
    /\ upload.phase = "swapping"
    /\ \E f \in {RolledBack, files} : UnlinkStaging(f)
    /\ upload' = NoUpload
    /\ UNCHANGED <<flash, archive, active, metadata, guideVars>>

FinishDone ==
    /\ upload.phase = "placed"
    /\ files' \in Unlinked(files, Backup)
    /\ upload' = NoUpload
    /\ UNCHANGED <<flash, archive, active, metadata, guideVars, refused>>

------------------------------------------------------------------------------
(* pack_store_set_guide_hidden(): the marker file first, the flag last. *)

HideGuide ==
    /\ ArchiveLockFree
    /\ guideMarker' = TRUE
    /\ guideHidden' \in {TRUE, guideHidden}     \* fclose() can fail
    /\ UNCHANGED <<files, flash, archive, active, metadata, upload, refused>>

ShowGuide ==
    /\ ArchiveLockFree
    /\ guideMarker' = FALSE
    /\ guideHidden' = FALSE
    /\ UNCHANGED <<files, flash, archive, active, metadata, upload, refused>>

------------------------------------------------------------------------------
(* Power loss and pack_store_init(): RAM is gone, the volume stays, the    *)
(* staging file is reclaimed and the built-in archive selected.            *)

PowerLoss ==
    /\ UnlinkStaging(files)
    /\ archive' = flash
    /\ active' = Builtin
    /\ metadata' = Stale
    /\ upload' = NoUpload
    /\ guideHidden' = guideMarker
    /\ UNCHANGED <<flash, guideMarker>>

(* The state pack_store_init() leaves on a volume with any packs on it. *)
Init ==
    /\ files \in {f \in [Paths -> Contents] : f[Temp] = NoFile /\ f[Backup] = NoFile}
    /\ flash \in {Flash, NoArchive}
    /\ archive = flash
    /\ active = Builtin
    /\ metadata = Stale
    /\ upload = NoUpload
    /\ guideMarker \in BOOLEAN
    /\ guideHidden = guideMarker
    /\ refused = FALSE

Next ==
    \/ PowerLoss
    \/ \E n \in Names : OpenForRead(n) \/ Remove(n) \/ BeginUpload(n)
    \/ \E c \in Packs \cup {Unreadable} : StageData(c)
    \/ AbortUpload
    \/ FinishCheck
    \/ FinishMoveAside
    \/ FinishPlace
    \/ FinishRollBack
    \/ FinishDone
    \/ MetadataRefresh
    \/ Rescan
    \/ HideGuide
    \/ ShowGuide

Spec == Init /\ [][Next]_vars

------------------------------------------------------------------------------
(* Properties *)

(* The cached listing is the directory: no page, BLE answer or status      *)
(* screen counts a pack that is not there or misses one that is            *)
(* (pack_store.c:161-162, 359-360, 391-393).                               *)
MetadataIsDirectory == metadata.valid => metadata.packs = Listed(files)

(* The pack a reader is served is the one installed under the active name, *)
(* however reads, removals, uploads and their failures interleave          *)
(* (pack_store_open_for_read() answers from the open archive without       *)
(* looking at the file again).  One step alone can end that: an upload     *)
(* that moves a pack aside while the store has it open, which is           *)
(* ReplacedPackIsClosed below.                                             *)
ServedRight == archive \in Packs => files[Stem[active]] = archive
MovesOpenPack == FinishMoveAside /\ OpenFile(Stem[upload.name])
ServedIsInstalled == [][ServedRight /\ ~ MovesOpenPack => ServedRight']_vars

(* A staging file without a session is one the volume would not unlink:    *)
(* every way out of an upload, and boot, tries to reclaim its space.       *)
StagingReclaimed == upload.phase = "idle" /\ files[Temp] # NoFile => refused

(* The set of installed packs, with a pack in the middle of its own        *)
(* replacement still counted while its backup is on the volume.            *)
InstalledPacks ==
    [s \in Stems |->
        IF upload.phase = "swapping" /\ upload.hadOld /\ s = Stem[upload.name]
        THEN files[Backup] ELSE files[s]]

EntryBeingReplaced ==
    IF upload.phase = "swapping" THEN Stem[upload.name] ELSE Nobody

Library == INSTANCE PackLibrary WITH
    library <- InstalledPacks, replacing <- EntryBeingReplaced, Idle <- Nobody

(* The store implements the library: packs appear only after validation    *)
(* and only under the name uploaded, other packs are never touched, and a  *)
(* pack is lost only to a fault inside its own replacement.                *)
ImplementsLibrary == Library!Spec

(* "FAT cannot replace an installed pack while its archive file is open"   *)
(* (pack_store.c:369): when finish_upload() moves the old pack aside, the  *)
(* store does not hold that pack open.                                     *)
ReplacedPackIsClosed ==
    upload.phase = "checked" => ~ OpenFile(Stem[upload.name])

(* Packs are "atomically renamed" (ble_provisioning.h:6) and installed     *)
(* (web_server.c:1760): a power cut leaves the old pack or the new one.    *)
PowerLossKeepsPacks ==
    [][PowerLoss => \A s \in Stems :
          InstalledPacks[s] # NoFile => InstalledPacks'[s] # NoFile]_vars
==============================================================================
