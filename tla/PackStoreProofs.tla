--------------------------- MODULE PackStoreProofs ---------------------------
(***************************************************************************)
(* Proofs about PackStore for every set of names, packs and directory      *)
(* entries, whichever calls on the volume fail.                            *)
(***************************************************************************)
EXTENDS PackStore, TLAPS

(* What the swap of finish_upload() maintains between its steps: the       *)
(* staging file was validated and has not changed since, the old file is   *)
(* either the backup or never was, and no snapshot of the directory        *)
(* survives while it is being changed.                                     *)
UploadInv ==
    /\ upload.phase \in {"checked", "swapping"} => files[Temp] \in Packs
    /\ upload.phase = "swapping" =>
          /\ files[Stem[upload.name]] = NoFile
          /\ upload.hadOld => files[Backup] # NoFile
    /\ upload.phase = "placed" => files[Temp] = NoFile
    /\ upload.phase \in {"swapping", "placed"} => ~ metadata.valid

IInv ==
    /\ TypeOK
    /\ UploadInv
    /\ MetadataIsDirectory
    /\ StagingReclaimed

------------------------------------------------------------------------------
(* Facts about the helpers. *)

(* A name's directory entry is one of the pack entries, never the staging  *)
(* or the backup file.                                                     *)
LEMMA StemIsEntry ==
    ASSUME NEW n \in Names
    PROVE  Stem[n] \in Stems /\ Stem[n] # Temp /\ Stem[n] # Backup
BY NamesAssumption, PathsAssumption

(* The listing depends on the pack entries alone: the staging and backup   *)
(* files can change without making a snapshot of it wrong.                 *)
LEMMA ListedOfEntries ==
    ASSUME NEW f, NEW h, \A s \in Stems : f[s] = h[s]
    PROVE  Listed(f) = Listed(h)
BY DEF Listed

(* A listing pairs directory entries with validated contents. *)
LEMMA ListedType ==
    ASSUME NEW f
    PROVE  Listed(f) \in SUBSET (Stems \X Packs)
BY DEF Listed

LEMMA RefreshedType ==
    /\ Refreshed \in [valid : BOOLEAN, packs : SUBSET (Stems \X Packs)]
    /\ Refreshed.valid => Refreshed.packs = Listed(files)
BY ListedType DEF Refreshed, Stale

LEMMA StaleType == Stale \in [valid : BOOLEAN, packs : SUBSET (Stems \X Packs)]
BY DEF Stale

(* A session in progress carries the name of a pack. *)
LEMMA SessionFields ==
    ASSUME upload \in Uploads
    PROVE  /\ upload.phase # "idle" => upload.name \in Names /\ upload.hadOld \in BOOLEAN
           /\ upload.phase \in Phases \cup {"idle"}
           /\ upload.phase = "idle" => upload = NoUpload
BY DEF Uploads, NoUpload, Phases

LEMMA NoUploadType == NoUpload \in Uploads
BY DEF Uploads

(* unlink() takes one file from the volume, or none. *)
LEMMA UnlinkedFacts ==
    ASSUME NEW f \in [Paths -> Contents], NEW p \in Paths, NEW h \in Unlinked(f, p)
    PROVE  /\ h \in [Paths -> Contents]
           /\ \A q \in Paths \ {p} : h[q] = f[q]
           /\ h[p] \in {f[p], NoFile}
BY DEF Unlinked, Contents

(* After unlink() of the staging file it is gone, or known to be refused.  *)
LEMMA UnlinkStagingFacts ==
    ASSUME NEW f \in [Paths -> Contents], UnlinkStaging(f)
    PROVE  /\ files' \in [Paths -> Contents]
           /\ refused' \in BOOLEAN
           /\ \A q \in Paths \ {Temp} : files'[q] = f[q]
           /\ files'[Temp] # NoFile => refused'
BY DEF UnlinkStaging, Contents, Paths

(* The unlink of the backup touches no other path. *)
LEMMA BackupUnlinked ==
    ASSUME TypeOK, files' \in Unlinked(files, Backup)
    PROVE  /\ files' \in [Paths -> Contents]
           /\ \A s \in Stems : files'[s] = files[s]
           /\ files'[Temp] = files[Temp]
<1>1. files \in [Paths -> Contents] /\ Backup \in Paths
    BY DEF TypeOK, Paths
<1>2. \A q \in Stems \cup {Temp} : q \in Paths \ {Backup}
    BY PathsAssumption DEF Paths
<1> QED BY <1>1, <1>2, UnlinkedFacts

(* So it is for the volume as it stands: the other paths are untouched.    *)
LEMMA UnlinkStagingKeeps ==
    ASSUME TypeOK, UnlinkStaging(files)
    PROVE  /\ files' \in [Paths -> Contents]
           /\ refused' \in BOOLEAN
           /\ \A s \in Stems : files'[s] = files[s]
           /\ files'[Temp] # NoFile => refused'
<1>1. files \in [Paths -> Contents] /\ \A s \in Stems : s \in Paths \ {Temp}
    BY PathsAssumption DEF TypeOK, Paths
<1> QED BY <1>1, UnlinkStagingFacts

(* The backup's way back, taken or not, changes at most the entry that is  *)
(* being replaced, and gives it what the backup holds.                     *)
LEMMA RolledBackFacts ==
    ASSUME TypeOK, upload.name \in Names, NEW f \in {RolledBack, files}
    PROVE  /\ f \in [Paths -> Contents]
           /\ \A s \in Stems : \/ f[s] = files[s]
                              \/ /\ upload.hadOld
                                 /\ s = Stem[upload.name]
                                 /\ f[s] = files[Backup]
<1>1. files \in [Paths -> Contents] /\ Stem[upload.name] \in Stems
    BY StemIsEntry DEF TypeOK
<1>2. \A s \in Stems : s # Temp /\ s # Backup
    BY PathsAssumption
<1>3. CASE f = files
    BY <1>1, <1>3
<1>4. CASE f = RolledBack /\ ~ upload.hadOld
    BY <1>1, <1>4 DEF RolledBack
<1>5. CASE f = RolledBack /\ upload.hadOld
    <2>1. f = [files EXCEPT ![Stem[upload.name]] = files[Backup], ![Backup] = NoFile]
        BY <1>5 DEF RolledBack
    <2> DEFINE g == [files EXCEPT ![Stem[upload.name]] = files[Backup]]
    <2>2. g \in [Paths -> Contents]
        BY <1>1 DEF Paths
    <2>4. f \in [Paths -> Contents]
        BY <2>1, <2>2 DEF Contents
    <2>3. \A s \in Stems : f[s] = IF s = Stem[upload.name] THEN files[Backup] ELSE files[s]
        BY <1>1, <1>2, <2>1 DEF Paths
    <2> QED BY <1>5, <2>3, <2>4
<1> QED BY <1>3, <1>4, <1>5

(* Moving the installed file aside, or failing to.                         *)
LEMMA MoveAsideFacts ==
    ASSUME TypeOK, FinishMoveAside
    PROVE  LET s == Stem[upload.name] IN
           /\ s \in Stems /\ files' \in [Paths -> Contents] /\ refused' \in BOOLEAN
           /\ \/ /\ upload' = [upload EXCEPT !.phase = "swapping", !.hadOld = files[s] # NoFile]
                 /\ files'[Temp] = files[Temp]
                 /\ \A t \in Stems : files'[t] = IF t = s THEN NoFile ELSE files[t]
                 /\ files[s] # NoFile => files'[Backup] = files[s]
              \/ /\ upload' = NoUpload
                 /\ files'[Temp] # NoFile => refused'
                 /\ \A t \in Stems : files'[t] = files[t]
<1> DEFINE s == Stem[upload.name]
<1> DEFINE moved == [files EXCEPT ![Backup] = files[s], ![s] = NoFile]
<1> DEFINE Moved == upload' = [upload EXCEPT !.phase = "swapping", !.hadOld = files[s] # NoFile]
<1>1. files \in [Paths -> Contents] /\ upload.name \in Names /\ refused \in BOOLEAN
    BY SessionFields DEF TypeOK, FinishMoveAside
<1>2. s \in Stems /\ s # Temp /\ s # Backup
    BY <1>1, StemIsEntry
<1>3. \A t \in Stems : t # Temp /\ t # Backup /\ t \in Paths
    BY PathsAssumption DEF Paths
<1>4. Temp \in Paths /\ Backup \in Paths /\ Temp # Backup
    BY PathsAssumption DEF Paths
<1>5. CASE files[s] # NoFile /\ files' = moved /\ Moved /\ UNCHANGED refused
    <2> DEFINE g == [files EXCEPT ![Backup] = files[s]]
    <2>3. g \in [Paths -> Contents]
        BY <1>1, <1>2 DEF Paths
    <2>1. files' \in [Paths -> Contents]
        BY <1>5, <2>3 DEF Contents
    <2>2. /\ files'[Temp] = files[Temp]
          /\ \A t \in Stems : files'[t] = IF t = s THEN NoFile ELSE files[t]
          /\ files'[Backup] = files[s]
        BY <1>1, <1>2, <1>3, <1>4, <1>5
    <2> QED BY <1>1, <1>2, <1>5, <2>1, <2>2
<1>6. CASE files[s] = NoFile /\ files' \in Unlinked(files, Backup) /\ Moved /\ UNCHANGED refused
    <2>1. files' \in [Paths -> Contents] /\ \A q \in Paths \ {Backup} : files'[q] = files[q]
        BY <1>1, <1>4, <1>6, UnlinkedFacts
    <2> QED BY <1>1, <1>2, <1>3, <1>4, <1>6, <2>1
<1>7. ASSUME NEW f \in Unlinked(files, Backup), UnlinkStaging(f), upload' = NoUpload
      PROVE  /\ files' \in [Paths -> Contents] /\ refused' \in BOOLEAN
             /\ files'[Temp] # NoFile => refused'
             /\ \A t \in Stems : files'[t] = files[t]
    <2>1. f \in [Paths -> Contents] /\ \A q \in Paths \ {Backup} : f[q] = files[q]
        BY <1>1, <1>4, UnlinkedFacts
    <2>2. /\ files' \in [Paths -> Contents] /\ refused' \in BOOLEAN
          /\ \A q \in Paths \ {Temp} : files'[q] = f[q]
          /\ files'[Temp] # NoFile => refused'
        BY <1>7, <2>1, UnlinkStagingFacts
    <2> QED BY <1>3, <2>1, <2>2
<1>8. \/ files[s] # NoFile /\ files' = moved /\ Moved /\ UNCHANGED refused
      \/ files[s] = NoFile /\ files' \in Unlinked(files, Backup) /\ Moved /\ UNCHANGED refused
      \/ \E f \in Unlinked(files, Backup) : UnlinkStaging(f) /\ upload' = NoUpload
    BY DEF FinishMoveAside
<1> HIDE DEF moved, Moved
<1>9. CASE \E f \in Unlinked(files, Backup) : UnlinkStaging(f) /\ upload' = NoUpload
    BY <1>2, <1>7, <1>9
<1>10. CASE ~ \E f \in Unlinked(files, Backup) : UnlinkStaging(f) /\ upload' = NoUpload
    BY <1>5, <1>6, <1>8, <1>10
<1> QED BY <1>9, <1>10

------------------------------------------------------------------------------
(* Type correctness: every step of the store stays within TypeOK. *)
LEMMA TypeStep == TypeOK /\ [Next]_vars => TypeOK'
<1> SUFFICES ASSUME TypeOK, [Next]_vars PROVE TypeOK'
    OBVIOUS
<1> USE NamesAssumption, PathsAssumption, ContentsAssumption
<1> USE DEF TypeOK, Paths, Contents
<1>1. ASSUME NEW n \in Names, OpenForRead(n) PROVE TypeOK'
    <2>1. Stem[n] \in Stems
        BY StemIsEntry
    <2>2. CASE OpenPack(n)
        BY <1>1, <2>1, <2>2 DEF OpenForRead, OpenPack, guideVars
    <2>3. CASE FallBack(n)
        BY <1>1, <2>3 DEF OpenForRead, FallBack, guideVars
    <2> QED BY <1>1, <2>2, <2>3 DEF OpenForRead
<1>2. ASSUME NEW n \in Names, Remove(n) PROVE TypeOK'
    <2>1. archive' \in Packs \cup {Flash, NoArchive} /\ active' \in Names
        BY <1>2 DEF Remove, Release
    <2>2. files' \in [Paths -> Contents]
        BY <1>2, StemIsEntry, UnlinkedFacts DEF Remove
    <2>3. metadata' = Stale
        BY <1>2 DEF Remove, DropCache
    <2> QED BY <1>2, <2>1, <2>2, <2>3, StaleType DEF Remove, guideVars
<1>3. ASSUME NEW n \in Names, BeginUpload(n) PROVE TypeOK'
    <2>1. archive' \in Packs \cup {Flash, NoArchive} /\ active' \in Names
        BY <1>3 DEF BeginUpload, Release
    <2>2. files' \in [Paths -> Contents]
        BY <1>3 DEF BeginUpload
    <2>3. upload' \in Uploads
        <3>1. upload' = upload \/ upload' = [phase |-> "staging", name |-> n, hadOld |-> FALSE]
            BY <1>3 DEF BeginUpload
        <3>2. [phase |-> "staging", name |-> n, hadOld |-> FALSE] \in Uploads
            BY DEF Uploads, Phases
        <3> QED BY <3>1, <3>2
    <2> QED BY <1>3, <2>1, <2>2, <2>3 DEF BeginUpload, guideVars
<1>4. ASSUME NEW c \in Packs \cup {Unreadable}, StageData(c) PROVE TypeOK'
    BY <1>4 DEF StageData, guideVars
<1>5. CASE AbortUpload
    BY <1>5, NoUploadType, UnlinkStagingKeeps DEF AbortUpload, Discard, guideVars
<1>6. CASE FinishCheck
    <2>1. upload' \in Uploads
        BY <1>6, NoUploadType DEF FinishCheck, Discard, Uploads, Phases, NoUpload
    <2>2. files' \in [Paths -> Contents] /\ refused' \in BOOLEAN
        BY <1>6, UnlinkStagingKeeps DEF FinishCheck, Discard
    <2> QED BY <1>6, <2>1, <2>2 DEF FinishCheck, guideVars
<1>7. CASE FinishMoveAside
    <2>1. upload.name \in Names
        BY <1>7, SessionFields DEF FinishMoveAside
    <2>2. files' \in [Paths -> Contents] /\ refused' \in BOOLEAN
        BY <1>7, MoveAsideFacts
    <2>3. upload' \in Uploads
        BY <1>7, <2>1, NoUploadType DEF FinishMoveAside, Uploads, Phases, NoUpload
    <2>4. metadata' = Stale
        BY <1>7 DEF FinishMoveAside, DropCache
    <2> QED BY <1>7, <2>2, <2>3, <2>4, StaleType DEF FinishMoveAside, guideVars
<1>8. CASE FinishPlace
    <2>1. upload.name \in Names /\ Stem[upload.name] \in Stems
        BY <1>8, SessionFields, StemIsEntry DEF FinishPlace
    <2>2. files' \in [Paths -> Contents]
        BY <1>8, <2>1 DEF FinishPlace
    <2>3. upload' \in Uploads
        BY <1>8, <2>1 DEF FinishPlace, Uploads, Phases, NoUpload
    <2> QED BY <1>8, <2>2, <2>3 DEF FinishPlace, guideVars
<1>9. CASE FinishRollBack
    <2>1. upload.name \in Names
        BY <1>9, SessionFields DEF FinishRollBack
    <2>2. PICK f \in {RolledBack, files} : UnlinkStaging(f)
        BY <1>9 DEF FinishRollBack
    <2>3. files' \in [Paths -> Contents] /\ refused' \in BOOLEAN
        BY <2>1, <2>2, RolledBackFacts, UnlinkStagingFacts
    <2> QED BY <1>9, <2>3, NoUploadType DEF FinishRollBack, guideVars
<1>10. CASE FinishDone
    <2>1. files' \in [Paths -> Contents]
        BY <1>10, BackupUnlinked DEF FinishDone
    <2> QED BY <1>10, <2>1, NoUploadType DEF FinishDone, guideVars
<1>11. CASE MetadataRefresh
    BY <1>11, RefreshedType, StaleType DEF MetadataRefresh, guideVars
<1>12. CASE Rescan
    BY <1>12, RefreshedType, StaleType DEF Rescan, guideVars
<1>13. CASE HideGuide
    BY <1>13 DEF HideGuide
<1>14. CASE ShowGuide
    BY <1>14 DEF ShowGuide
<1>15. CASE PowerLoss
    <2>1. files' \in [Paths -> Contents] /\ refused' \in BOOLEAN
        BY <1>15, UnlinkStagingKeeps DEF PowerLoss
    <2> QED BY <1>15, <2>1, StaleType, NoUploadType DEF PowerLoss
<1>16. CASE UNCHANGED vars
    BY <1>16 DEF vars, guideVars
<1> QED
    BY <1>1, <1>2, <1>3, <1>4, <1>5, <1>6, <1>7, <1>8, <1>9, <1>10, <1>11,
       <1>12, <1>13, <1>14, <1>15, <1>16 DEF Next

(* The store's state has its types in every reachable state. *)
THEOREM TypeCorrect == Spec => []TypeOK
<1>1. Init => TypeOK
    BY NamesAssumption, StaleType, NoUploadType DEF Init, TypeOK
<1>2. TypeOK /\ [Next]_vars => TypeOK'
    BY TypeStep
<1> QED
    BY <1>1, <1>2, PTL DEF Spec
------------------------------------------------------------------------------
(* The safety invariants.  Each step lemma handles one conjunct of IInv.   *)

LEMMA UploadStep == IInv /\ [Next]_vars => UploadInv'
<1> SUFFICES ASSUME IInv, [Next]_vars PROVE UploadInv'
    OBVIOUS
<1> USE NamesAssumption, PathsAssumption, ContentsAssumption
<1> USE DEF UploadInv
<1>0. TypeOK /\ UploadInv
    BY DEF IInv
<1>1. ASSUME NEW n \in Names, OpenForRead(n) PROVE UploadInv'
    BY <1>0, <1>1 DEF OpenForRead
<1>2. ASSUME NEW n \in Names, Remove(n) PROVE UploadInv'
    BY <1>0, <1>2, StemIsEntry DEF Remove, ArchiveLockFree, DropCache, Stale
<1>3. ASSUME NEW n \in Names, BeginUpload(n) PROVE UploadInv'
    BY <1>0, <1>3 DEF BeginUpload
<1>4. ASSUME NEW c \in Packs \cup {Unreadable}, StageData(c) PROVE UploadInv'
    BY <1>0, <1>4 DEF StageData
<1>5. CASE AbortUpload
    BY <1>5 DEF AbortUpload, Discard, NoUpload
<1>6. CASE FinishCheck
    BY <1>0, <1>6 DEF FinishCheck, StagedPackIsValid, Discard, NoUpload, TypeOK, Uploads
<1>7. CASE FinishMoveAside
    <2> DEFINE s == Stem[upload.name]
    <2>1. metadata' = Stale /\ ~ Stale.valid
        BY <1>7 DEF FinishMoveAside, DropCache, Stale
    <2>2. CASE upload' = NoUpload
        BY <2>2 DEF NoUpload
    <2>3. CASE upload' # NoUpload
        <3>1. /\ upload' = [upload EXCEPT !.phase = "swapping", !.hadOld = files[s] # NoFile]
              /\ s \in Stems
              /\ files'[Temp] = files[Temp]
              /\ \A t \in Stems : files'[t] = IF t = s THEN NoFile ELSE files[t]
              /\ files[s] # NoFile => files'[Backup] = files[s]
            BY <1>0, <1>7, <2>3, MoveAsideFacts
        <3>2. /\ upload'.phase = "swapping"
              /\ upload'.name = upload.name
              /\ upload'.hadOld <=> files[s] # NoFile
            BY <1>0, <3>1 DEF TypeOK, Uploads, NoUpload
        <3>3. files[Temp] \in Packs
            BY <1>0, <1>7 DEF FinishMoveAside
        <3> QED BY <2>1, <3>1, <3>2, <3>3
    <2> QED BY <2>2, <2>3
<1>8. CASE FinishPlace
    <2>1. upload.name \in Names /\ Stem[upload.name] # Temp
        BY <1>0, <1>8, SessionFields, StemIsEntry DEF FinishPlace, TypeOK
    <2>2. upload'.phase = "placed"
        BY <1>0, <1>8 DEF FinishPlace, TypeOK, Uploads, NoUpload
    <2>3. files'[Temp] = NoFile
        BY <1>0, <1>8, <2>1 DEF FinishPlace, TypeOK, Paths
    <2> QED BY <1>0, <1>8, <2>2, <2>3 DEF FinishPlace
<1>9. CASE FinishRollBack
    BY <1>9 DEF FinishRollBack, NoUpload
<1>10. CASE FinishDone
    BY <1>10 DEF FinishDone, NoUpload
<1>11. CASE MetadataRefresh
    BY <1>0, <1>11 DEF MetadataRefresh, MetadataMutexFree
<1>12. CASE Rescan
    BY <1>0, <1>12 DEF Rescan, MetadataMutexFree
<1>13. CASE HideGuide
    BY <1>0, <1>13 DEF HideGuide
<1>14. CASE ShowGuide
    BY <1>0, <1>14 DEF ShowGuide
<1>15. CASE PowerLoss
    BY <1>15 DEF PowerLoss, NoUpload
<1>16. CASE UNCHANGED vars
    BY <1>0, <1>16 DEF vars
<1> QED
    BY <1>1, <1>2, <1>3, <1>4, <1>5, <1>6, <1>7, <1>8, <1>9, <1>10, <1>11,
       <1>12, <1>13, <1>14, <1>15, <1>16 DEF Next

(* A step that leaves the pack entries alone and the snapshot alone or     *)
(* dropped keeps the snapshot right.                                       *)
LEMMA SnapshotKept ==
    ASSUME MetadataIsDirectory,
           metadata' = metadata \/ metadata' = Stale,
           metadata' = metadata => \A s \in Stems : files'[s] = files[s]
    PROVE  MetadataIsDirectory'
<1>1. CASE metadata' = Stale
    BY <1>1 DEF MetadataIsDirectory, Stale
<1>2. CASE metadata' = metadata
    <2>1. Listed(files') = Listed(files)
        BY <1>2, ListedOfEntries
    <2> QED BY <1>2, <2>1 DEF MetadataIsDirectory
<1> QED BY <1>1, <1>2

LEMMA MetadataStep == IInv /\ [Next]_vars => MetadataIsDirectory'
<1> SUFFICES ASSUME IInv, [Next]_vars PROVE MetadataIsDirectory'
    OBVIOUS
<1> USE PathsAssumption
<1>0. TypeOK /\ UploadInv /\ MetadataIsDirectory
    BY DEF IInv
<1> DEFINE EntriesKept == \A s \in Stems : files'[s] = files[s]
<1>1. ASSUME NEW n \in Names, OpenForRead(n) PROVE MetadataIsDirectory'
    BY <1>0, <1>1, SnapshotKept DEF OpenForRead
<1>2. ASSUME NEW n \in Names, Remove(n) PROVE MetadataIsDirectory'
    BY <1>2 DEF Remove, DropCache, Stale, MetadataIsDirectory
<1>3. ASSUME NEW n \in Names, BeginUpload(n) PROVE MetadataIsDirectory'
    <2>1. EntriesKept /\ metadata' = metadata
        BY <1>0, <1>3 DEF BeginUpload, TypeOK, Paths
    <2> QED BY <1>0, <2>1, SnapshotKept
<1>4. ASSUME NEW c \in Packs \cup {Unreadable}, StageData(c) PROVE MetadataIsDirectory'
    <2>1. EntriesKept /\ metadata' = metadata
        BY <1>0, <1>4 DEF StageData, TypeOK, Paths
    <2> QED BY <1>0, <2>1, SnapshotKept
<1>5. CASE AbortUpload
    <2>1. EntriesKept /\ metadata' = metadata
        BY <1>0, <1>5, UnlinkStagingKeeps DEF AbortUpload, Discard
    <2> QED BY <1>0, <2>1, SnapshotKept
<1>6. CASE FinishCheck
    <2>1. EntriesKept /\ metadata' = metadata
        BY <1>0, <1>6, UnlinkStagingKeeps DEF FinishCheck, Discard
    <2> QED BY <1>0, <2>1, SnapshotKept
<1>7. CASE FinishMoveAside
    BY <1>7 DEF FinishMoveAside, DropCache, Stale, MetadataIsDirectory
<1>8. CASE FinishPlace
    BY <1>0, <1>8 DEF FinishPlace, UploadInv, MetadataIsDirectory
<1>9. CASE FinishRollBack
    BY <1>0, <1>9 DEF FinishRollBack, UploadInv, MetadataIsDirectory
<1>10. CASE FinishDone
    BY <1>0, <1>10 DEF FinishDone, UploadInv, MetadataIsDirectory
<1>11. CASE MetadataRefresh
    BY <1>11, RefreshedType DEF MetadataRefresh, Stale, MetadataIsDirectory
<1>12. CASE Rescan
    BY <1>12, RefreshedType DEF Rescan, Stale, MetadataIsDirectory
<1>13. CASE HideGuide
    BY <1>0, <1>13, SnapshotKept DEF HideGuide
<1>14. CASE ShowGuide
    BY <1>0, <1>14, SnapshotKept DEF ShowGuide
<1>15. CASE PowerLoss
    BY <1>15 DEF PowerLoss, Stale, MetadataIsDirectory
<1>16. CASE UNCHANGED vars
    BY <1>0, <1>16, SnapshotKept DEF vars
<1> QED
    BY <1>1, <1>2, <1>3, <1>4, <1>5, <1>6, <1>7, <1>8, <1>9, <1>10, <1>11,
       <1>12, <1>13, <1>14, <1>15, <1>16 DEF Next

(* An archive read from flash is no pack. *)
LEMMA FlashIsNoPack == TypeOK => flash \notin Packs
BY ContentsAssumption DEF TypeOK

(* release_pack_file() leaves either the archive alone or one that is not  *)
(* a pack; in both cases it is not open on the named entry.                *)
LEMMA ReleaseFacts ==
    ASSUME TypeOK, NEW n \in Names, Release(n)
    PROVE  archive' \in Packs => /\ archive' = archive
                                 /\ active' = active
                                 /\ Stem[active] # Stem[n]
BY FlashIsNoPack DEF Release, Released

(* What the named pack's reader sees survives every step that leaves the   *)
(* archive and its entry alone.                                            *)
LEMMA ServedKept ==
    ASSUME ServedRight, archive' = archive, active' = active,
           files'[Stem[active]] = files[Stem[active]]
    PROVE  ServedRight'
BY DEF ServedRight

LEMMA ServedStep == IInv /\ [Next]_vars => (ServedRight /\ ~ MovesOpenPack => ServedRight')
<1> SUFFICES ASSUME IInv, [Next]_vars, ServedRight, ~ MovesOpenPack PROVE ServedRight'
    OBVIOUS
<1> USE PathsAssumption
<1>0. TypeOK /\ UploadInv
    BY DEF IInv
<1>a. Stem[active] \in Stems /\ Stem[active] # Temp /\ Stem[active] # Backup
    BY <1>0, StemIsEntry DEF TypeOK
<1> DEFINE EntriesKept == \A s \in Stems : files'[s] = files[s]
<1>b. EntriesKept /\ archive' = archive /\ active' = active => ServedRight'
    BY <1>a, ServedKept
<1>1. ASSUME NEW n \in Names, OpenForRead(n) PROVE ServedRight'
    BY <1>0, <1>1, FlashIsNoPack DEF OpenForRead, OpenPack, FallBack, ServedRight
<1>2. ASSUME NEW n \in Names, Remove(n) PROVE ServedRight'
    <2> SUFFICES ASSUME archive' \in Packs PROVE files'[Stem[active']] = archive'
        BY DEF ServedRight
    <2>1. archive' = archive /\ active' = active /\ Stem[active] # Stem[n]
        BY <1>0, <1>2, ReleaseFacts DEF Remove
    <2>2. files'[Stem[active]] = files[Stem[active]]
        BY <1>0, <1>2, <1>a, <2>1, StemIsEntry, UnlinkedFacts DEF Remove, TypeOK, Paths
    <2> QED BY <2>1, <2>2 DEF ServedRight
<1>3. ASSUME NEW n \in Names, BeginUpload(n) PROVE ServedRight'
    <2> SUFFICES ASSUME archive' \in Packs PROVE files'[Stem[active']] = archive'
        BY DEF ServedRight
    <2>1. archive' = archive /\ active' = active
        BY <1>0, <1>3, ReleaseFacts DEF BeginUpload
    <2>2. files'[Stem[active]] = files[Stem[active]]
        BY <1>0, <1>3, <1>a DEF BeginUpload, TypeOK, Paths
    <2> QED BY <2>1, <2>2 DEF ServedRight
<1>4. ASSUME NEW c \in Packs \cup {Unreadable}, StageData(c) PROVE ServedRight'
    <2>1. EntriesKept
        BY <1>0, <1>4 DEF StageData, TypeOK, Paths
    <2> QED BY <1>4, <1>b, <2>1 DEF StageData
<1>5. CASE AbortUpload
    BY <1>0, <1>5, <1>b, UnlinkStagingKeeps DEF AbortUpload, Discard
<1>6. CASE FinishCheck
    BY <1>0, <1>6, <1>b, UnlinkStagingKeeps DEF FinishCheck, Discard
<1>7. CASE FinishMoveAside
    <2>1. archive' = archive /\ active' = active
        BY <1>7 DEF FinishMoveAside
    <2>2. archive \in Packs => Stem[active] # Stem[upload.name]
        BY <1>7 DEF MovesOpenPack, OpenFile
    <2>3. archive \in Packs => files'[Stem[active]] = files[Stem[active]]
        BY <1>0, <1>7, <1>a, <2>2, MoveAsideFacts
    <2> QED BY <2>1, <2>3 DEF ServedRight
<1>8. CASE FinishPlace
    <2>1. upload.name \in Names /\ archive' = archive /\ active' = active
        BY <1>0, <1>8, SessionFields DEF FinishPlace, TypeOK
    <2>2. archive \in Packs => Stem[active] # Stem[upload.name]
        BY <1>0, <1>8, ContentsAssumption DEF FinishPlace, UploadInv, ServedRight
    <2>3. archive \in Packs => files'[Stem[active]] = files[Stem[active]]
        BY <1>0, <1>8, <1>a, <2>1, <2>2, StemIsEntry DEF FinishPlace, TypeOK, Paths
    <2> QED BY <2>1, <2>3 DEF ServedRight
<1>9. CASE FinishRollBack
    <2>1. upload.name \in Names /\ archive' = archive /\ active' = active
        BY <1>0, <1>9, SessionFields DEF FinishRollBack, TypeOK
    <2>2. archive \in Packs => Stem[active] # Stem[upload.name]
        BY <1>0, <1>9, ContentsAssumption DEF FinishRollBack, UploadInv, ServedRight
    <2>3. PICK f \in {RolledBack, files} : UnlinkStaging(f)
        BY <1>9 DEF FinishRollBack
    <2>4. archive \in Packs => f[Stem[active]] = files[Stem[active]]
        BY <1>0, <1>a, <2>1, <2>2, RolledBackFacts
    <2>5. f \in [Paths -> Contents]
        BY <1>0, <2>1, RolledBackFacts
    <2>6. files'[Stem[active]] = f[Stem[active]]
        BY <1>a, <2>3, <2>5, UnlinkStagingFacts DEF Paths
    <2> QED BY <2>1, <2>4, <2>6 DEF ServedRight
<1>10. CASE FinishDone
    <2>1. EntriesKept
        BY <1>0, <1>10, BackupUnlinked DEF FinishDone
    <2> QED BY <1>10, <1>b, <2>1 DEF FinishDone
<1>11. CASE MetadataRefresh
    BY <1>b, <1>11 DEF MetadataRefresh
<1>12. CASE Rescan
    BY <1>b, <1>12 DEF Rescan
<1>13. CASE HideGuide
    BY <1>b, <1>13 DEF HideGuide
<1>14. CASE ShowGuide
    BY <1>b, <1>14 DEF ShowGuide
<1>15. CASE PowerLoss
    BY <1>0, <1>15, FlashIsNoPack DEF PowerLoss, ServedRight
<1>16. CASE UNCHANGED vars
    BY <1>b, <1>16 DEF vars
<1> QED
    BY <1>1, <1>2, <1>3, <1>4, <1>5, <1>6, <1>7, <1>8, <1>9, <1>10, <1>11,
       <1>12, <1>13, <1>14, <1>15, <1>16 DEF Next

LEMMA StagingStep == IInv /\ [Next]_vars => StagingReclaimed'
<1> SUFFICES ASSUME IInv, [Next]_vars, upload'.phase = "idle", files'[Temp] # NoFile
             PROVE  refused'
    BY DEF StagingReclaimed
<1> USE PathsAssumption
<1>0. TypeOK /\ UploadInv
    BY DEF IInv
<1>a. upload.phase = "idle" /\ files[Temp] # NoFile => refused
    BY DEF IInv, StagingReclaimed
<1>1. ASSUME NEW n \in Names, OpenForRead(n) PROVE refused'
    BY <1>a, <1>1 DEF OpenForRead
<1>2. ASSUME NEW n \in Names, Remove(n) PROVE refused'
    <2>1. files'[Temp] = files[Temp]
        BY <1>0, <1>2, StemIsEntry, UnlinkedFacts DEF Remove, TypeOK, Paths
    <2> QED BY <1>a, <1>2, <2>1 DEF Remove
<1>3. ASSUME NEW n \in Names, BeginUpload(n) PROVE refused'
    BY <1>a, <1>3 DEF BeginUpload
<1>4. ASSUME NEW c \in Packs \cup {Unreadable}, StageData(c) PROVE refused'
    BY <1>4 DEF StageData
<1>5. CASE AbortUpload
    BY <1>0, <1>5, UnlinkStagingKeeps DEF AbortUpload, Discard
<1>6. CASE FinishCheck
    <2>1. CASE Discard
        BY <1>0, <2>1, UnlinkStagingKeeps DEF Discard
    <2>2. CASE upload' = [upload EXCEPT !.phase = "checked"]
        BY <1>0, <2>2 DEF TypeOK, Uploads, NoUpload
    <2> QED BY <1>6, <2>1, <2>2 DEF FinishCheck
<1>7. CASE FinishMoveAside
    <2>1. upload' # [upload EXCEPT !.phase = "swapping",
                                   !.hadOld = files[Stem[upload.name]] # NoFile]
        BY <1>0 DEF TypeOK, Uploads, NoUpload
    <2> QED BY <1>0, <1>7, <2>1, MoveAsideFacts
<1>8. CASE FinishPlace
    BY <1>0, <1>8 DEF FinishPlace, TypeOK, Uploads, NoUpload
<1>9. CASE FinishRollBack
    <2>1. upload.name \in Names
        BY <1>0, <1>9, SessionFields DEF FinishRollBack, TypeOK
    <2> QED BY <1>0, <1>9, <2>1, RolledBackFacts, UnlinkStagingFacts DEF FinishRollBack
<1>10. CASE FinishDone
    <2>1. files'[Temp] = files[Temp]
        BY <1>0, <1>10, BackupUnlinked DEF FinishDone
    <2> QED BY <1>0, <1>10, <2>1 DEF FinishDone, UploadInv
<1>11. CASE MetadataRefresh
    BY <1>a, <1>11 DEF MetadataRefresh
<1>12. CASE Rescan
    BY <1>a, <1>12 DEF Rescan
<1>13. CASE HideGuide
    BY <1>a, <1>13 DEF HideGuide
<1>14. CASE ShowGuide
    BY <1>a, <1>14 DEF ShowGuide
<1>15. CASE PowerLoss
    BY <1>0, <1>15, UnlinkStagingKeeps DEF PowerLoss
<1>16. CASE UNCHANGED vars
    BY <1>a, <1>16 DEF vars
<1> QED
    BY <1>1, <1>2, <1>3, <1>4, <1>5, <1>6, <1>7, <1>8, <1>9, <1>10, <1>11,
       <1>12, <1>13, <1>14, <1>15, <1>16 DEF Next

------------------------------------------------------------------------------
(* The invariant holds at boot and every step keeps it. *)
LEMMA InitIInv == Init => IInv
<1> SUFFICES ASSUME Init PROVE IInv
    OBVIOUS
<1>1. TypeOK
    BY NamesAssumption, StaleType, NoUploadType DEF Init, TypeOK
<1>2. UploadInv
    BY DEF Init, UploadInv, NoUpload
<1>3. MetadataIsDirectory
    BY DEF Init, MetadataIsDirectory, Stale
<1>4. StagingReclaimed
    BY DEF Init, StagingReclaimed
<1> QED BY <1>1, <1>2, <1>3, <1>4 DEF IInv

(* The inductive invariant holds in every reachable state. *)
THEOREM Invariance == Spec => []IInv
<1>1. IInv /\ [Next]_vars => IInv'
    BY TypeStep, UploadStep, MetadataStep, StagingStep DEF IInv
<1> QED BY InitIInv, <1>1, PTL DEF Spec

(* The cached listing is the directory, whatever the interleaving of       *)
(* scans, removals and the swap of an upload (pack_store.c:143-206).       *)
THEOREM ListingIsDirectory == Spec => []MetadataIsDirectory
<1>1. IInv => MetadataIsDirectory
    BY DEF IInv
<1> QED BY Invariance, <1>1, PTL

(* The reader is served what is installed under the active name, and only  *)
(* an upload that moves that very pack aside while it is open ends it      *)
(* (pack_store.c:274-321, 366-411).                                        *)
THEOREM ReaderSeesInstalledPack == Spec => ServedIsInstalled
<1>1. IInv /\ [Next]_vars => [ServedRight /\ ~ MovesOpenPack => ServedRight']_vars
    BY ServedStep
<1> QED BY Invariance, <1>1, PTL DEF Spec, ServedIsInstalled

(* The reader is right at boot: with the theorem above, it stays so until  *)
(* an upload moves an open pack aside.                                     *)
THEOREM ReaderStartsRight == Init => ServedRight
<1> SUFFICES ASSUME Init PROVE ServedRight
    OBVIOUS
<1>1. TypeOK
    BY InitIInv DEF IInv
<1> QED BY <1>1, FlashIsNoPack DEF Init, ServedRight

(* No session, no staging file, unless the volume refused to unlink it:    *)
(* every way out tries (pack_store.c:378-417, and :104 at boot).           *)
THEOREM StagingIsReclaimed == Spec => []StagingReclaimed
<1>1. IInv => StagingReclaimed
    BY DEF IInv
<1> QED BY Invariance, <1>1, PTL

------------------------------------------------------------------------------
(* The store implements the abstract library. *)

(* Outside the swap the library is what the pack entries hold. *)
LEMMA QuietLibrary ==
    ASSUME upload.phase # "swapping"
    PROVE  /\ InstalledPacks = [s \in Stems |-> files[s]]
           /\ EntryBeingReplaced = Nobody
BY DEF InstalledPacks, EntryBeingReplaced

LEMMA QuietLibraryNext ==
    ASSUME upload'.phase # "swapping"
    PROVE  /\ InstalledPacks' = [s \in Stems |-> files'[s]]
           /\ EntryBeingReplaced' = Nobody
BY DEF InstalledPacks, EntryBeingReplaced

(* Before and after the swap a step that leaves the pack entries alone is  *)
(* a stutter of the library.                                               *)
LEMMA QuietStutter ==
    ASSUME upload.phase # "swapping", upload'.phase # "swapping",
           \A s \in Stems : files'[s] = files[s]
    PROVE  UNCHANGED Library!lvars
BY QuietLibrary, QuietLibraryNext DEF Library!lvars

LEMMA InitLibrary == Init => Library!Init
<1> SUFFICES ASSUME Init PROVE Library!Init
    OBVIOUS
<1>1. upload.phase # "swapping"
    BY DEF Init, NoUpload
<1>2. files \in [Paths -> Contents]
    BY DEF Init
<1> QED BY <1>1, <1>2, QuietLibrary DEF Library!Init, Paths, Contents

(* The steps of the swap itself. *)
LEMMA MoveAsideStarts ==
    ASSUME IInv, FinishMoveAside
    PROVE  Library!Next \/ UNCHANGED Library!lvars
<1> DEFINE s == Stem[upload.name]
<1>0. TypeOK
    BY DEF IInv
<1>1. upload.phase = "checked" /\ upload \in Uploads
    BY <1>0 DEF FinishMoveAside, TypeOK
<1>2. upload.name \in Names /\ s \in Stems /\ s # Temp /\ s # Backup
    BY <1>1, SessionFields, StemIsEntry
<1>3. CASE upload' = NoUpload
    <2>1. upload'.phase # "swapping"
        BY <1>3 DEF NoUpload
    <2>2. upload' # [upload EXCEPT !.phase = "swapping", !.hadOld = files[s] # NoFile]
        BY <1>1, <1>3 DEF Uploads, NoUpload
    <2>3. \A t \in Stems : files'[t] = files[t]
        BY <1>0, <2>2, MoveAsideFacts
    <2> QED BY <1>1, <2>1, <2>3, QuietStutter
<1>4. CASE upload' # NoUpload
    <2>1. /\ upload' = [upload EXCEPT !.phase = "swapping", !.hadOld = files[s] # NoFile]
          /\ \A t \in Stems : files'[t] = IF t = s THEN NoFile ELSE files[t]
          /\ files[s] # NoFile => files'[Backup] = files[s]
        BY <1>0, <1>4, MoveAsideFacts
    <2>2. /\ upload'.phase = "swapping"
          /\ upload'.name = upload.name
          /\ upload'.hadOld <=> files[s] # NoFile
        BY <1>1, <2>1 DEF Uploads, NoUpload
    <2>3. InstalledPacks' = [t \in Stems |-> files[t]]
        BY <2>1, <2>2 DEF InstalledPacks
    <2>4. EntryBeingReplaced' = s
        BY <2>2 DEF EntryBeingReplaced
    <2>5. Library!StartReplacing(s)
        BY <1>1, <2>3, <2>4, QuietLibrary DEF Library!StartReplacing
    <2> QED BY <1>2, <2>5 DEF Library!Next
<1> QED BY <1>3, <1>4

LEMMA PlaceInstalls ==
    ASSUME IInv, FinishPlace
    PROVE  Library!Next
<1> DEFINE s == Stem[upload.name]
<1>0. TypeOK /\ UploadInv
    BY DEF IInv
<1>1. upload.phase = "swapping" /\ upload \in Uploads
    BY <1>0 DEF FinishPlace, TypeOK
<1>2. upload.name \in Names /\ s \in Stems /\ s # Temp /\ s # Backup
    BY <1>1, SessionFields, StemIsEntry
<1>3. upload'.phase = "placed"
    BY <1>1 DEF FinishPlace, Uploads, NoUpload
<1>4. files[Temp] \in Packs
    BY <1>0, <1>1 DEF UploadInv
<1>5. \A t \in Stems : files'[t] = IF t = s THEN files[Temp] ELSE files[t]
    BY <1>0, <1>2, PathsAssumption DEF FinishPlace, TypeOK, Paths
<1>6. InstalledPacks' = [InstalledPacks EXCEPT ![s] = files[Temp]]
    <2>1. InstalledPacks' = [t \in Stems |-> files'[t]]
        BY <1>3, QuietLibraryNext
    <2>2. \A t \in Stems : t # s => InstalledPacks[t] = files[t]
        BY DEF InstalledPacks
    <2>3. InstalledPacks = [t \in Stems |-> InstalledPacks[t]]
        BY DEF InstalledPacks
    <2> QED BY <1>2, <1>5, <2>1, <2>2, <2>3
<1>7. EntryBeingReplaced = s /\ EntryBeingReplaced' = Nobody
    BY <1>1, <1>3, QuietLibraryNext DEF EntryBeingReplaced
<1>8. Library!Install(s, files[Temp])
    BY <1>6, <1>7 DEF Library!Install
<1> QED BY <1>2, <1>4, <1>8 DEF Library!Next

(* Leaving the swap without the new pack keeps the old one when the backup *)
(* came back, and costs exactly the entry being replaced when it did not.  *)
LEMMA SwapGivenUp ==
    ASSUME IInv, upload.phase = "swapping", upload'.phase # "swapping",
           \A t \in Stems : \/ files'[t] = files[t]
                             \/ /\ upload.hadOld
                                /\ t = Stem[upload.name]
                                /\ files'[t] = files[Backup]
    PROVE  Library!Next
<1> DEFINE s == Stem[upload.name]
<1>0. TypeOK /\ UploadInv
    BY DEF IInv
<1>1. upload.name \in Names /\ s \in Stems /\ Nobody # s
    BY <1>0, SessionFields, StemIsEntry, CacheAssumption DEF TypeOK
<1>2. files[s] = NoFile
    BY <1>0 DEF UploadInv
<1>3. EntryBeingReplaced = s /\ EntryBeingReplaced' = Nobody
    BY QuietLibraryNext DEF EntryBeingReplaced
<1>4. InstalledPacks' = [t \in Stems |-> files'[t]]
    BY QuietLibraryNext
<1>5. InstalledPacks = [t \in Stems |-> IF upload.hadOld /\ t = s
                                        THEN files[Backup] ELSE files[t]]
    BY DEF InstalledPacks
<1>6. CASE files'[s] = files[s] /\ upload.hadOld
    <2>1. InstalledPacks' = [InstalledPacks EXCEPT ![s] = NoFile]
        BY <1>1, <1>2, <1>4, <1>5, <1>6
    <2>2. Library!Lose(s)
        BY <1>3, <2>1 DEF Library!Lose
    <2> QED BY <1>1, <2>2 DEF Library!Next
<1>7. CASE ~ (files'[s] = files[s] /\ upload.hadOld)
    <2>1. InstalledPacks' = InstalledPacks
        BY <1>1, <1>4, <1>5, <1>7
    <2>2. Library!Keep
        BY <1>1, <1>3, <2>1 DEF Library!Keep
    <2> QED BY <2>2 DEF Library!Next
<1> QED BY <1>6, <1>7

(* A removal that the volume refuses leaves the library as it is. *)
LEMMA RemoveIsRemove ==
    ASSUME TypeOK, NEW n \in Names, Remove(n)
    PROVE  Library!Next \/ UNCHANGED Library!lvars
<1>1. upload.phase # "swapping" /\ upload' = upload
    BY DEF Remove, ArchiveLockFree
<1>2. CASE files' = files
    BY <1>1, <1>2, QuietStutter
<1>3. CASE files' = [files EXCEPT ![Stem[n]] = NoFile]
    <2>1. InstalledPacks' = [InstalledPacks EXCEPT ![Stem[n]] = NoFile]
        BY <1>1, <1>3, StemIsEntry, QuietLibrary, QuietLibraryNext DEF TypeOK, Paths
    <2>2. Library!Remove(Stem[n])
        BY <1>1, <2>1, QuietLibrary, QuietLibraryNext DEF Library!Remove
    <2> QED BY <2>2, StemIsEntry DEF Library!Next
<1> QED BY <1>2, <1>3 DEF Remove, Unlinked

LEMMA LibraryStep ==
    IInv /\ [Next]_vars => [Library!Next]_Library!lvars
<1> SUFFICES ASSUME IInv, [Next]_vars
             PROVE  Library!Next \/ UNCHANGED Library!lvars
    OBVIOUS
<1> USE PathsAssumption
<1>0. TypeOK /\ upload \in Uploads
    BY DEF IInv, TypeOK
<1> DEFINE Goal == Library!Next \/ UNCHANGED Library!lvars
<1> DEFINE EntriesKept == \A s \in Stems : files'[s] = files[s]
<1>1. ASSUME NEW n \in Names, OpenForRead(n) PROVE Goal
    BY <1>1, QuietStutter DEF OpenForRead, ArchiveLockFree
<1>2. ASSUME NEW n \in Names, Remove(n) PROVE Goal
    BY <1>0, <1>2, RemoveIsRemove
<1>3. ASSUME NEW n \in Names, BeginUpload(n) PROVE Goal
    <2>1. EntriesKept
        BY <1>0, <1>3 DEF BeginUpload, TypeOK, Paths
    <2>2. upload.phase # "swapping" /\ upload'.phase # "swapping"
        BY <1>3 DEF BeginUpload
    <2> QED BY <2>1, <2>2, QuietStutter
<1>4. ASSUME NEW c \in Packs \cup {Unreadable}, StageData(c) PROVE Goal
    <2>1. EntriesKept
        BY <1>0, <1>4 DEF StageData, TypeOK, Paths
    <2> QED BY <1>4, <2>1, QuietStutter DEF StageData
<1>5. CASE AbortUpload
    <2>1. EntriesKept
        BY <1>0, <1>5, UnlinkStagingKeeps DEF AbortUpload, Discard
    <2> QED BY <1>5, <2>1, QuietStutter DEF AbortUpload, Discard, NoUpload
<1>6. CASE FinishCheck
    <2>1. EntriesKept
        BY <1>0, <1>6, UnlinkStagingKeeps DEF FinishCheck, Discard
    <2>2. upload.phase = "staging"
        BY <1>6 DEF FinishCheck
    <2>3. upload'.phase # "swapping"
        BY <1>0, <1>6 DEF FinishCheck, Discard, Uploads, NoUpload
    <2> QED BY <2>1, <2>2, <2>3, QuietStutter
<1>7. CASE FinishMoveAside
    BY <1>7, MoveAsideStarts
<1>8. CASE FinishPlace
    BY <1>8, PlaceInstalls
<1>9. CASE FinishRollBack
    <2> DEFINE s == Stem[upload.name]
    <2>1. upload.phase = "swapping" /\ upload'.phase # "swapping"
        BY <1>9 DEF FinishRollBack, NoUpload
    <2>2. upload.name \in Names
        BY <1>0, <2>1, SessionFields
    <2>3. PICK f \in {RolledBack, files} : UnlinkStaging(f)
        BY <1>9 DEF FinishRollBack
    <2>4. \A t \in Stems :
             \/ files'[t] = files[t]
             \/ upload.hadOld /\ t = s /\ files'[t] = files[Backup]
        <3>1. f \in [Paths -> Contents]
            BY <1>0, <2>2, RolledBackFacts
        <3>2. \A t \in Stems : files'[t] = f[t]
            BY <2>3, <3>1, UnlinkStagingFacts DEF Paths
        <3> QED BY <1>0, <2>2, <3>2, RolledBackFacts
    <2> QED BY <2>1, <2>4, SwapGivenUp
<1>10. CASE FinishDone
    <2>1. EntriesKept
        BY <1>0, <1>10, BackupUnlinked DEF FinishDone
    <2> QED BY <1>10, <2>1, QuietStutter DEF FinishDone, NoUpload
<1>11. CASE MetadataRefresh
    BY <1>11, QuietStutter DEF MetadataRefresh, MetadataMutexFree
<1>12. CASE Rescan
    BY <1>12, QuietStutter DEF Rescan, MetadataMutexFree
<1>13. CASE HideGuide
    BY <1>13, QuietStutter DEF HideGuide, ArchiveLockFree
<1>14. CASE ShowGuide
    BY <1>14, QuietStutter DEF ShowGuide, ArchiveLockFree
<1>15. CASE PowerLoss
    <2>1. EntriesKept
        BY <1>0, <1>15, UnlinkStagingKeeps DEF PowerLoss
    <2>2. upload'.phase # "swapping"
        BY <1>15 DEF PowerLoss, NoUpload
    <2> QED BY <2>1, <2>2, QuietStutter, SwapGivenUp
<1>16. CASE UNCHANGED vars
    BY <1>16 DEF vars, Library!lvars, InstalledPacks, EntryBeingReplaced
<1> QED
    BY <1>1, <1>2, <1>3, <1>4, <1>5, <1>6, <1>7, <1>8, <1>9, <1>10, <1>11,
       <1>12, <1>13, <1>14, <1>15, <1>16 DEF Next

(* The store implements PackLibrary: a pack appears only as a validated    *)
(* whole under the name it was uploaded as, no other pack is touched, and  *)
(* only a fault inside its own replacement can cost a pack                 *)
(* (pack_store.c:352-417).                                                 *)
THEOREM StoreImplementsLibrary == Spec => ImplementsLibrary
<1>1. Init => Library!Init
    BY InitLibrary
<1>2. IInv /\ [Next]_vars => [Library!Next]_Library!lvars
    BY LibraryStep
<1> QED BY Invariance, <1>1, <1>2, PTL DEF Spec, ImplementsLibrary, Library!Spec
==============================================================================
