---------------------------- MODULE CatalogueProofs ----------------------------
(***************************************************************************)
(* Proofs about the pack catalogue, its cached selection and the first-    *)
(* boot queue, and about the scanner that reads a document of the          *)
(* catalogue, for every set of packs, published documents and queues.      *)
(***************************************************************************)
EXTENDS Catalogue, CatalogIndex, FiniteSetTheorems, SequenceTheorems, WellFoundedInduction, TLAPS

Lookups == [at : {"idle", "test", "read", "select", "ready", "ok", "source", "find", "found", "missed"},
            id : Ids \cup {None}, newer : BOOLEAN]

Syncs == [phase : {"check", "remove", "rename", "ready", "ok", "source", "serve"},
          kind : {"sync"}, id : {None}]

(* The queue task has a pack to install from the moment it has read NVS.   *)
QueueBusy == task \in {"head", "lookup", "asked", "waiting", "commit"} => queue # <<>>

(* A request of the queue task is for the head of its queue, and the task  *)
(* waits for the answer.                                                   *)
QueueWaits == http.kind = "queued" => task = "waiting" /\ http.id = Head(queue)

TypeInv == TypeOK /\ QueueBusy /\ QueueWaits

------------------------------------------------------------------------------
(* Types. *)

LEMMA NoLookupTyped == NoLookup \in Lookups
BY DEF NoLookup, Lookups

LEMMA GotoTyped ==
    ASSUME lookup \in [Tasks -> Lookups], NEW t \in Tasks,
           NEW at \in {"idle", "test", "read", "select", "ready", "ok", "source", "find", "found", "missed"},
           Goto(t, at)
    PROVE  lookup' \in [Tasks -> Lookups]
BY DEF Goto, Lookups

LEMMA LookUpTyped ==
    ASSUME lookup \in [Tasks -> Lookups], NEW t \in Tasks, NEW id \in Ids, LookUp(t, id)
    PROVE  lookup' \in [Tasks -> Lookups]
<1>1. [at |-> "test", id |-> id, newer |-> FALSE] \in Lookups
    BY DEF Lookups
<1> QED BY <1>1 DEF LookUp

LEMMA LookupsTyped == TypeOK <=> TypeOK /\ lookup \in [Tasks -> Lookups]
BY DEF TypeOK, Lookups

(* What a step of a lookup, and one of a synchronisation, leaves alone. *)
LEMMA LookupStepFrame ==
    ASSUME TypeOK, NEW t \in Tasks, LookupStep(t)
    PROVE  Elsewhere /\ UNCHANGED <<queued, answer>> /\ unread' \in BOOLEAN
<1>1. CASE Select(t)
    BY <1>1 DEF Select
<1>2. CASE ~ Select(t)
    <2>1. OnlyLookup
        BY <1>2 DEF LookupStep, TestReady, ReadOk, StoreReady, StoreOk, StoreSource, Find
    <2> QED BY <2>1 DEF OnlyLookup, history, TypeOK
<1> QED BY <1>1, <1>2

SyncActions ==
    \/ SyncDownload \/ SyncCheck \/ SyncRemove \/ SyncRename
    \/ SyncStoreReady \/ SyncStoreOk \/ SyncStoreSource \/ SyncServe

LEMMA SyncStepFrame ==
    ASSUME TypeOK, SyncActions
    PROVE  /\ SyncAlone /\ unread' \in BOOLEAN
           /\ answer' \in {"none", "fetched", "other", "unreadable"}
<1>1. CASE SyncStoreSource
    BY <1>1 DEF SyncStoreSource, TypeOK
<1>2. CASE SyncServe
    <2>1. Served \in {"fetched", "other"}
        BY DEF Served
    <2>2. answer' = Served \/ answer' = "unreadable"
        BY <1>2 DEF SyncServe
    <2> QED BY <1>2, <2>1, <2>2 DEF SyncServe, TypeOK
<1>3. CASE ~ SyncStoreSource /\ ~ SyncServe
    <2>1. SyncStep
        BY <1>3 DEF SyncActions, SyncDownload, SyncCheck, SyncRemove, SyncRename,
                    SyncStoreReady, SyncStoreOk
    <2> QED BY <2>1 DEF SyncStep, TypeOK
<1> QED BY <1>1, <1>2, <1>3

LEMMA LookupStepTyped ==
    ASSUME TypeInv, NEW t \in Tasks, LookupStep(t)
    PROVE  TypeInv'
<1>1. lookup \in [Tasks -> Lookups] /\ TypeOK
    BY LookupsTyped DEF TypeInv
<1>2. Elsewhere /\ UNCHANGED <<queued, answer>> /\ unread' \in BOOLEAN
    BY <1>1, LookupStepFrame
<1>3. lookup' \in [Tasks -> Lookups]
    <2>1. CASE Select(t)
        <3>1. PICK failed \in BOOLEAN :
                 lookup' = [lookup EXCEPT ![t].at = "ready", ![t].newer = SyncedIsNewer /\ ~ failed]
            BY <2>1 DEF Select
        <3>2. (SyncedIsNewer /\ ~ failed) \in BOOLEAN
            BY DEF SyncedIsNewer
        <3> QED BY <1>1, <3>1, <3>2 DEF Lookups
    <2>2. CASE ~ Select(t)
        <3>1. \E at \in {"read", "select", "find", "missed", "ok", "source", "found"} : Goto(t, at)
            BY <2>2 DEF LookupStep, TestReady, ReadOk, StoreReady, StoreOk, StoreSource, Find
        <3> QED BY <1>1, <3>1, GotoTyped
    <2> QED BY <2>1, <2>2
<1>4. ready' \in {ready, TRUE} /\ ok' \in {ok, TRUE} /\ source' \in {source, "file", "asset"}
    BY DEF LookupStep, TestReady, ReadOk, Select, StoreReady, StoreOk, StoreSource, Find, cache
<1>5. ready' \in BOOLEAN /\ ok' \in BOOLEAN /\ source' \in {"asset", "file"}
    BY <1>1, <1>4 DEF TypeOK
<1> QED BY <1>1, <1>2, <1>3, <1>5
        DEF Elsewhere, TypeInv, TypeOK, QueueBusy, QueueWaits, Lookups, volume, queueVars

LEMMA HttpStepTyped ==
    ASSUME TypeInv,
           \/ \E kind \in Kinds, id \in Ids : HttpBrowser(kind, id)
           \/ HttpAnswered \/ ForgetReady \/ ForgetOk
           \/ \E success \in BOOLEAN : InstallEnds(success)
    PROVE  TypeInv'
<1>1. lookup \in [Tasks -> Lookups] /\ TypeOK
    BY LookupsTyped DEF TypeInv
<1>2. CASE \E kind \in Kinds, id \in Ids : HttpBrowser(kind, id)
    <2>1. PICK kind \in Kinds, id \in Ids : HttpBrowser(kind, id)
        BY <1>2
    <2>2. lookup' \in [Tasks -> Lookups]
        BY <1>1, <2>1, LookUpTyped DEF HttpBrowser, HttpLookup, Tasks
    <2>3. http' \in Requests
        BY <2>1 DEF HttpBrowser, HttpLookup, Requests
    <2>4. http'.kind # "queued"
        BY <2>1 DEF HttpBrowser, HttpLookup
    <2> QED BY <1>1, <2>1, <2>2, <2>3, <2>4
            DEF HttpBrowser, HttpLookup, TypeInv, TypeOK, QueueBusy, QueueWaits, Lookups, volume, cache, history
<1>3. CASE HttpAnswered
    <2>1. lookup' \in [Tasks -> Lookups]
        BY <1>1, <1>3, NoLookupTyped DEF HttpAnswered
    <2>2. http' \in Requests
        BY <1>1, <1>3 DEF HttpAnswered, TypeOK, Requests, NoRequest, Kinds
    <2>3. http'.kind = "queued" => http.kind = "queued" /\ http'.id = http.id
        BY <1>1, <1>3 DEF HttpAnswered, TypeOK, Requests, NoRequest
    <2> QED BY <1>1, <1>3, <2>1, <2>2, <2>3
            DEF HttpAnswered, TypeInv, TypeOK, QueueBusy, QueueWaits, Lookups, volume, cache, history, queueVars
<1>4. CASE ForgetReady \/ ForgetOk
    <2>1. http' \in Requests
        BY <1>1, <1>4 DEF ForgetReady, ForgetOk, AfterForget, TypeOK, Requests, NoRequest, Kinds, Installs
    <2>2. ready' \in {ready, FALSE} /\ ok' \in {ok, FALSE}
        BY <1>4 DEF ForgetReady, ForgetOk
    <2>3. http'.kind = "queued" => http.kind = "queued" /\ http'.id = http.id
        BY <1>1, <1>4 DEF ForgetReady, ForgetOk, AfterForget, TypeOK, Requests, NoRequest
    <2>4. UNCHANGED <<saved, temp, source, lookup, queued, unread, answer, nvs, queue, task, added>>
        BY <1>4 DEF ForgetReady, ForgetOk, volume, history, queueVars
    <2>5. QueueBusy' /\ QueueWaits'
        BY <2>3, <2>4 DEF TypeInv, QueueBusy, QueueWaits
    <2>6. ready' \in BOOLEAN /\ ok' \in BOOLEAN
        BY <1>1, <2>2 DEF TypeOK
    <2> QED BY <1>1, <2>1, <2>4, <2>5, <2>6 DEF TypeInv, TypeOK
<1>5. CASE \E success \in BOOLEAN : InstallEnds(success)
    <2>1. added' \subseteq Ids
        BY <1>1, <1>5 DEF InstallEnds, TypeOK, Requests, NoRequest
    <2>2. task' \in {task, "commit", "stopped"} /\ http' = NoRequest
        BY <1>5 DEF InstallEnds
    <2>3. QueueBusy'
        <3>1. CASE task' = task \/ task' = "stopped"
            BY <1>5, <3>1 DEF InstallEnds, TypeInv, QueueBusy
        <3>2. CASE http.kind = "queued"
            BY <1>5, <3>2 DEF InstallEnds, TypeInv, QueueBusy, QueueWaits
        <3> QED BY <1>5, <2>2, <3>1, <3>2 DEF InstallEnds
    <2>4. QueueWaits'
        BY <2>2 DEF NoRequest, QueueWaits
    <2> QED BY <1>1, <1>5, <2>1, <2>2, <2>3, <2>4
            DEF InstallEnds, TypeInv, TypeOK, Requests, volume, cache, history
<1> QED BY <1>2, <1>3, <1>4, <1>5
LEMMA SyncStepTyped ==
    ASSUME TypeInv, SyncActions
    PROVE  TypeInv'
<1>1. /\ TypeOK /\ SyncAlone /\ unread' \in BOOLEAN
      /\ answer' \in {"none", "fetched", "other", "unreadable"}
    BY SyncStepFrame DEF TypeInv
<1> USE DEF SyncActions
<1>2. http = NoRequest \/ http \in Syncs
    BY <1>1 DEF TypeOK, Requests, Syncs, SyncDownload, SyncCheck, SyncRemove, SyncRename, SyncStoreReady,
                SyncStoreOk, SyncStoreSource, SyncServe
<1>3. http' = NoRequest \/ http' \in Syncs
    <2>1. CASE SyncDownload
        BY <2>1 DEF SyncDownload, Syncs
    <2>2. CASE ~ SyncDownload
        <3>1. \/ http' = NoRequest
              \/ http # NoRequest /\ \E phase \in {"remove", "rename", "ready", "ok", "source", "serve"} :
                     HttpProceeds(phase)
            BY <2>2 DEF SyncCheck, SyncRemove, SyncRename, SyncStoreReady, SyncStoreOk,
                        SyncStoreSource, SyncServe, GiveUp, NoRequest
        <3> QED BY <1>2, <3>1 DEF HttpProceeds, Syncs
    <2> QED BY <2>1, <2>2
<1>4. http' \in Requests /\ http'.kind # "queued"
    BY <1>3 DEF Requests, Syncs, NoRequest
<1>5. /\ saved' \in Catalogues \cup {Garbage, None}
      /\ temp' \in Catalogues \cup {Garbage, None}
    BY <1>1 DEF TypeOK, SyncDownload, SyncCheck, SyncRemove, SyncRename, SyncStoreReady,
                SyncStoreOk, SyncStoreSource, SyncServe, GiveUp, volume
<1>6. ready' \in {ready, TRUE} /\ ok' \in {ok, TRUE} /\ source' \in {source, "file"}
    BY DEF SyncDownload, SyncCheck, SyncRemove, SyncRename, SyncStoreReady, SyncStoreOk,
           SyncStoreSource, SelectSynced, SyncServe, cache
<1>7. ready' \in BOOLEAN /\ ok' \in BOOLEAN /\ source' \in {"asset", "file"}
    BY <1>1, <1>6 DEF TypeOK
<1> QED BY <1>1, <1>4, <1>5, <1>7
        DEF SyncAlone, TypeInv, TypeOK, QueueBusy, QueueWaits, queueVars

LEMMA QueueStepTyped ==
    ASSUME TypeInv, QueueStart \/ QueueLookUp \/ QueueAnswered \/ QueueInstall \/ QueueCommit
    PROVE  TypeInv'
<1>1. TypeOK /\ QueueBusy /\ QueueWaits /\ lookup \in [Tasks -> Lookups]
    BY LookupsTyped DEF TypeInv
<1>2. task \in {"head", "asked", "commit"} => Head(queue) \in Ids /\ Tail(queue) \in Seq(Ids)
    BY <1>1 DEF TypeOK, QueueBusy
<1>3. CASE QueueStart
    <2>1. QueueBusy'
        BY <1>3 DEF QueueStart, QueueBusy
    <2>2. QueueWaits'
        BY <1>1, <1>3 DEF QueueStart, OnlyQueue, QueueWaits
    <2> QED BY <1>1, <1>3, <2>1, <2>2 DEF QueueStart, OnlyQueue, history, TypeInv, TypeOK, volume, cache
<1>4. CASE QueueLookUp
    <2>1. lookup' \in [Tasks -> Lookups]
        BY <1>1, <1>2, <1>4, LookUpTyped DEF QueueLookUp, Tasks
    <2> QED BY <1>1, <1>4, <2>1
            DEF QueueLookUp, OnlyQueue, history, TypeInv, TypeOK, QueueBusy, QueueWaits, Lookups, volume, cache, history
<1>5. CASE QueueAnswered
    <2>1. lookup' \in [Tasks -> Lookups]
        BY <1>1, <1>5, NoLookupTyped DEF QueueAnswered
    <2> QED BY <1>1, <1>5, <2>1
            DEF QueueAnswered, OnlyQueue, history, TypeInv, TypeOK, QueueBusy, QueueWaits, Lookups, volume, cache, history
<1>6. CASE QueueInstall
    <2>1. CASE HttpLookup("queued", Head(queue)) /\ task' = "waiting"
        <3>1. lookup' \in [Tasks -> Lookups]
            BY <1>1, <1>2, <1>6, <2>1, LookUpTyped DEF QueueInstall, HttpLookup, Tasks
        <3>2. http' \in Requests /\ http'.id = Head(queue)
            BY <1>2, <1>6, <2>1 DEF QueueInstall, HttpLookup, Requests, Kinds
        <3> QED BY <1>1, <1>6, <2>1, <3>1, <3>2
                DEF QueueInstall, HttpLookup, TypeInv, TypeOK, QueueBusy, QueueWaits, Lookups,
                    volume, cache, history
    <2>2. CASE task' = "stopped" /\ UNCHANGED <<lookup, queue, nvs>> /\ OnlyQueue
        BY <1>1, <1>6, <2>2
        DEF QueueInstall, OnlyQueue, history, TypeInv, TypeOK, QueueBusy, QueueWaits, volume, cache
    <2> QED BY <1>6, <2>1, <2>2 DEF QueueInstall
<1>7. CASE QueueCommit
    <2>1. queue' \in Seq(Ids) /\ nvs' \in Seq(Ids)
        BY <1>1, <1>2, <1>7 DEF QueueCommit, Advance, Pop, TypeOK
    <2>2. QueueBusy' /\ QueueWaits'
        BY <1>1, <1>7 DEF QueueCommit, OnlyQueue, QueueBusy, QueueWaits
    <2> QED BY <1>1, <1>7, <2>1, <2>2 DEF QueueCommit, OnlyQueue, history, TypeInv, TypeOK, volume, cache
<1> QED BY <1>3, <1>4, <1>5, <1>6, <1>7

LEMMA PowerLossTyped ==
    ASSUME TypeInv, PowerLoss
    PROVE  TypeInv'
<1>1. lookup' \in [Tasks -> Lookups]
    BY NoLookupTyped DEF PowerLoss
<1>2. http' \in Requests /\ http'.kind # "queued" /\ task' = "boot" /\ queue' = <<>> /\ <<>> \in Seq(Ids)
    BY DEF PowerLoss, Requests, NoRequest
<1> QED BY <1>1, <1>2
        DEF PowerLoss, TypeInv, TypeOK, QueueBusy, QueueWaits, Lookups, volume

LEMMA TypeInitial == Init => TypeInv
<1> SUFFICES ASSUME Init PROVE TypeInv
    OBVIOUS
<1>1. lookup \in [Tasks -> Lookups]
    BY NoLookupTyped DEF Init
<1>2. http \in Requests /\ http.kind # "queued" /\ <<>> \in Seq(Ids)
    BY DEF Init, Requests, NoRequest
<1>3. nvs \in Seq(Ids)
    BY CatalogueAssumption DEF Init
<1> QED BY <1>1, <1>2, <1>3 DEF Init, TypeInv, TypeOK, QueueBusy, QueueWaits, Lookups

LEMMA TypeKept == TypeInv /\ [Next]_vars => TypeInv'
<1>1. TypeInv /\ UNCHANGED vars => TypeInv'
    BY DEF vars, volume, cache, history, queueVars, TypeInv, TypeOK, QueueBusy, QueueWaits
<1> QED BY <1>1, LookupStepTyped, HttpStepTyped, SyncStepTyped, QueueStepTyped, PowerLossTyped
        DEF Next, SyncActions

LEMMA TypeInvariance == Spec => []TypeInv
BY TypeInitial, TypeKept, PTL DEF Spec

(* The variables of the catalogue keep their types: the globals of         *)
(* web_server.c, the two files and what the tasks hold.                    *)
THEOREM CatalogueTypeCorrect == Spec => []TypeOK
<1>1. TypeInv => TypeOK
    BY DEF TypeInv
<1> QED BY TypeInvariance, <1>1, PTL
------------------------------------------------------------------------------
(* The synced file: between the removal and the rename the volume has only *)
(* the temporary one, and nothing but a valid document gets that far.      *)

FileInv ==
    /\ saved \in Catalogues \cup {None}
    /\ http.phase \in {"remove", "rename"} => temp \in Catalogues

LEMMA FileInitial == Init => FileInv
BY DEF Init, FileInv, NoRequest

LEMMA FileKept == TypeInv /\ FileInv /\ [Next]_vars => FileInv'
<1> SUFFICES ASSUME TypeInv, FileInv, [Next]_vars PROVE FileInv'
    OBVIOUS
<1>1. http \in Requests /\ TypeOK
    BY DEF TypeInv, TypeOK
<1>2. CASE UNCHANGED vars
    BY <1>2 DEF vars, volume, FileInv
<1>3. CASE PowerLoss
    BY <1>3 DEF PowerLoss, NoRequest, volume, FileInv
<1>4. CASE \E t \in Tasks : LookupStep(t)
    <2>1. UNCHANGED <<volume, http>>
        BY <1>1, <1>4, LookupStepFrame DEF Elsewhere
    <2> QED BY <2>1 DEF volume, FileInv
<1>5. CASE (\E kind \in Kinds, id \in Ids : HttpBrowser(kind, id)) \/ QueueInstall
    <2>1. UNCHANGED volume /\ (UNCHANGED http \/ http'.phase = "lookup")
        BY <1>5 DEF HttpBrowser, HttpLookup, QueueInstall, OnlyQueue
    <2> QED BY <2>1 DEF volume, FileInv
<1>6. CASE HttpAnswered \/ ForgetReady \/ ForgetOk \/ \E success \in BOOLEAN : InstallEnds(success)
    <2>1. UNCHANGED volume
        BY <1>6 DEF HttpAnswered, ForgetReady, ForgetOk, InstallEnds
    <2>2. http'.phase \in {"idle", "forget", "forgotten", "install"}
        BY <1>1, <1>6 DEF HttpAnswered, ForgetReady, ForgetOk, AfterForget, InstallEnds, NoRequest, Requests
    <2> QED BY <2>1, <2>2 DEF volume, FileInv
<1>7. CASE SyncDownload
    BY <1>7 DEF SyncDownload, FileInv
<1>8. CASE SyncCheck
    <2>1. http'.phase = "idle" \/ temp' \in Catalogues
        BY <1>8 DEF SyncCheck, StagedIsValid, GiveUp, NoRequest
    <2> QED BY <1>8, <2>1 DEF SyncCheck, FileInv
<1>9. CASE SyncRemove
    <2>1. http'.phase = "idle" \/ temp' \in Catalogues
        BY <1>9 DEF SyncRemove, FileInv, GiveUp, NoRequest
    <2> QED BY <1>9, <2>1 DEF SyncRemove, FileInv
<1>10. CASE SyncRename
    <2>1. http'.phase \in {"idle", "ready"}
        BY <1>1, <1>10 DEF SyncRename, HttpProceeds, GiveUp, NoRequest, Requests
    <2>2. saved' \in {saved, temp}
        BY <1>10 DEF SyncRename
    <2> QED BY <1>10, <2>1, <2>2 DEF SyncRename, FileInv
<1>11. CASE SyncStoreReady \/ SyncStoreOk \/ SyncStoreSource \/ SyncServe
    <2>1. http'.phase \in {"ok", "source", "serve", "idle"} /\ UNCHANGED volume
        BY <1>1, <1>11
        DEF SyncStoreReady, SyncStoreOk, SyncStoreSource, SyncServe, HttpProceeds, NoRequest, Requests
    <2> QED BY <2>1 DEF volume, FileInv
<1>12. CASE QueueStart \/ QueueLookUp \/ QueueAnswered \/ QueueCommit
    BY <1>12 DEF QueueStart, QueueLookUp, QueueAnswered, QueueCommit, OnlyQueue, volume, FileInv
<1> QED BY <1>2, <1>3, <1>4, <1>5, <1>6, <1>7, <1>8, <1>9, <1>10, <1>11, <1>12 DEF Next

(* Whatever step of a synchronisation fails or loses power, the synced     *)
(* file is a whole, valid document or is missing (web_server.c:1540).      *)
THEOREM SyncedFileIsWhole == Spec => []CatalogueIsWhole
<1>1. FileInv => CatalogueIsWhole
    BY CatalogueAssumption DEF FileInv, CatalogueIsWhole
<1> QED BY FileInitial, FileKept, TypeInvariance, <1>1, PTL DEF Spec

------------------------------------------------------------------------------
(* The rest of the queue. *)

(* s is the end of what the flasher left, and all before it is installed.  *)
Rest(s) ==
    /\ Len(s) <= Len(queued)
    /\ \A i \in 1 .. Len(s) : s[i] = queued[Len(queued) - Len(s) + i]
    /\ \A i \in 1 .. Len(queued) - Len(s) : queued[i] \in added

(* A power loss empties the copy in memory, so it says nothing at boot;    *)
(* and the head leaves NVS only in "commit", when it is installed.         *)
QueueInv ==
    /\ Rest(nvs)
    /\ task # "boot" => Rest(queue)
    /\ task = "commit" => Head(queue) \in added

LEMMA RestKept ==
    ASSUME NEW s, Rest(s), UNCHANGED queued, added \subseteq added'
    PROVE  /\ Len(s) <= Len(queued')
           /\ \A i \in 1 .. Len(s) : s[i] = queued'[Len(queued') - Len(s) + i]
           /\ \A i \in 1 .. Len(queued') - Len(s) : queued'[i] \in added'
BY DEF Rest

LEMMA RestTail ==
    ASSUME queued \in Seq(Ids), NEW s \in Seq(Ids), s # <<>>, Rest(s), Head(s) \in added
    PROVE  Rest(Tail(s))
<1>1. /\ Len(s) \in Nat /\ Len(queued) \in Nat /\ Len(s) > 0
      /\ Len(Tail(s)) = Len(s) - 1
      /\ \A i \in 1 .. Len(s) - 1 : Tail(s)[i] = s[i + 1]
      /\ Head(s) = s[1]
    BY EmptySeq
<1> DEFINE gap == Len(queued) - Len(s)
<1>2. gap \in Nat /\ Len(queued) - Len(Tail(s)) = gap + 1
    BY <1>1 DEF Rest
<1>3. queued[gap + 1] \in added
    <2>1. s[1] = queued[gap + 1]
        BY <1>1 DEF Rest
    <2> QED BY <1>1, <2>1
<1>4. \A i \in 1 .. gap + 1 : queued[i] \in added
    <2>1. \A i \in 1 .. gap : queued[i] \in added
        BY DEF Rest
    <2>2. \A i \in 1 .. gap + 1 : i = gap + 1 \/ i \in 1 .. gap
        BY <1>2
    <2> QED BY <1>3, <2>1, <2>2
<1>5. \A i \in 1 .. Len(Tail(s)) : Tail(s)[i] = queued[Len(queued) - Len(Tail(s)) + i]
    <2> SUFFICES ASSUME NEW i \in 1 .. Len(s) - 1 PROVE Tail(s)[i] = queued[gap + 1 + i]
        BY <1>1, <1>2
    <2>1. i + 1 \in 1 .. Len(s) /\ gap + (i + 1) = gap + 1 + i
        BY <1>1, <1>2
    <2>2. s[i + 1] = queued[gap + (i + 1)]
        BY <2>1 DEF Rest
    <2> QED BY <1>1, <2>1, <2>2
<1> QED BY <1>1, <1>2, <1>4, <1>5 DEF Rest

LEMMA QueueInitial == Init => QueueInv
<1> SUFFICES ASSUME Init PROVE QueueInv
    OBVIOUS
<1>1. Len(queued) \in Nat
    BY CatalogueAssumption DEF Init
<1>2. Rest(nvs)
    BY <1>1 DEF Init, Rest
<1> QED BY <1>2 DEF Init, QueueInv

LEMMA QueueKept == TypeInv /\ QueueInv /\ [Next]_vars => QueueInv'
<1> SUFFICES ASSUME TypeInv, QueueInv, [Next]_vars PROVE QueueInv'
    OBVIOUS
<1>1. /\ http \in Requests /\ QueueBusy /\ QueueWaits
      /\ queued \in Seq(Ids) /\ nvs \in Seq(Ids) /\ queue \in Seq(Ids)
    BY CatalogueAssumption DEF TypeInv, TypeOK
<1>2. CASE /\ UNCHANGED <<queued, nvs, queue>> /\ added \subseteq added'
           /\ \/ UNCHANGED task
              \/ task # "boot" /\ task' # "commit"
      <2>1. Rest(nvs)' /\ (Rest(queue) => Rest(queue)')
          BY <1>2, RestKept DEF QueueInv, Rest
      <2> QED BY <1>2, <2>1 DEF QueueInv
<1>3. CASE UNCHANGED vars
    BY <1>2, <1>3 DEF vars, history, queueVars
<1>4. CASE PowerLoss
    <2>1. Rest(nvs)'
        BY <1>4 DEF PowerLoss, QueueInv, Rest
    <2> QED BY <1>4, <2>1 DEF PowerLoss, QueueInv
<1>5. CASE \E t \in Tasks : LookupStep(t)
    <2>1. Elsewhere /\ UNCHANGED queued
        BY <1>5, LookupStepFrame DEF TypeInv
    <2> QED BY <1>2, <2>1 DEF Elsewhere, queueVars
<1>6. CASE (\E kind \in Kinds, id \in Ids : HttpBrowser(kind, id)) \/ HttpAnswered \/ ForgetReady \/ ForgetOk
    BY <1>2, <1>6 DEF HttpBrowser, HttpLookup, HttpAnswered, ForgetReady, ForgetOk, queueVars, history
<1>7. CASE \E success \in BOOLEAN : InstallEnds(success)
    <2>1. PICK success \in BOOLEAN : InstallEnds(success)
        BY <1>7
    <2>2. UNCHANGED <<queued, nvs, queue>> /\ added \subseteq added'
        BY <2>1 DEF InstallEnds, history
    <2>3. CASE task' = task
        BY <1>2, <2>2, <2>3
    <2>4. CASE http.kind = "queued"
        <3>1. task = "waiting" /\ http.id = Head(queue) /\ task' \in {"commit", "stopped"}
              /\ (task' = "commit" => Head(queue) \in added')
            BY <1>1, <2>1, <2>4 DEF InstallEnds, QueueWaits
        <3>2. Rest(nvs)' /\ Rest(queue)'
            BY <2>2, <3>1, RestKept DEF QueueInv, Rest
        <3> QED BY <2>2, <3>1, <3>2 DEF QueueInv
    <2> QED BY <2>1, <2>3, <2>4 DEF InstallEnds
<1>8. CASE \/ SyncDownload \/ SyncCheck \/ SyncRemove \/ SyncRename
           \/ SyncStoreReady \/ SyncStoreOk \/ SyncStoreSource \/ SyncServe
    <2>1. SyncAlone
        BY <1>8, SyncStepFrame DEF TypeInv, SyncActions
    <2> QED BY <1>2, <2>1 DEF SyncAlone, queueVars
<1>9. CASE QueueStart
    <2>1. Rest(nvs)' /\ Rest(queue)' /\ task' # "commit"
        BY <1>9 DEF QueueStart, OnlyQueue, history, QueueInv, Rest
    <2> QED BY <2>1 DEF QueueInv
<1>10. CASE QueueLookUp \/ QueueAnswered
    BY <1>2, <1>10 DEF QueueLookUp, QueueAnswered, OnlyQueue, history
<1>11. CASE QueueInstall
    BY <1>2, <1>11 DEF QueueInstall, HttpLookup, OnlyQueue, history
<1>12. CASE QueueCommit
    <2>1. queue # <<>> /\ Rest(queue) /\ Head(queue) \in added
        BY <1>1, <1>12 DEF QueueCommit, QueueBusy, QueueInv
    <2>2. Rest(Tail(queue))
        BY <1>1, <2>1, RestTail
    <2>3. queue' = Tail(queue) /\ nvs' \in {nvs, Tail(queue)} /\ UNCHANGED <<queued, added>>
          /\ task' # "commit"
        BY <1>12 DEF QueueCommit, Advance, Pop, OnlyQueue, history
    <2>4. Rest(queue)' /\ Rest(nvs)'
        BY <2>2, <2>3 DEF QueueInv, Rest
    <2> QED BY <2>3, <2>4 DEF QueueInv
<1> QED BY <1>3, <1>4, <1>5, <1>6, <1>7, <1>8, <1>9, <1>10, <1>11, <1>12 DEF Next

LEMMA RestIsSuffix ==
    ASSUME queued \in Seq(Ids), nvs \in Seq(Ids), Rest(nvs)
    PROVE  IsSuffix(nvs, queued)
<1> DEFINE n == Len(nvs)
           q == Len(queued)
           R == Reverse(nvs)
           Q == Reverse(queued)
<1>1. n \in Nat /\ q \in Nat /\ n <= q
    BY DEF Rest
<1>2. R \in Seq(Ids) /\ Len(R) = n /\ \A i \in 1 .. n : R[i] = nvs[n - i + 1]
    <2>1. \A i \in 1 .. n : nvs[n - i + 1] \in Ids
        BY <1>1
    <2> QED BY <1>1, <2>1 DEF Reverse
<1>3. Q \in Seq(Ids) /\ Len(Q) = q /\ \A i \in 1 .. q : Q[i] = queued[q - i + 1]
    <2>1. \A i \in 1 .. q : queued[q - i + 1] \in Ids
        BY <1>1
    <2> QED BY <1>1, <2>1 DEF Reverse
<1>4. \A i \in 1 .. n : R[i] = Q[i]
    <2> SUFFICES ASSUME NEW i \in 1 .. n PROVE R[i] = Q[i]
        OBVIOUS
    <2>1. n - i + 1 \in 1 .. n /\ q - n + (n - i + 1) = q - i + 1 /\ i \in 1 .. q
        BY <1>1
    <2>2. nvs[n - i + 1] = queued[q - n + (n - i + 1)]
        BY <2>1 DEF Rest
    <2> QED BY <1>2, <1>3, <2>1, <2>2
<1>5. SubSeq(R, 1, n) = SubSeq(Q, 1, n)
    <2> HIDE DEF R, Q
    <2>1. SubSeq(R, 1, n) = [i \in 1 .. n |-> R[i]] /\ SubSeq(Q, 1, n) = [i \in 1 .. n |-> Q[i]]
        BY <1>1, <1>2, <1>3
    <2> QED BY <1>4, <2>1
<1> QED BY <1>1, <1>2, <1>3, <1>5 DEF IsSuffix, IsPrefix

(* The first-boot queue loses no pack: what failures and power losses      *)
(* leave in NVS is the end of what the flasher wrote, and everything that  *)
(* left it was installed (docs/ARCHITECTURE.md:32-34).                     *)
THEOREM QueueLosesNothing == Spec => []QueueKeepsUninstalled
<1>1. TypeInv /\ QueueInv => QueueKeepsUninstalled
    <2> SUFFICES ASSUME TypeInv, QueueInv PROVE QueueKeepsUninstalled
        OBVIOUS
    <2>1. queued \in Seq(Ids) /\ nvs \in Seq(Ids) /\ Rest(nvs)
        BY CatalogueAssumption DEF TypeInv, TypeOK, QueueInv
    <2> QED BY <2>1, RestIsSuffix DEF QueueKeepsUninstalled, Rest
<1> QED BY QueueInitial, QueueKept, TypeInvariance, <1>1, PTL DEF Spec
------------------------------------------------------------------------------
(* The cached selection, while only handlers touch it. *)

(* No queue task, and so no lookup but the handler's own.                  *)
NoQueueTask ==
    /\ nvs = <<>> /\ queue = <<>> /\ task \in {"boot", "stopped"}
    /\ lookup["queue"] = NoLookup
    /\ http.kind # "queued"

(* A handler's call of catalog_find(): what it has read still holds, as    *)
(* nobody else writes; ready is never set ahead of ok but by the call that *)
(* is about to set ok.                                                     *)
HandlerLookup ==
    /\ lookup["httpd"].at # "idle" => http.phase = "lookup"
    /\ http.phase = "forgotten" \/ lookup["httpd"].at \in {"select", "ready"} => ~ ready
    /\ ready => ok \/ lookup["httpd"].at = "ok" \/ http.phase = "ok"
    /\ lookup["httpd"].at = "read" => ok
    /\ lookup["httpd"].at \in {"ready", "ok", "source"} => lookup["httpd"].newer = (SyncedIsNewer /\ ~ unread)
    /\ lookup["httpd"].at = "missed" => lookup["httpd"].id \notin Lists[Asset]

(* A synchronisation: the document it selects is the one in place.         *)
SyncSelects ==
    /\ http.phase = "rename" => saved = None
    /\ http.phase \in {"ready", "ok", "source", "serve"} => saved \in Catalogues
    /\ http.phase = "serve" => source = "file"
    /\ answer # "other"

AloneInv == queued = <<>> => NoQueueTask /\ HandlerLookup /\ SyncSelects /\ NewerIsActive

LEMMA AloneInitial == Init => AloneInv
<1> SUFFICES ASSUME Init, queued = <<>> PROVE NoQueueTask /\ HandlerLookup /\ SyncSelects /\ NewerIsActive
    BY DEF AloneInv
<1>1. lookup["queue"] = NoLookup /\ lookup["httpd"] = NoLookup
    BY DEF Init, Tasks
<1> QED BY <1>1 DEF Init, NoQueueTask, HandlerLookup, SyncSelects, NewerIsActive, NoRequest, NoLookup

LEMMA LookupStepAlone ==
    ASSUME TypeInv, FileInv, AloneInv, queued = <<>>, NEW t \in Tasks, LookupStep(t)
    PROVE  (NoQueueTask /\ HandlerLookup /\ SyncSelects /\ NewerIsActive)'
<1>1. /\ NoQueueTask /\ HandlerLookup /\ SyncSelects /\ NewerIsActive
      /\ lookup \in [Tasks -> Lookups]
    BY LookupsTyped DEF AloneInv, TypeInv
<1>2. Elsewhere /\ UNCHANGED <<queued, answer>>
    BY LookupStepFrame DEF TypeInv
<1>3. t = "httpd"
    BY <1>1 DEF Tasks, NoQueueTask, NoLookup, LookupStep, TestReady, ReadOk, Select, StoreReady,
                StoreOk, StoreSource, Find
<1> DEFINE mine == lookup["httpd"]
<1>4. mine \in Lookups /\ http.phase = "lookup"
    <2>1. "httpd" \in Tasks /\ mine \in Lookups
        BY <1>1 DEF Tasks
    <2>2. mine.at # "idle"
        BY <1>3 DEF LookupStep, TestReady, ReadOk, Select, StoreReady, StoreOk, StoreSource, Find
    <2> QED BY <1>1, <2>1, <2>2 DEF HandlerLookup
<1>5. NoQueueTask' /\ http'.phase = "lookup" /\ SyncedIsNewer' = SyncedIsNewer /\ saved' = saved
    <2>1. lookup'["queue"] = lookup["queue"]
        BY <1>1, <1>3 DEF Tasks, Goto, LookupStep, TestReady, ReadOk, Select, StoreReady, StoreOk,
                          StoreSource, Find
    <2> QED BY <1>1, <1>2, <1>4, <2>1 DEF NoQueueTask, Elsewhere, queueVars, volume, SyncedIsNewer
<1>6. SyncSelects'
    BY <1>1, <1>2, <1>5 DEF SyncSelects
<1>7. \A at : Goto("httpd", at) =>
          mine'.at = at /\ mine'.id = mine.id /\ mine'.newer = mine.newer
    BY <1>1, <1>4 DEF Goto, Tasks, Lookups
<1>8. CASE TestReady("httpd")
    <2>1. mine.at = "test" /\ UNCHANGED cache
          /\ mine'.at = IF ready THEN "read" ELSE "select"
        BY <1>7, <1>8 DEF TestReady
    <2>u. unread' = unread
        BY <1>8 DEF TestReady, OnlyLookup, history
    <2> QED BY <1>1, <1>4, <1>5, <1>6, <2>1, <2>u DEF HandlerLookup, NewerIsActive, NothingQueued, cache
<1>9. CASE ReadOk("httpd")
    <2>1. mine.at = "read" /\ UNCHANGED cache /\ mine'.at = "find"
        BY <1>1, <1>7, <1>9 DEF ReadOk, HandlerLookup
    <2>u. unread' = unread
        BY <1>9 DEF ReadOk, OnlyLookup, history
    <2> QED BY <1>1, <1>4, <1>5, <1>6, <2>1, <2>u DEF HandlerLookup, NewerIsActive, NothingQueued, cache
<1>10. CASE Select("httpd")
    <2>1. PICK failed \in BOOLEAN :
             /\ lookup' = [lookup EXCEPT !["httpd"].at = "ready",
                                         !["httpd"].newer = SyncedIsNewer /\ ~ failed]
             /\ unread' = failed
        BY <1>10 DEF Select
    <2>2. mine'.at = "ready" /\ mine'.newer = (SyncedIsNewer /\ ~ unread')
        BY <1>1, <1>4, <2>1 DEF Tasks, Lookups
    <2>3. mine.at = "select" /\ UNCHANGED cache
        BY <1>10 DEF Select
    <2>4. ~ ready
        BY <1>1, <2>3 DEF HandlerLookup
    <2> QED BY <1>1, <1>4, <1>5, <1>6, <2>2, <2>3, <2>4
            DEF HandlerLookup, NewerIsActive, NothingQueued, cache
<1>11. CASE StoreReady("httpd")
    <2>1. mine.at = "ready" /\ ready' /\ UNCHANGED <<ok, source>> /\ mine'.at = "ok" /\ mine'.newer = mine.newer
        BY <1>7, <1>11 DEF StoreReady
    <2>u. unread' = unread
        BY <1>11 DEF StoreReady, OnlyLookup, history
    <2> QED BY <1>1, <1>4, <1>5, <1>6, <2>1, <2>u DEF HandlerLookup, NewerIsActive, NothingQueued
<1>12. CASE StoreOk("httpd")
    <2>1. mine.at = "ok" /\ ok' /\ UNCHANGED <<ready, source>> /\ mine'.at = "source" /\ mine'.newer = mine.newer
        BY <1>7, <1>12 DEF StoreOk
    <2>u. unread' = unread
        BY <1>12 DEF StoreOk, OnlyLookup, history
    <2> QED BY <1>1, <1>4, <1>5, <1>6, <2>1, <2>u DEF HandlerLookup, NewerIsActive, NothingQueued
<1>13. CASE StoreSource("httpd")
    <2>1. /\ mine.at = "source" /\ UNCHANGED <<ready, ok>> /\ mine'.at = "find"
          /\ source' = IF mine.newer THEN "file" ELSE "asset"
        BY <1>7, <1>13 DEF StoreSource
    <2>2. mine.newer = (SyncedIsNewer /\ ~ unread)
        BY <1>1, <2>1 DEF HandlerLookup
    <2>u. unread' = unread
        BY <1>13 DEF StoreSource, OnlyLookup, history
    <2> QED BY <1>1, <1>4, <1>5, <1>6, <2>1, <2>u, <2>2 DEF HandlerLookup, NewerIsActive, NothingQueued
<1>14. CASE Find("httpd")
    <2>1. /\ mine.at = "find" /\ UNCHANGED cache /\ mine'.at \in {"found", "missed"} /\ mine'.id = mine.id
          /\ mine'.at = "missed" => mine.id \notin Lists[Asset]
        BY <1>7, <1>14 DEF Find, CatalogueLists
    <2>u. unread' = unread
        BY <1>14 DEF Find, OnlyLookup, history
    <2> QED BY <1>1, <1>4, <1>5, <1>6, <2>1, <2>u DEF HandlerLookup, NewerIsActive, NothingQueued, cache
<1> QED BY <1>3, <1>8, <1>9, <1>10, <1>11, <1>12, <1>13, <1>14 DEF LookupStep

LEMMA HttpStepAlone ==
    ASSUME TypeInv, FileInv, AloneInv, queued = <<>>,
           \/ \E kind \in Kinds, id \in Ids : HttpBrowser(kind, id)
           \/ HttpAnswered \/ ForgetReady \/ ForgetOk
           \/ \E success \in BOOLEAN : InstallEnds(success)
    PROVE  (NoQueueTask /\ HandlerLookup /\ SyncSelects /\ NewerIsActive)'
<1>1. /\ NoQueueTask /\ HandlerLookup /\ SyncSelects /\ NewerIsActive
      /\ lookup \in [Tasks -> Lookups] /\ http \in Requests
    BY LookupsTyped DEF AloneInv, TypeInv, TypeOK
<1>2. /\ UNCHANGED <<volume, source, nvs, queue, unread, answer>>
      /\ SyncedIsNewer' = SyncedIsNewer /\ saved' = saved
    <2>1. UNCHANGED <<volume, source, nvs, queue, unread, answer>>
        BY DEF HttpBrowser, HttpLookup, HttpAnswered, ForgetReady, ForgetOk, InstallEnds, cache,
               queueVars, history
    <2> QED BY <2>1 DEF volume, SyncedIsNewer
<1>3. CASE \E kind \in Kinds, id \in Ids : HttpBrowser(kind, id)
    <2>1. PICK kind \in Kinds, id \in Ids : HttpBrowser(kind, id)
        BY <1>3
    <2>2. /\ http = NoRequest /\ http'.phase = "lookup" /\ http'.kind # "queued" /\ UNCHANGED <<cache, task>>
          /\ lookup'["httpd"].at = "test" /\ lookup'["queue"] = lookup["queue"]
        BY <1>1, <2>1 DEF HttpBrowser, HttpLookup, LookUp, Tasks
    <2> QED BY <1>1, <1>2, <2>2
            DEF NoQueueTask, HandlerLookup, SyncSelects, NewerIsActive, NothingQueued, NoRequest, cache
<1>4. CASE HttpAnswered
    <2>1. /\ lookup["httpd"].at \in {"found", "missed"} /\ http.phase = "lookup" /\ UNCHANGED <<cache, task>>
          /\ lookup'["httpd"].at = "idle" /\ lookup'["queue"] = lookup["queue"]
        BY <1>1, <1>4 DEF HttpAnswered, Answered, Tasks, NoLookup, queueVars
    <2>2. http'.phase \in {"idle", "forget"} /\ http'.kind # "queued"
        BY <1>1, <1>4 DEF HttpAnswered, NoRequest, Requests, NoQueueTask
    <2> QED BY <1>1, <1>2, <2>1, <2>2
            DEF NoQueueTask, HandlerLookup, SyncSelects, NewerIsActive, NothingQueued, cache
<1>5. CASE ForgetReady
    <2>1. http.phase = "forget" /\ ~ ready' /\ UNCHANGED <<ok, lookup, task>>
        BY <1>5 DEF ForgetReady, queueVars
    <2>2. http'.phase = "forgotten" /\ http'.kind # "queued"
        BY <1>1, <1>5 DEF ForgetReady, Requests, NoRequest, NoQueueTask
    <2>3. lookup["httpd"].at = "idle"
        BY <1>1, <2>1 DEF HandlerLookup
    <2> QED BY <1>1, <1>2, <2>1, <2>2, <2>3
            DEF NoQueueTask, HandlerLookup, SyncSelects, NewerIsActive, NothingQueued
<1>6. CASE ForgetOk
    <2>1. http.phase = "forgotten" /\ UNCHANGED <<ready, lookup, task>>
        BY <1>6 DEF ForgetOk, queueVars
    <2>2. http'.phase \in {"idle", "install"} /\ http'.kind # "queued"
        BY <1>1, <1>6 DEF ForgetOk, AfterForget, Requests, NoRequest, NoQueueTask
    <2>3. lookup["httpd"].at = "idle" /\ ~ ready
        BY <1>1, <2>1 DEF HandlerLookup
    <2> QED BY <1>1, <1>2, <2>1, <2>2, <2>3
            DEF NoQueueTask, HandlerLookup, SyncSelects, NewerIsActive, NothingQueued
<1>7. CASE \E success \in BOOLEAN : InstallEnds(success)
    <2>1. http.phase = "install" /\ http' = NoRequest /\ UNCHANGED <<cache, lookup, task>>
        BY <1>1, <1>7 DEF InstallEnds, NoQueueTask
    <2>2. lookup["httpd"].at = "idle"
        BY <1>1, <2>1 DEF HandlerLookup
    <2> QED BY <1>1, <1>2, <2>1, <2>2
            DEF NoQueueTask, HandlerLookup, SyncSelects, NewerIsActive, NothingQueued, NoRequest, cache
<1> QED BY <1>3, <1>4, <1>5, <1>6, <1>7

LEMMA SyncStepAlone ==
    ASSUME TypeInv, FileInv, AloneInv, queued = <<>>, SyncActions
    PROVE  (NoQueueTask /\ HandlerLookup /\ SyncSelects /\ NewerIsActive)'
<1>1. /\ NoQueueTask /\ HandlerLookup /\ SyncSelects /\ NewerIsActive
      /\ http \in Requests
    BY DEF AloneInv, TypeInv, TypeOK
<1> USE DEF SyncActions
<1>a. SyncAlone
    BY SyncStepFrame DEF TypeInv
<1>2. http.phase \in {"idle", "check", "remove", "rename", "ready", "ok", "source", "serve"}
    BY DEF SyncDownload, SyncCheck, SyncRemove, SyncRename, SyncStoreReady, SyncStoreOk,
           SyncStoreSource, SyncServe, NoRequest
<1>3. UNCHANGED <<lookup, nvs, queue, task>> /\ lookup["httpd"].at = "idle"
    BY <1>1, <1>2, <1>a DEF SyncAlone, queueVars, HandlerLookup
<1>4. /\ http'.kind # "queued"
      /\ \/ http.phase = "idle" /\ http'.phase = "check"
         \/ http.phase \in {"check", "remove", "rename", "serve"} /\ http'.phase = "idle"
         \/ http.phase = "check" /\ http'.phase = "remove"
         \/ http.phase = "remove" /\ http'.phase = "rename" /\ SyncRemove
         \/ http.phase = "rename" /\ http'.phase = "ready" /\ SyncRename
         \/ http.phase = "ready" /\ http'.phase = "ok"
         \/ http.phase = "ok" /\ http'.phase = "source"
         \/ http.phase = "source" /\ http'.phase = "serve"
    BY <1>1 DEF SyncDownload, SyncCheck, SyncRemove, SyncRename, SyncStoreReady, SyncStoreOk,
                SyncStoreSource, SyncServe, HttpProceeds, GiveUp, NoRequest, Requests, NoQueueTask
<1>5. NoQueueTask'
    BY <1>1, <1>3, <1>4 DEF NoQueueTask
<1>b. answer' # "other"
    <2>1. CASE SyncServe
        <3>1. http.phase = "serve"
            BY <2>1 DEF SyncServe
        <3>2. Served = "fetched"
            BY <1>1, <3>1, CatalogueAssumption DEF SyncSelects, Served
        <3> QED BY <2>1, <3>2 DEF SyncServe
    <2>2. CASE ~ SyncServe
        BY <1>1, <2>2 DEF SyncSelects, SyncDownload, SyncCheck, SyncRemove, SyncRename,
                          SyncStoreReady, SyncStoreOk, SyncStoreSource, SyncStep
    <2> QED BY <2>1, <2>2
<1>6. CASE SyncDownload \/ SyncCheck \/ SyncServe
    <2>1. UNCHANGED <<cache, saved>> /\ http'.phase \in {"idle", "check", "remove"}
          /\ http.phase \in {"idle", "check", "serve"}
        BY <1>1, <1>4, <1>6
           DEF SyncDownload, SyncCheck, SyncServe, NoRequest, volume, HttpProceeds, GiveUp, Requests
    <2>u. unread' = unread
        BY <1>6 DEF SyncDownload, SyncCheck, SyncServe, SyncStep
    <2> QED BY <1>1, <1>3, <1>5, <2>1, <1>b, <2>u
            DEF HandlerLookup, SyncSelects, NewerIsActive, NothingQueued, SyncedIsNewer, cache
<1>7. CASE SyncRemove
    <2>1. /\ http.phase = "remove" /\ UNCHANGED cache
          /\ \/ http'.phase = "rename" /\ saved' = None
             \/ http'.phase = "idle" /\ saved' = saved
        BY <1>1, <1>7 DEF SyncRemove, HttpProceeds, GiveUp, NoRequest, Requests
    <2>2. None \notin Catalogues
        BY CatalogueAssumption
    <2>u. unread' = unread
        BY <1>7 DEF SyncRemove, SyncStep
    <2> QED BY <1>1, <1>3, <1>5, <2>1, <1>b, <2>u, <2>2
            DEF HandlerLookup, SyncSelects, NewerIsActive, NothingQueued, SyncedIsNewer, cache
<1>8. CASE SyncRename
    <2>1. /\ http.phase = "rename" /\ UNCHANGED cache
          /\ \/ http'.phase = "ready" /\ saved' = temp
             \/ http'.phase = "idle" /\ saved' = saved
        BY <1>1, <1>8 DEF SyncRename, HttpProceeds, GiveUp, NoRequest, Requests
    <2>2. None \notin Catalogues /\ temp \in Catalogues
        BY <2>1, CatalogueAssumption DEF FileInv
    <2>u. unread' = unread
        BY <1>8 DEF SyncRename, SyncStep
    <2> QED BY <1>1, <1>3, <1>5, <2>1, <1>b, <2>u, <2>2
            DEF HandlerLookup, SyncSelects, NewerIsActive, NothingQueued, SyncedIsNewer, cache
<1>9. CASE SyncStoreReady
    <2>1. http.phase = "ready" /\ ready' /\ http'.phase = "ok" /\ UNCHANGED <<volume, ok, source>>
        BY <1>1, <1>9 DEF SyncStoreReady, HttpProceeds, NoRequest, Requests
    <2>u. unread' = unread
        BY <1>9 DEF SyncStoreReady, SyncStep
    <2> QED BY <1>1, <1>3, <1>5, <2>1, <1>b, <2>u
            DEF HandlerLookup, SyncSelects, NewerIsActive, NothingQueued, SyncedIsNewer, volume
<1>10. CASE SyncStoreOk
    <2>1. http.phase = "ok" /\ ok' /\ http'.phase = "source" /\ UNCHANGED <<volume, ready, source>>
        BY <1>1, <1>10 DEF SyncStoreOk, HttpProceeds, NoRequest, Requests
    <2>u. unread' = unread
        BY <1>10 DEF SyncStoreOk, SyncStep
    <2> QED BY <1>1, <1>3, <1>5, <2>1, <1>b, <2>u
            DEF HandlerLookup, SyncSelects, NewerIsActive, NothingQueued, SyncedIsNewer, volume
<1>11. CASE SyncStoreSource
    <2>1. http.phase = "source" /\ source' = "file" /\ http'.phase = "serve" /\ UNCHANGED <<volume, ready, ok>>
        BY <1>1, <1>11 DEF SyncStoreSource, SelectSynced, HttpProceeds, NoRequest, Requests
    <2> QED BY <1>1, <1>3, <1>5, <2>1, <1>b
            DEF HandlerLookup, SyncSelects, NewerIsActive, NothingQueued, SyncedIsNewer, volume
<1> QED BY <1>6, <1>7, <1>8, <1>9, <1>10, <1>11

LEMMA AloneKept == TypeInv /\ FileInv /\ AloneInv /\ [Next]_vars => AloneInv'
<1> SUFFICES ASSUME TypeInv, FileInv, AloneInv, [Next]_vars, queued' = <<>>
             PROVE  (NoQueueTask /\ HandlerLookup /\ SyncSelects /\ NewerIsActive)'
    BY DEF AloneInv
<1>1. CASE UNCHANGED vars
    <2>1. UNCHANGED <<saved, ready, ok, source, http, lookup, queued, unread, answer, nvs, queue, task>>
        BY <1>1 DEF vars, volume, cache, history, queueVars
    <2> QED BY <2>1 DEF AloneInv, NoQueueTask, HandlerLookup, SyncSelects, NewerIsActive,
                        NothingQueued, SyncedIsNewer
<1>2. CASE PowerLoss
    <2>1. nvs = <<>>
        BY <1>2 DEF PowerLoss, AloneInv, NoQueueTask
    <2>2. lookup'["queue"] = NoLookup /\ lookup'["httpd"] = NoLookup
        BY <1>2 DEF PowerLoss, Tasks
    <2> QED BY <1>2, <2>1, <2>2
            DEF PowerLoss, NoQueueTask, HandlerLookup, SyncSelects, NewerIsActive, NoRequest, NoLookup
<1>3. CASE Next /\ ~ PowerLoss
    <2>1. queued = <<>>
        BY <1>3 DEF Next, LookupStep, TestReady, ReadOk, Select, StoreReady, StoreOk, StoreSource, Find,
                    OnlyLookup, history, HttpBrowser, HttpLookup, HttpAnswered, ForgetReady, ForgetOk, InstallEnds,
                    SyncDownload, SyncCheck, SyncRemove, SyncRename, SyncStoreReady, SyncStoreOk,
                    SyncStoreSource, SyncServe, SyncStep, SyncAlone, QueueStart, QueueLookUp, QueueAnswered,
                    QueueInstall, QueueCommit, OnlyQueue
    <2>2. CASE QueueStart
        <3>1. nvs = <<>> /\ NoQueueTask /\ HandlerLookup /\ SyncSelects /\ NewerIsActive
            BY <2>1 DEF AloneInv, NoQueueTask
        <3>2. queue' = <<>> /\ task' = "stopped" /\ UNCHANGED <<lookup, nvs, saved, cache, http, history>>
            BY <2>2, <3>1 DEF QueueStart, OnlyQueue, volume
        <3> QED BY <3>1, <3>2 DEF NoQueueTask, HandlerLookup, SyncSelects, NewerIsActive,
                                  NothingQueued, SyncedIsNewer, cache, history
    <2>3. ~ QueueLookUp /\ ~ QueueAnswered /\ ~ QueueInstall /\ ~ QueueCommit
        BY <2>1 DEF AloneInv, NoQueueTask, QueueLookUp, QueueAnswered, QueueInstall, QueueCommit
    <2> QED BY <1>3, <2>1, <2>2, <2>3, LookupStepAlone, HttpStepAlone, SyncStepAlone DEF Next, SyncActions
<1> QED BY <1>1, <1>2, <1>3

LEMMA AloneInvariance == Spec => [](TypeInv /\ FileInv /\ AloneInv)
BY TypeInitial, TypeKept, FileInitial, FileKept, AloneInitial, AloneKept, PTL DEF Spec

(* What the firmware's own catalogue lists is found by every handler,      *)
(* though the synced file may be missing, older or being replaced, when no *)
(* queue task shares the cache (web_server.c:1359-1361).                   *)
THEOREM HandlersFindWhatIsListed == Spec => []LookupsSucceedAlone
<1>1. TypeInv /\ AloneInv => LookupsSucceedAlone
    BY DEF AloneInv, NoQueueTask, HandlerLookup, LookupsSucceedAlone, LookupsSucceed, NothingQueued,
           Tasks, NoLookup
<1> QED BY AloneInvariance, <1>1, PTL

(* A synchronisation answers with the document it fetched unless the       *)
(* volume fails to give it back, and a newer synced file is passed over    *)
(* for the firmware's only while a selection is cached that was made when  *)
(* the file could not be opened or read (web_server.c:1283, 1314, 1486,    *)
(* 1541), when no queue task shares the cache.                             *)
THEOREM HandlersSelectRight == Spec => []SelectionIsRight
<1>1. FileInv /\ AloneInv => SelectionIsRight
    BY CatalogueAssumption
       DEF AloneInv, SyncSelects, SelectionIsRight, SyncAnswersFetched, NothingQueued, NewerIsActive
<1> QED BY AloneInvariance, <1>1, PTL

------------------------------------------------------------------------------
(* The streaming scanner.                                                  *)

(* The provers do not know that a literal is a string. *)
Literals == {"", "schema", "packs", "list"}
Texts == STRING \cup Literals

TokenKinds == {"{", "}", "[", "]", ":", ",", "string", "number"}
Token == [kind : TokenKinds, text : Texts, number : Int]

(* How a token moves the level.                                            *)
Rise(c) == IF c.kind \in {"{", "["} THEN 1 ELSE IF c.kind \in {"}", "]"} THEN -1 ELSE 0

(* The levels after each token, from zero back to zero, and how often the  *)
(* level at was reached by closing: n times, each by a brace.              *)
Walk(w, lev, ends, top, at, n) ==
    /\ lev \in [0 .. Len(w) -> 0 .. top] /\ lev[0] = 0 /\ lev[Len(w)] = 0
    /\ ends \in [0 .. Len(w) -> 0 .. n] /\ ends[0] = 0 /\ ends[Len(w)] = n
    /\ \A i \in 1 .. Len(w) :
          /\ lev[i] = lev[i - 1] + Rise(w[i])
          /\ IF Rise(w[i]) = -1 /\ lev[i] = at
             THEN w[i].kind = "}" /\ ends[i] = ends[i - 1] + 1
             ELSE ends[i] = ends[i - 1]

Nests(w, top, at, n) == w \in Seq(Token) /\ \E lev, ends : Walk(w, lev, ends, top, at, n)

LEMMA LeastNatural ==
    ASSUME NEW S, S \subseteq Nat, S # {}
    PROVE  \E x \in S : \A y \in S : x <= y
<1> DEFINE less == OpToRel(<, Nat)
<1>1. IsWellFoundedOn(less, Nat)
    BY NatLessThanWellFounded
<1>2. \A x, y \in Nat : x < y => <<x, y>> \in less
    BY DEF OpToRel
<1> HIDE DEF less
<1>3. PICK x \in S : \A y \in S : ~ (<<y, x>> \in less)
    BY <1>1, WFMin
<1>4. ASSUME NEW y \in S PROVE x <= y
    <2>1. x \in Nat /\ y \in Nat
        OBVIOUS
    <2>2. ~ (y < x)
        BY <1>2, <1>3, <2>1
    <2> QED BY <2>1, <2>2
<1> QED BY <1>4

(* Induction up to a bound, over a set of numbers.                         *)
LEMMA UpTo ==
    ASSUME NEW N \in Nat, NEW Good, 0 \in Good,
           \A n \in 1 .. N : n - 1 \in Good => n \in Good
    PROVE  \A n \in 0 .. N : n \in Good
<1> DEFINE Bad == {n \in 0 .. N : n \notin Good}
<1> SUFFICES ASSUME Bad # {} PROVE FALSE
    OBVIOUS
<1>1. Bad \subseteq Nat
    OBVIOUS
<1>2. PICK m \in Bad : \A n \in Bad : m <= n
    <2> HIDE DEF Bad
    <2> QED BY <1>1, LeastNatural
<1>3. m \in 1 .. N /\ m - 1 \in 0 .. N
    OBVIOUS
<1>4. m - 1 \in Good
    BY <1>2, <1>3
<1> QED BY <1>3, <1>4

(* The recursion of Joined. *)
JoinsTo(parts, f, N) ==
    f = [n \in 0 .. N |->
            IF n = 0 THEN <<>> ELSE IF n = 1 THEN parts[1] ELSE f[n - 1] \o <<Mark(",")>> \o parts[n]]

LEMMA JoinsExist ==
    ASSUME NEW parts, NEW N \in Nat
    PROVE  \E f : JoinsTo(parts, f, N)
<1> DEFINE Body(all, n) ==
               IF n = 0 THEN <<>> ELSE IF n = 1 THEN parts[1] ELSE all \o <<Mark(",")>> \o parts[n]
           Good == {n \in 0 .. N : \E f : JoinsTo(parts, f, n)}
<1>0. \A f, n : JoinsTo(parts, f, n) <=> f = [i \in 0 .. n |-> Body(f[i - 1], i)]
    BY Zenon DEF JoinsTo
<1>a. \A all, some : Body(all, 0) = Body(some, 0)
    OBVIOUS
<1> HIDE DEF Body
<1>1. 0 \in Good
    <2> DEFINE f == [n \in 0 .. 0 |-> Body(<<>>, 0)]
    <2>1. \A i \in 0 .. 0 : Body(f[i - 1], i) = Body(<<>>, 0)
        <3>1. \A i \in 0 .. 0 : i = 0
            OBVIOUS
        <3> HIDE DEF f
        <3> QED BY <1>a, <3>1, Zenon
    <2>2. f = [i \in 0 .. 0 |-> Body(f[i - 1], i)]
        BY <2>1, Zenon
    <2> HIDE DEF f
    <2>3. JoinsTo(parts, f, 0)
        BY <1>0, <2>2, Zenon
    <2> QED BY <2>3
<1>2. ASSUME NEW n \in 1 .. N, n - 1 \in Good PROVE n \in Good
    <2>1. PICK f : JoinsTo(parts, f, n - 1)
        BY <1>2
    <2>2. f = [i \in 0 .. n - 1 |-> Body(f[i - 1], i)]
        BY <1>0, <2>1, Zenon
    <2>3. \A i \in 0 .. n - 1 : f[i] = Body(f[i - 1], i)
        BY <2>2, Zenon
    <2> DEFINE g == [i \in 0 .. n |-> IF i = n THEN Body(f[n - 1], n) ELSE f[i]]
    <2>4. ASSUME NEW i \in 0 .. n PROVE g[i] = Body(g[i - 1], i)
        <3>1. CASE i = n
            <4>1. g[i] = Body(f[n - 1], n)
                BY <3>1
            <4>2. n - 1 \in 0 .. n /\ n - 1 # n
                OBVIOUS
            <4>3. g[n - 1] = f[n - 1]
                BY <4>2, Zenon
            <4> HIDE DEF g
            <4> QED BY <3>1, <4>1, <4>3, Zenon
        <3>2. CASE i = 0
            <4>1. 0 \in 0 .. n - 1 /\ 0 \in 0 .. n /\ 0 # n
                OBVIOUS
            <4>2. g[0] = f[0] /\ f[0] = Body(f[0 - 1], 0)
                BY <2>3, <4>1, Zenon
            <4> HIDE DEF g
            <4> QED BY <1>a, <3>2, <4>2, Zenon
        <3>3. CASE i # n /\ i # 0
            <4>1. i \in 0 .. n - 1 /\ i - 1 \in 0 .. n /\ i - 1 # n
                BY <3>3
            <4>2. g[i] = f[i] /\ g[i - 1] = f[i - 1]
                BY <3>3, <4>1, Zenon
            <4> HIDE DEF g
            <4> QED BY <2>3, <4>1, <4>2, Zenon
        <3> QED BY <3>1, <3>2, <3>3
    <2>5. g = [i \in 0 .. n |-> g[i]]
        BY Zenon
    <2> HIDE DEF g
    <2>6. g = [i \in 0 .. n |-> Body(g[i - 1], i)]
        BY <2>4, <2>5, Zenon
    <2> QED BY <1>0, <2>6
<1> HIDE DEF Good
<1>3. \A n \in 0 .. N : n \in Good
    BY <1>1, <1>2, UpTo
<1> QED BY <1>3 DEF Good

LEMMA JoinedSteps ==
    ASSUME NEW parts, Len(parts) \in Nat
    PROVE  \E f : /\ f[0] = <<>>
                  /\ Len(parts) > 0 => f[1] = parts[1]
                  /\ \A n \in 2 .. Len(parts) : f[n] = f[n - 1] \o <<Mark(",")>> \o parts[n]
                  /\ Joined(parts) = f[Len(parts)]
<1> DEFINE N == Len(parts)
           f == CHOOSE f : JoinsTo(parts, f, N)
<1>1. JoinsTo(parts, f, N)
    BY JoinsExist
<1>2. Joined(parts) = f[N]
    BY Zenon DEF Joined, JoinsTo
<1> HIDE DEF f
<1>3. \A n \in 0 .. N :
         f[n] = IF n = 0 THEN <<>> ELSE IF n = 1 THEN parts[1] ELSE f[n - 1] \o <<Mark(",")>> \o parts[n]
    BY <1>1, Zenon DEF JoinsTo
<1>4. f[0] = <<>>
    <2>1. 0 \in 0 .. N
        OBVIOUS
    <2> QED BY <1>3, <2>1, Zenon
<1>5. N > 0 => f[1] = parts[1]
    <2>1. N > 0 => 1 \in 0 .. N
        OBVIOUS
    <2>2. 1 # 0
        OBVIOUS
    <2> QED BY <1>3, <2>1, <2>2, Zenon
<1>6. ASSUME NEW n \in 2 .. N PROVE f[n] = f[n - 1] \o <<Mark(",")>> \o parts[n]
    <2>1. n \in 0 .. N /\ n # 0 /\ n # 1
        OBVIOUS
    <2> QED BY <1>3, <2>1, Zenon
<1> QED BY <1>2, <1>4, <1>5, <1>6
(* What nests one after the other nests together. *)
LEMMA NestsConcat ==
    ASSUME NEW a, NEW b, NEW top \in Nat, NEW at \in Int, NEW m \in Nat, NEW n \in Nat,
           Nests(a, top, at, m), Nests(b, top, at, n)
    PROVE  Nests(a \o b, top, at, m + n)
<1>1. a \in Seq(Token) /\ b \in Seq(Token)
    BY DEF Nests
<1>2. PICK la, ea : Walk(a, la, ea, top, at, m)
    BY DEF Nests
<1>3. PICK lb, eb : Walk(b, lb, eb, top, at, n)
    BY DEF Nests
<1> DEFINE w == a \o b
           A == Len(a)
           B == Len(b)
<1>4. A \in Nat /\ B \in Nat
    BY <1>1
<1>5. /\ w \in Seq(Token) /\ Len(w) = A + B
      /\ \A i \in 1 .. A + B : w[i] = IF i <= A THEN a[i] ELSE b[i - A]
    BY <1>1, ConcatProperties
<1> HIDE DEF w, A, B
<1> DEFINE lev == [i \in 0 .. A + B |-> IF i <= A THEN la[i] ELSE lb[i - A]]
           ends == [i \in 0 .. A + B |-> IF i <= A THEN ea[i] ELSE m + eb[i - A]]
<1>6. /\ la \in [0 .. A -> 0 .. top] /\ la[0] = 0 /\ la[A] = 0
      /\ ea \in [0 .. A -> 0 .. m] /\ ea[0] = 0 /\ ea[A] = m
    BY <1>2 DEF Walk, A
<1>7. /\ lb \in [0 .. B -> 0 .. top] /\ lb[0] = 0 /\ lb[B] = 0
      /\ eb \in [0 .. B -> 0 .. n] /\ eb[0] = 0 /\ eb[B] = n
    BY <1>3 DEF Walk, B
<1>8. lev \in [0 .. A + B -> 0 .. top]
    <2>1. ASSUME NEW i \in 0 .. A + B PROVE (IF i <= A THEN la[i] ELSE lb[i - A]) \in 0 .. top
        BY <1>4, <1>6, <1>7
    <2> QED BY <2>1
<1>9. ends \in [0 .. A + B -> 0 .. m + n]
    <2>1. ASSUME NEW i \in 0 .. A + B PROVE (IF i <= A THEN ea[i] ELSE m + eb[i - A]) \in 0 .. m + n
        <3>1. CASE i <= A
            <4>1. ea[i] \in 0 .. m
                BY <1>4, <1>6, <3>1
            <4> QED BY <3>1, <4>1
        <3>2. CASE ~ (i <= A)
            <4>1. eb[i - A] \in 0 .. n
                BY <1>4, <1>7, <3>2
            <4> QED BY <3>2, <4>1
        <3> QED BY <3>1, <3>2
    <2> QED BY <2>1
<1>10. /\ lev[0] = 0 /\ lev[A + B] = 0 /\ ends[0] = 0 /\ ends[A + B] = m + n
       /\ \A i \in 0 .. B : lev[A + i] = lb[i] /\ ends[A + i] = m + eb[i]
       /\ \A i \in 0 .. A : lev[i] = la[i] /\ ends[i] = ea[i]
    <2>1. \A i \in 0 .. A : lev[i] = la[i] /\ ends[i] = ea[i]
        BY <1>4
    <2>2. ASSUME NEW i \in 0 .. B PROVE lev[A + i] = lb[i] /\ ends[A + i] = m + eb[i]
        <3>1. CASE i = 0
            BY <1>4, <1>6, <1>7, <3>1
        <3>2. CASE i # 0
            <4>1. A + i \in 0 .. A + B /\ ~ (A + i <= A) /\ (A + i) - A = i
                BY <1>4, <3>2
            <4> QED BY <4>1
        <3> QED BY <3>1, <3>2
    <2> HIDE DEF lev, ends
    <2>3. 0 \in 0 .. A /\ B \in 0 .. B
        BY <1>4
    <2> QED BY <1>6, <1>7, <2>1, <2>2, <2>3
<1> HIDE DEF lev, ends
<1>11. ASSUME NEW i \in 1 .. A + B
       PROVE  /\ lev[i] = lev[i - 1] + Rise(w[i])
              /\ IF Rise(w[i]) = -1 /\ lev[i] = at
                 THEN w[i].kind = "}" /\ ends[i] = ends[i - 1] + 1
                 ELSE ends[i] = ends[i - 1]
    <2>1. CASE i <= A
        <3>1. i \in 1 .. A /\ i - 1 \in 0 .. A /\ i \in 0 .. A /\ w[i] = a[i]
            BY <1>4, <1>5, <2>1
        <3>2. lev[i] = la[i] /\ ends[i] = ea[i] /\ lev[i - 1] = la[i - 1] /\ ends[i - 1] = ea[i - 1]
            BY <1>10, <3>1
        <3>3. /\ la[i] = la[i - 1] + Rise(a[i])
              /\ IF Rise(a[i]) = -1 /\ la[i] = at
                 THEN a[i].kind = "}" /\ ea[i] = ea[i - 1] + 1
                 ELSE ea[i] = ea[i - 1]
            BY <1>2, <3>1 DEF Walk, A
        <3> QED BY <3>1, <3>2, <3>3
    <2>2. CASE ~ (i <= A)
        <3> DEFINE j == i - A
        <3>1. /\ j \in 1 .. B /\ j - 1 \in 0 .. B /\ j \in 0 .. B /\ w[i] = b[j]
              /\ i = A + j /\ i - 1 = A + (j - 1)
            BY <1>4, <1>5, <2>2
        <3> HIDE DEF j
        <3>2. lev[i] = lb[j] /\ ends[i] = m + eb[j] /\ lev[i - 1] = lb[j - 1] /\ ends[i - 1] = m + eb[j - 1]
            BY <1>10, <3>1
        <3>3. /\ lb[j] = lb[j - 1] + Rise(b[j])
              /\ IF Rise(b[j]) = -1 /\ lb[j] = at
                 THEN b[j].kind = "}" /\ eb[j] = eb[j - 1] + 1
                 ELSE eb[j] = eb[j - 1]
            BY <1>3, <3>1 DEF Walk, B
        <3>4. eb[j] \in 0 .. n /\ eb[j - 1] \in 0 .. n
            BY <1>7, <3>1
        <3>5. CASE Rise(b[j]) = -1 /\ lb[j] = at
            <4>1. w[i].kind = "}" /\ Rise(w[i]) = -1 /\ lev[i] = at
                BY <3>1, <3>2, <3>3, <3>5
            <4>2. eb[j] = eb[j - 1] + 1
                BY <3>3, <3>5, Zenon
            <4>3. ends[i] = ends[i - 1] + 1
                <5>1. eb[j - 1] \in Nat
                    BY <3>4
                <5> QED BY <3>2, <4>2, <5>1
            <4>4. lev[i] = lev[i - 1] + Rise(w[i])
                BY <3>1, <3>2, <3>3
            <4> QED BY <4>1, <4>3, <4>4
        <3>6. CASE ~ (Rise(b[j]) = -1 /\ lb[j] = at)
            BY <3>1, <3>2, <3>3, <3>4, <3>6
        <3> QED BY <3>5, <3>6
    <2> QED BY <2>1, <2>2
<1>12. Walk(w, lev, ends, top, at, m + n)
    BY <1>5, <1>8, <1>9, <1>10, <1>11 DEF Walk
<1>13. Nests(w, top, at, m + n)
    BY <1>5, <1>12 DEF Nests
<1> QED BY <1>13 DEF w

LEMMA NestsNothing ==
    ASSUME NEW top \in Nat, NEW at \in Int
    PROVE  Nests(<<>>, top, at, 0)
<1> DEFINE z == [i \in 0 .. 0 |-> 0]
<1>1. z \in [0 .. 0 -> 0 .. top] /\ z \in [0 .. 0 -> 0 .. 0] /\ z[0] = 0 /\ Len(<<>>) = 0
    OBVIOUS
<1> HIDE DEF z
<1>2. Walk(<<>>, z, z, top, at, 0)
    <2>1. \A i \in 1 .. 0 : FALSE
        OBVIOUS
    <2> QED BY <1>1, <2>1 DEF Walk
<1> QED BY <1>2 DEF Nests

(* A token that is no bracket. *)
LEMMA NestsToken ==
    ASSUME NEW c \in Token, Rise(c) = 0, NEW top \in Nat, NEW at \in Int
    PROVE  Nests(<<c>>, top, at, 0)
<1> DEFINE z == [i \in 0 .. 1 |-> 0]
           w == <<c>>
<1>1. /\ z \in [0 .. 1 -> 0 .. top] /\ z \in [0 .. 1 -> 0 .. 0] /\ z[0] = 0 /\ z[1] = 0
      /\ w \in Seq(Token) /\ Len(w) = 1 /\ w[1] = c
    OBVIOUS
<1> HIDE DEF z, w
<1>2. ASSUME NEW i \in 1 .. 1
      PROVE  z[i] = z[i - 1] + Rise(w[i]) /\ Rise(w[i]) # -1 /\ z[i] = z[i - 1]
    <2>1. i = 1 /\ i - 1 = 0
        OBVIOUS
    <2> QED BY <1>1, <2>1
<1>3. Walk(w, z, z, top, at, 0)
    BY <1>1, <1>2 DEF Walk
<1>4. Nests(w, top, at, 0)
    BY <1>1, <1>3 DEF Nests
<1> QED BY <1>4 DEF w
(* Nowhere but at its ends is a text on level zero.                        *)
Inside(w, lev) == \A i \in 1 .. Len(w) - 1 : lev[i] >= 1

(* A list may not close at the level whose closings are entries. *)
Brackets(o, c, at) == (o = "{" /\ c = "}") \/ (o = "[" /\ c = "]" /\ at # -1)
Closings(at, n) == IF at = -1 THEN n + 1 ELSE n

Wrapped(o, a, c) == <<Mark(o)>> \o a \o <<Mark(c)>>

LEMMA MarkIsToken ==
    ASSUME NEW k \in TokenKinds
    PROVE  Mark(k) \in Token
BY DEF Mark, Token, Texts, Literals

LEMMA OneToken ==
    ASSUME NEW t \in Token
    PROVE  <<t>> \in Seq(Token) /\ Len(<<t>>) = 1 /\ <<t>>[1] = t
OBVIOUS

LEMMA WrappedTokens ==
    ASSUME NEW a \in Seq(Token), NEW o \in TokenKinds, NEW c \in TokenKinds
    PROVE  /\ Wrapped(o, a, c) \in Seq(Token)
           /\ Len(Wrapped(o, a, c)) = Len(a) + 2
           /\ Wrapped(o, a, c)[1] = Mark(o)
           /\ Wrapped(o, a, c)[Len(a) + 2] = Mark(c)
           /\ \A i \in 1 .. Len(a) : Wrapped(o, a, c)[i + 1] = a[i]
<1> DEFINE A == Len(a)
           h == <<Mark(o)>>
           e == <<Mark(c)>>
<1>0. Mark(o) \in Token /\ Mark(c) \in Token
    BY MarkIsToken
<1>1. /\ A \in Nat /\ h \in Seq(Token) /\ Len(h) = 1 /\ h[1] = Mark(o)
      /\ e \in Seq(Token) /\ Len(e) = 1 /\ e[1] = Mark(c)
    BY <1>0, OneToken, LenProperties
<1>2. Wrapped(o, a, c) = (h \o a) \o e
    BY DEF Wrapped
<1> HIDE DEF A, h, e
<1>3. /\ h \o a \in Seq(Token) /\ Len(h \o a) = 1 + A
      /\ \A i \in 1 .. 1 + A : (h \o a)[i] = IF i <= 1 THEN h[i] ELSE a[i - 1]
    <2>1. /\ h \o a \in Seq(Token) /\ Len(h \o a) = Len(h) + Len(a)
          /\ \A i \in 1 .. Len(h) + Len(a) : (h \o a)[i] = IF i <= Len(h) THEN h[i] ELSE a[i - Len(h)]
        BY <1>1, ConcatProperties
    <2>2. Len(h) = 1 /\ Len(a) = A
        BY <1>1 DEF A
    <2> QED BY <2>1, <2>2
<1> DEFINE b == h \o a
<1> HIDE DEF b
<1>4. /\ b \o e \in Seq(Token) /\ Len(b \o e) = 1 + A + 1
      /\ \A i \in 1 .. 1 + A + 1 : (b \o e)[i] = IF i <= 1 + A THEN b[i] ELSE e[i - (1 + A)]
    <2>1. b \in Seq(Token) /\ Len(b) = 1 + A
        BY <1>3 DEF b
    <2>2. /\ b \o e \in Seq(Token) /\ Len(b \o e) = Len(b) + Len(e)
          /\ \A i \in 1 .. Len(b) + Len(e) : (b \o e)[i] = IF i <= Len(b) THEN b[i] ELSE e[i - Len(b)]
        BY <1>1, <2>1, ConcatProperties
    <2>3. Len(e) = 1
        BY <1>1
    <2> QED BY <2>1, <2>2, <2>3
<1> DEFINE w == b \o e
<1> HIDE DEF w
<1>5. w \in Seq(Token) /\ Len(w) = A + 2
    BY <1>1, <1>4 DEF w
<1>6. w[1] = Mark(o)
    <2>1. 1 \in 1 .. 1 + A /\ 1 \in 1 .. 1 + A + 1 /\ 1 <= 1 + A
        BY <1>1
    <2>2. w[1] = b[1]
        BY <1>4, <2>1 DEF w
    <2>3. b[1] = h[1]
        BY <1>3, <2>1 DEF b
    <2> QED BY <1>1, <2>2, <2>3
<1>7. w[A + 2] = Mark(c)
    <2>1. A + 2 \in 1 .. 1 + A + 1 /\ ~ (A + 2 <= 1 + A) /\ (A + 2) - (1 + A) = 1
        BY <1>1
    <2>2. w[A + 2] = e[1]
        BY <1>4, <2>1 DEF w
    <2> QED BY <1>1, <2>2
<1>8. ASSUME NEW i \in 1 .. A PROVE w[i + 1] = a[i]
    <2>1. i + 1 \in 1 .. 1 + A /\ i + 1 \in 1 .. 1 + A + 1 /\ i + 1 <= 1 + A /\ ~ (i + 1 <= 1) /\ (i + 1) - 1 = i
        BY <1>1
    <2>2. w[i + 1] = b[i + 1]
        BY <1>4, <2>1 DEF w
    <2>3. b[i + 1] = a[i]
        BY <1>3, <2>1 DEF b
    <2> QED BY <2>2, <2>3
<1> QED BY <1>2, <1>5, <1>6, <1>7, <1>8 DEF w, b, A

(* What is wrapped in brackets nests one level deeper, and nowhere inside  *)
(* the brackets is the level zero.                                         *)
LEMMA WrapWalks ==
    ASSUME NEW a, NEW top \in Nat, NEW at \in Int, NEW n \in Nat, Nests(a, top, at, n),
           NEW o \in TokenKinds, NEW c \in TokenKinds, Brackets(o, c, at),
           NEW m \in Nat, m = Closings(at, n)
    PROVE  /\ Wrapped(o, a, c) \in Seq(Token)
           /\ \E lev, ends : Walk(Wrapped(o, a, c), lev, ends, top + 1, at + 1, m) /\ Inside(Wrapped(o, a, c), lev)
<1> DEFINE w == Wrapped(o, a, c)
           A == Len(a)
<1>1. PICK la, ea : Walk(a, la, ea, top, at, n)
    BY DEF Nests
<1>2. a \in Seq(Token) /\ A \in Nat
    BY DEF Nests
<1>3. /\ w \in Seq(Token) /\ Len(w) = A + 2 /\ w[1] = Mark(o) /\ w[A + 2] = Mark(c)
      /\ \A i \in 1 .. A : w[i + 1] = a[i]
    BY <1>2, WrappedTokens
<1>4. /\ la \in [0 .. A -> 0 .. top] /\ la[0] = 0 /\ la[A] = 0
      /\ ea \in [0 .. A -> 0 .. n] /\ ea[0] = 0 /\ ea[A] = n
      /\ \A i \in 1 .. A :
          /\ la[i] = la[i - 1] + Rise(a[i])
          /\ IF Rise(a[i]) = -1 /\ la[i] = at
             THEN a[i].kind = "}" /\ ea[i] = ea[i - 1] + 1
             ELSE ea[i] = ea[i - 1]
    BY <1>1 DEF Walk
<1>5. /\ Rise(Mark(o)) = 1 /\ Rise(Mark(c)) = -1
      /\ at = -1 => Mark(c).kind = "}"
    BY DEF Rise, Mark, Brackets
<1>0. /\ at = -1 => m = n + 1
      /\ at # -1 => m = n
    BY DEF Closings
<1> HIDE DEF w, A
<1> DEFINE lev == [i \in 0 .. A + 2 |-> IF i = 0 \/ i = A + 2 THEN 0 ELSE la[i - 1] + 1]
           ends == [i \in 0 .. A + 2 |-> IF i = 0 THEN 0 ELSE IF i = A + 2 THEN m ELSE ea[i - 1]]
<1>6. /\ lev[0] = 0 /\ lev[A + 2] = 0 /\ ends[0] = 0 /\ ends[A + 2] = m
      /\ \A i \in 0 .. A : lev[i + 1] = la[i] + 1 /\ ends[i + 1] = ea[i]
    <2>1. lev[0] = 0 /\ lev[A + 2] = 0 /\ ends[0] = 0 /\ ends[A + 2] = m
        BY <1>2
    <2>2. ASSUME NEW i \in 0 .. A PROVE lev[i + 1] = la[i] + 1 /\ ends[i + 1] = ea[i]
        <3>1. i + 1 \in 0 .. A + 2 /\ i + 1 # 0 /\ i + 1 # A + 2 /\ (i + 1) - 1 = i
            BY <1>2
        <3> QED BY <3>1
    <2> HIDE DEF lev, ends
    <2> QED BY <2>1, <2>2
<1>7. lev \in [0 .. A + 2 -> 0 .. top + 1]
    <2>1. ASSUME NEW i \in 0 .. A + 2 PROVE (IF i = 0 \/ i = A + 2 THEN 0 ELSE la[i - 1] + 1) \in 0 .. top + 1
        <3>1. CASE i = 0 \/ i = A + 2
            BY <3>1
        <3>2. CASE ~ (i = 0 \/ i = A + 2)
            <4>1. i - 1 \in 0 .. A
                BY <1>2, <3>2
            <4>2. la[i - 1] \in 0 .. top
                BY <1>4, <4>1
            <4> QED BY <3>2, <4>2
        <3> QED BY <3>1, <3>2
    <2> QED BY <2>1
<1>8. ends \in [0 .. A + 2 -> 0 .. m]
    <2>1. ASSUME NEW i \in 0 .. A + 2
          PROVE (IF i = 0 THEN 0 ELSE IF i = A + 2 THEN m ELSE ea[i - 1]) \in 0 .. m
        <3>1. CASE i = 0 \/ i = A + 2
            BY <3>1
        <3>2. CASE ~ (i = 0 \/ i = A + 2)
            <4>1. i - 1 \in 0 .. A
                BY <1>2, <3>2
            <4>a. n <= m
                <5>1. CASE at = -1
                    BY <1>0, <5>1
                <5>2. CASE at # -1
                    BY <1>0, <5>2
                <5> QED BY <5>1, <5>2
            <4>2. ea[i - 1] \in 0 .. n /\ n <= m
                BY <1>4, <4>1, <4>a
            <4>3. ea[i - 1] \in 0 .. m
                BY <4>2
            <4> QED BY <3>2, <4>3
        <3> QED BY <3>1, <3>2
    <2> QED BY <2>1
<1> HIDE DEF lev, ends
<1>9. ASSUME NEW i \in 1 .. A + 2
      PROVE  /\ lev[i] = lev[i - 1] + Rise(w[i])
             /\ IF Rise(w[i]) = -1 /\ lev[i] = at + 1
                THEN w[i].kind = "}" /\ ends[i] = ends[i - 1] + 1
                ELSE ends[i] = ends[i - 1]
    <2>1. CASE i = 1
        <3>1. 0 \in 0 .. A /\ i - 1 = 0 /\ 0 + 1 = 1
            BY <1>2, <2>1
        <3>2. lev[1] = 1 /\ ends[1] = 0
            BY <1>4, <1>6, <3>1
        <3>3. Rise(w[i]) = 1
            BY <1>3, <1>5, <2>1
        <3> QED BY <1>6, <2>1, <3>1, <3>2, <3>3
    <2>2. CASE i = A + 2
        <3>1. A \in 0 .. A /\ i - 1 = A + 1
            BY <1>2, <2>2
        <3>a. lev[A + 1] = la[A] + 1 /\ ends[A + 1] = ea[A] /\ la[A] = 0 /\ ea[A] = n
            BY <1>4, <1>6, <3>1
        <3>2. lev[i - 1] = 1 /\ ends[i - 1] = n
            BY <3>1, <3>a
        <3>3. Rise(w[i]) = -1 /\ lev[i] = 0 /\ ends[i] = m /\ w[i] = Mark(c)
            BY <1>3, <1>5, <1>6, <2>2
        <3>4. CASE at = -1
            <4>1. w[i].kind = "}" /\ m = n + 1
                BY <1>0, <1>5, <3>3, <3>4
            <4>2. ends[i] = ends[i - 1] + 1
                BY <3>2, <3>3, <4>1
            <4>3. lev[i] = lev[i - 1] + Rise(w[i])
                BY <3>2, <3>3
            <4>4. lev[i] = at + 1
                BY <3>3, <3>4
            <4> QED BY <3>3, <4>1, <4>2, <4>3, <4>4
        <3>5. CASE at # -1
            <4>1. m = n /\ lev[i] # at + 1
                BY <1>0, <3>3, <3>5
            <4> QED BY <3>2, <3>3, <4>1
        <3> QED BY <3>4, <3>5
    <2>3. CASE i # 1 /\ i # A + 2
        <3> DEFINE j == i - 1
        <3>1. j \in 1 .. A /\ j \in 0 .. A /\ j - 1 \in 0 .. A /\ i = j + 1 /\ i - 1 = (j - 1) + 1
            BY <1>2, <2>3
        <3> HIDE DEF j
        <3>2. w[i] = a[j]
            BY <1>3, <3>1
        <3>3. lev[i] = la[j] + 1 /\ ends[i] = ea[j] /\ lev[i - 1] = la[j - 1] + 1 /\ ends[i - 1] = ea[j - 1]
            BY <1>6, <3>1
        <3>4. la[j] \in Int /\ la[j - 1] \in Int
            <4>1. la[j] \in 0 .. top /\ la[j - 1] \in 0 .. top
                BY <1>4, <3>1
            <4> QED BY <4>1
        <3>5. lev[i] = lev[i - 1] + Rise(w[i])
            <4>1. la[j] = la[j - 1] + Rise(a[j])
                BY <1>4, <3>1
            <4>2. Rise(a[j]) \in Int
                BY DEF Rise
            <4> QED BY <3>2, <3>3, <3>4, <4>1, <4>2
        <3>6. lev[i] = at + 1 <=> la[j] = at
            BY <3>3, <3>4
        <3>7. IF Rise(a[j]) = -1 /\ la[j] = at
              THEN a[j].kind = "}" /\ ea[j] = ea[j - 1] + 1
              ELSE ea[j] = ea[j - 1]
            BY <1>4, <3>1
        <3> QED BY <3>2, <3>3, <3>5, <3>6, <3>7, Zenon
    <2> QED BY <2>1, <2>2, <2>3
<1>10. Inside(w, lev)
    <2>1. ASSUME NEW i \in 1 .. A + 1 PROVE lev[i] >= 1
        <3>1. i - 1 \in 0 .. A /\ i = (i - 1) + 1
            BY <1>2
        <3>2. lev[i] = la[i - 1] + 1
            BY <1>6, <3>1
        <3>3. la[i - 1] \in 0 .. top
            BY <1>4, <3>1
        <3> QED BY <3>2, <3>3
    <2>2. Len(w) - 1 = A + 1
        BY <1>2, <1>3
    <2> QED BY <2>1, <2>2 DEF Inside
<1>11. Walk(w, lev, ends, top + 1, at + 1, m)
    BY <1>3, <1>6, <1>7, <1>8, <1>9 DEF Walk
<1> QED BY <1>3, <1>10, <1>11 DEF w

LEMMA NestsWrapped ==
    ASSUME NEW a, NEW top \in Nat, NEW at \in Int, NEW n \in Nat, Nests(a, top, at, n),
           NEW o \in TokenKinds, NEW c \in TokenKinds, Brackets(o, c, at),
           NEW m \in Nat, m = Closings(at, n)
    PROVE  Nests(Wrapped(o, a, c), top + 1, at + 1, m)
BY WrapWalks DEF Nests
LEMMA NestsComma ==
    ASSUME NEW top \in Nat, NEW at \in Int
    PROVE  Nests(<<Mark(",")>>, top, at, 0)
<1>1. Mark(",") \in Token
    BY MarkIsToken DEF TokenKinds
<1>2. Rise(Mark(",")) = 0
    BY DEF Rise, Mark
<1> QED BY <1>1, <1>2, NestsToken

(* The parts of a list each nest, and close as many entries. *)
LEMMA NestsJoined ==
    ASSUME NEW parts, Len(parts) \in Nat, NEW top \in Nat, NEW at \in Int, NEW each \in {0, 1},
           \A i \in 1 .. Len(parts) : Nests(parts[i], top, at, each)
    PROVE  Nests(Joined(parts), top, at, IF each = 0 THEN 0 ELSE Len(parts))
<1> DEFINE N == Len(parts)
           Total(n) == IF each = 0 THEN 0 ELSE n
           Parts(n) == parts[n]
<1>1. PICK f : /\ f[0] = <<>>
               /\ N > 0 => f[1] = parts[1]
               /\ \A n \in 2 .. N : f[n] = f[n - 1] \o <<Mark(",")>> \o parts[n]
               /\ Joined(parts) = f[N]
    BY JoinedSteps
<1> HIDE DEF N
<1> DEFINE Good == {n \in 0 .. N : Nests(f[n], top, at, Total(n))}
<1>2. N \in Nat
    BY DEF N
<1>3. 0 \in Good
    <2>1. Nests(f[0], top, at, 0)
        BY <1>1, NestsNothing
    <2>2. Total(0) = 0
        OBVIOUS
    <2> QED BY <1>2, <2>1, <2>2
<1>4. ASSUME NEW n \in 1 .. N, n - 1 \in Good PROVE n \in Good
    <2>1. Nests(parts[n], top, at, each)
        BY DEF N
    <2>2. Total(n) = Total(n - 1) + each /\ Total(n - 1) \in Nat /\ n \in 0 .. N /\ each \in Nat
        BY <1>2
    <2>3. CASE n = 1
        <3>1. f[n] = parts[n]
            <4>1. N > 0
                BY <1>2
            <4> QED BY <1>1, <2>3, <4>1, Zenon
        <3>2. Total(n) = each
            BY <2>3
        <3> QED BY <2>1, <2>2, <3>1, <3>2
    <2>4. CASE n # 1
        <3>1. f[n] = f[n - 1] \o <<Mark(",")>> \o parts[n]
            <4>1. n \in 2 .. N
                BY <1>2, <2>4
            <4> QED BY <1>1, <4>1, Zenon
        <3>2. Nests(f[n - 1], top, at, Total(n - 1))
            BY <1>4
        <3> HIDE DEF Total
        <3>3. Nests(f[n - 1] \o <<Mark(",")>>, top, at, Total(n - 1) + 0)
            BY <2>2, <3>2, NestsComma, NestsConcat
        <3>4. Total(n - 1) + 0 \in Nat /\ (Total(n - 1) + 0) + each = Total(n)
            BY <2>2
        <3>5. Nests((f[n - 1] \o <<Mark(",")>>) \o parts[n], top, at, (Total(n - 1) + 0) + each)
            BY <2>1, <2>2, <3>3, <3>4, NestsConcat
        <3>6. Nests(f[n], top, at, Total(n))
            BY <3>1, <3>4, <3>5
        <3> QED BY <2>2, <3>6
    <2> QED BY <2>3, <2>4
<1>5. N \in Good
    <2> HIDE DEF Good
    <2>1. \A n \in 0 .. N : n \in Good
        BY <1>2, <1>3, <1>4, UpTo
    <2> QED BY <1>2, <2>1
<1>6. Nests(f[N], top, at, Total(N))
    BY <1>5
<1> QED BY <1>1, <1>6 DEF N
------------------------------------------------------------------------------
(* The tokens of a document. *)

LEMMA NestsTagged ==
    ASSUME NEW k \in Texts, NEW value, NEW top \in Nat, NEW at \in Int, NEW n \in Nat,
           Nests(value, top, at, n)
    PROVE  Nests(Tagged(k, value), top, at, n)
<1>1. Str(k) \in Token /\ Rise(Str(k)) = 0
    BY DEF Str, Token, TokenKinds, Rise
<1>2. Mark(":") \in Token /\ Rise(Mark(":")) = 0
    BY MarkIsToken DEF TokenKinds, Mark, Rise
<1>3. /\ <<Str(k), Mark(":")>> = <<Str(k)>> \o <<Mark(":")>>
      /\ Nests(<<Str(k)>> \o <<Mark(":")>>, top, at, 0 + 0)
    <2>1. Nests(<<Str(k)>>, top, at, 0) /\ Nests(<<Mark(":")>>, top, at, 0)
        BY <1>1, <1>2, NestsToken
    <2> QED BY <2>1, NestsConcat
<1>4. 0 + 0 = 0 /\ 0 + n = n
    OBVIOUS
<1>5. Nests(<<Str(k), Mark(":")>>, top, at, 0)
    BY <1>3, <1>4
<1>6. Nests(<<Str(k), Mark(":")>> \o value, top, at, 0 + n)
    BY <1>5, NestsConcat
<1> QED BY <1>4, <1>6 DEF Tagged

LEMMA NestsPlain ==
    ASSUME NEW f \in PlainFields \cup NestedFields, f.kind # "nested", NEW top \in Nat, NEW at \in Int
    PROVE  Nests(Plain(f), top, at, 0)
<1>0. f.key \in Texts /\ f.text \in Texts /\ f.number \in Int
    <2>1. CASE f \in PlainFields
        BY <2>1 DEF PlainFields, Texts
    <2>2. CASE f \in NestedFields
        BY <2>2 DEF NestedFields, Texts, Literals
    <2> QED BY <2>1, <2>2
<1>1. CASE f.kind = "number"
    <2>1. Num(f.number) \in Token /\ Rise(Num(f.number)) = 0
        BY <1>0 DEF Num, Token, TokenKinds, Texts, Literals, Rise
    <2>2. Nests(<<Num(f.number)>>, top, at, 0)
        BY <2>1, NestsToken
    <2>3. Nests(Tagged(f.key, <<Num(f.number)>>), top, at, 0)
        BY <1>0, <2>2, NestsTagged
    <2> QED BY <1>1, <2>3 DEF Plain
<1>2. CASE f.kind # "number"
    <2>1. Str(f.text) \in Token /\ Rise(Str(f.text)) = 0
        BY <1>0 DEF Str, Token, TokenKinds, Rise
    <2>2. Nests(<<Str(f.text)>>, top, at, 0)
        BY <2>1, NestsToken
    <2>3. Nests(Tagged(f.key, <<Str(f.text)>>), top, at, 0)
        BY <1>0, <2>2, NestsTagged
    <2> QED BY <1>2, <2>3 DEF Plain
<1> QED BY <1>1, <1>2

(* The closing of an object at the level zero is counted, that of a list   *)
(* may not be there.                                                       *)
LEMMA NestsObject ==
    ASSUME NEW parts, NEW top \in Nat, NEW at \in Int, NEW n \in Nat, Nests(Joined(parts), top, at, n)
    PROVE  Nests(Object(parts), top + 1, at + 1, IF at = -1 THEN n + 1 ELSE n)
<1>1. Brackets("{", "}", at) /\ "{" \in TokenKinds /\ "}" \in TokenKinds
    BY DEF Brackets, TokenKinds
<1>2. Closings(at, n) \in Nat
    BY DEF Closings
<1>3. Nests(Wrapped("{", Joined(parts), "}"), top + 1, at + 1, Closings(at, n))
    BY <1>1, <1>2, NestsWrapped
<1> QED BY <1>3 DEF Wrapped, Closings, Object

LEMMA NestsArray ==
    ASSUME NEW parts, NEW top \in Nat, NEW at \in Int, NEW n \in Nat, Nests(Joined(parts), top, at, n), at # -1
    PROVE  Nests(Array(parts), top + 1, at + 1, n)
<1>1. Brackets("[", "]", at) /\ "[" \in TokenKinds /\ "]" \in TokenKinds
    BY DEF Brackets, TokenKinds
<1>2. Closings(at, n) = n
    BY DEF Closings
<1>3. Nests(Wrapped("[", Joined(parts), "]"), top + 1, at + 1, n)
    BY <1>1, <1>2, NestsWrapped
<1> QED BY <1>3 DEF Wrapped, Array

LEMMA NestsOne ==
    ASSUME NEW w, NEW top \in Nat, NEW at \in Int, NEW each \in {0, 1}, Nests(w, top, at, each)
    PROVE  Nests(Joined(<<w>>), top, at, each)
<1> DEFINE parts == <<w>>
<1>1. Len(parts) = 1 /\ parts[1] = w
    OBVIOUS
<1> HIDE DEF parts
<1>2. \A i \in 1 .. Len(parts) : Nests(parts[i], top, at, each)
    BY <1>1
<1>3. Nests(Joined(parts), top, at, IF each = 0 THEN 0 ELSE Len(parts))
    <2>1. Len(parts) \in Nat
        BY <1>1
    <2> QED BY <1>2, <2>1, NestsJoined, Zenon
<1>4. (IF each = 0 THEN 0 ELSE Len(parts)) = each
    BY <1>1
<1> QED BY <1>3, <1>4 DEF parts

(* A nested value opens three levels, and none of its brackets closes at   *)
(* the level it stands on but the object's own.                            *)
LEMMA NestsField ==
    ASSUME NEW f \in PlainFields \cup NestedFields
    PROVE  Nests(FieldTokens(f), 3, -1, 0)
<1>1. CASE f.kind # "nested"
    <2>1. Nests(Plain(f), 3, -1, 0)
        BY <1>1, NestsPlain
    <2> QED BY <1>1, <2>1 DEF FieldTokens
<1>2. CASE f.kind = "nested"
    <2>1. f.inner \in Seq(PlainFields) /\ f.key \in Texts
        BY <1>2 DEF PlainFields, NestedFields, Texts
    <2> DEFINE N == Len(f.inner)
               plain == [i \in DOMAIN f.inner |-> Plain(f.inner[i])]
    <2>2. N \in Nat /\ DOMAIN f.inner = 1 .. N
        BY <2>1, LenProperties
    <2>3. Len(plain) = N /\ \A i \in 1 .. N : plain[i] = Plain(f.inner[i])
        BY <2>2
    <2>4. ASSUME NEW i \in 1 .. N PROVE Nests(plain[i], 0, -4, 0)
        <3>1. f.inner[i] \in PlainFields
            BY <2>1, ElementOfSeq
        <3>2. f.inner[i] \in PlainFields \cup NestedFields /\ f.inner[i].kind # "nested"
            BY <3>1 DEF PlainFields
        <3>3. Nests(Plain(f.inner[i]), 0, -4, 0)
            <4> DEFINE g == f.inner[i]
            <4>1. g \in PlainFields \cup NestedFields /\ g.kind # "nested"
                BY <3>2
            <4> HIDE DEF g
            <4>2. -4 \in Int /\ 0 \in Nat
                OBVIOUS
            <4>3. Nests(Plain(g), 0, -4, 0)
                BY <4>1, <4>2, NestsPlain, Zenon
            <4> QED BY <4>3 DEF g
        <3> QED BY <2>3, <3>3
    <2> HIDE DEF plain, N
    <2>5. Nests(Joined(plain), 0, -4, 0)
        BY <2>2, <2>3, <2>4, NestsJoined
    <2> DEFINE object == Object(plain)
               array == Array(<<object>>)
               list == Tagged("list", array)
               outer == Object(<<list>>)
    <2>6. Nests(object, 1, -3, 0)
        <3>1. 0 + 1 = 1 /\ -4 + 1 = -3 /\ -4 # -1
            OBVIOUS
        <3> QED BY <2>5, <3>1, NestsObject
    <2> HIDE DEF object
    <2>7. Nests(array, 2, -2, 0)
        <3>1. 1 + 1 = 2 /\ -3 + 1 = -2 /\ -3 # -1
            OBVIOUS
        <3> QED BY <2>6, <3>1, NestsOne, NestsArray
    <2> HIDE DEF array
    <2>8. Nests(list, 2, -2, 0)
        <3>1. "list" \in Texts /\ 2 \in Nat /\ -2 \in Int /\ 0 \in Nat
            BY DEF Texts, Literals
        <3> QED BY <2>7, <3>1, NestsTagged, Zenon
    <2> HIDE DEF list
    <2>9. Nests(outer, 3, -1, 0)
        <3>1. 2 + 1 = 3 /\ -2 + 1 = -1 /\ -2 # -1
            OBVIOUS
        <3> QED BY <2>8, <3>1, NestsOne, NestsObject
    <2> HIDE DEF outer
    <2>10. Nests(Tagged(f.key, outer), 3, -1, 0)
        BY <2>1, <2>9, NestsTagged
    <2> QED BY <1>2, <2>10 DEF FieldTokens, outer, list, array, object, plain
<1> QED BY <1>1, <1>2

(* An entry closes once. *)
LEMMA NestsEntry ==
    ASSUME NEW e \in Entries
    PROVE  Nests(EntryTokens(e), 4, 0, 1)
<1> DEFINE N == Len(e)
           fields == [i \in DOMAIN e |-> FieldTokens(e[i])]
<1>1. e \in Seq(PlainFields \cup NestedFields)
    BY IndexAssumption
<1>2. N \in Nat /\ DOMAIN e = 1 .. N
    BY <1>1, LenProperties
<1>3. Len(fields) = N /\ \A i \in 1 .. N : fields[i] = FieldTokens(e[i])
    BY <1>2
<1>4. ASSUME NEW i \in 1 .. N PROVE Nests(fields[i], 3, -1, 0)
    <2>1. e[i] \in PlainFields \cup NestedFields
        BY <1>1, ElementOfSeq
    <2> QED BY <1>3, <2>1, NestsField
<1> HIDE DEF fields, N
<1>5. Nests(Joined(fields), 3, -1, 0)
    BY <1>2, <1>3, <1>4, NestsJoined
<1>6. Nests(Object(fields), 4, 0, 1)
    <2>1. 3 + 1 = 4 /\ -1 + 1 = 0 /\ 0 + 1 = 1
        OBVIOUS
    <2> QED BY <1>5, <2>1, NestsObject
<1> QED BY <1>6 DEF EntryTokens, fields
LEMMA IndexNumbers == MaxEntries \in Nat /\ MaxNumber \in Nat /\ IntSpan \in 2 .. MaxNumber
BY IndexAssumption, Zenon

(* A document returns to the level it began on only at its end, closes an  *)
(* entry and nothing else on the second level, and never nests deeper than *)
(* six.                                                                    *)
LEMMA DocumentWalks ==
    ASSUME NEW d \in Documents
    PROVE  /\ Tokens(d) \in Seq(Token)
           /\ \E lev, ends : Walk(Tokens(d), lev, ends, 6, 2, Len(d.packs)) /\ Inside(Tokens(d), lev)
           /\ Len(d.packs) \in 0 .. MaxEntries
<1> DEFINE N == Len(d.packs)
           entries == [i \in DOMAIN d.packs |-> EntryTokens(d.packs[i])]
           header == Tagged("schema", <<Num(d.schema)>>)
           packs == Tagged("packs", Array(entries))
<1>1. d.schema \in Nat
    BY IndexAssumption DEF Documents
<1>2. PICK n \in 0 .. MaxEntries : d.packs \in [1 .. n -> Entries]
    BY DEF Documents
<1>3. N = n /\ N \in Nat /\ DOMAIN d.packs = 1 .. N
    <2>1. n \in Nat
        BY IndexNumbers
    <2>2. d.packs \in Seq(Entries)
        BY <1>2, <2>1
    <2>3. N \in Nat /\ DOMAIN d.packs = 1 .. N
        BY <2>2, LenProperties
    <2>4. 1 .. N = 1 .. n
        BY <1>2, <2>3
    <2> HIDE DEF N
    <2>5. N = n
        BY <2>1, <2>3, <2>4
    <2> QED BY <2>3, <2>5
<1>4. Len(entries) = N /\ \A i \in 1 .. N : entries[i] = EntryTokens(d.packs[i])
    BY <1>3
<1>5. ASSUME NEW i \in 1 .. N PROVE Nests(entries[i], 4, 0, 1)
    <2>1. d.packs[i] \in Entries
        BY <1>2, <1>3
    <2> QED BY <1>4, <2>1, NestsEntry
<1> HIDE DEF entries, N
<1>6. Nests(Joined(entries), 4, 0, N)
    <2>1. Len(entries) \in Nat /\ \A i \in 1 .. Len(entries) : Nests(entries[i], 4, 0, 1)
        BY <1>3, <1>4, <1>5
    <2>2. Nests(Joined(entries), 4, 0, IF 1 = 0 THEN 0 ELSE Len(entries))
        BY <2>1, NestsJoined
    <2> QED BY <1>4, <2>2
<1>7. Nests(Array(entries), 5, 1, N)
    <2>1. 4 + 1 = 5 /\ 0 + 1 = 1 /\ 0 # -1
        OBVIOUS
    <2> QED BY <1>3, <1>6, <2>1, NestsArray
<1>8. Nests(packs, 5, 1, N)
    <2>1. "packs" \in Texts /\ 5 \in Nat /\ 1 \in Int
        BY DEF Texts, Literals
    <2> QED BY <1>3, <1>7, <2>1, NestsTagged
<1>9. Nests(header, 5, 1, 0)
    <2>1. Num(d.schema) \in Token /\ Rise(Num(d.schema)) = 0
        BY <1>1 DEF Num, Token, TokenKinds, Texts, Literals, Rise
    <2>2. Nests(<<Num(d.schema)>>, 5, 1, 0)
        BY <2>1, NestsToken
    <2>3. "schema" \in Texts /\ 5 \in Nat /\ 1 \in Int /\ 0 \in Nat
        BY DEF Texts, Literals
    <2> QED BY <2>2, <2>3, NestsTagged
<1> HIDE DEF header, packs
<1>10. ASSUME NEW a, NEW b, NEW x \in Nat, NEW y \in Nat, Nests(a, 5, 1, x), Nests(b, 5, 1, y)
       PROVE  Nests(Joined(<<a, b>>), 5, 1, x + y)
    <2> DEFINE parts == <<a, b>>
    <2>1. Len(parts) = 2 /\ parts[1] = a /\ parts[2] = b
        OBVIOUS
    <2> HIDE DEF parts
    <2>2. PICK f : /\ Len(parts) > 0 => f[1] = parts[1]
                   /\ \A i \in 2 .. Len(parts) : f[i] = f[i - 1] \o <<Mark(",")>> \o parts[i]
                   /\ Joined(parts) = f[Len(parts)]
        <3>1. Len(parts) \in Nat
            BY <2>1
        <3> QED BY <3>1, JoinedSteps
    <2>3. f[1] = a
        <3>1. Len(parts) > 0
            BY <2>1
        <3> QED BY <2>1, <2>2, <3>1, Zenon
    <2>4. f[2] = f[1] \o <<Mark(",")>> \o parts[2]
        <3>1. 2 \in 2 .. Len(parts) /\ 2 - 1 = 1
            BY <2>1
        <3> QED BY <2>2, <3>1
    <2>5. Joined(parts) = (a \o <<Mark(",")>>) \o b
        <3>1. Joined(parts) = f[2] /\ parts[2] = b
            BY <2>1, <2>2, Zenon
        <3> QED BY <2>3, <2>4, <3>1, Zenon
    <2>a. 5 \in Nat /\ 1 \in Int /\ 0 \in Nat /\ x + 0 \in Nat
        OBVIOUS
    <2>6. Nests(a \o <<Mark(",")>>, 5, 1, x + 0)
        BY <1>10, <2>a, NestsComma, NestsConcat, Zenon
    <2>7. Nests((a \o <<Mark(",")>>) \o b, 5, 1, (x + 0) + y)
        BY <1>10, <2>a, <2>6, NestsConcat, Zenon
    <2>8. (x + 0) + y = x + y
        OBVIOUS
    <2> QED BY <2>5, <2>7, <2>8 DEF parts
<1> DEFINE both == Joined(IF d.headerFirst THEN <<header, packs>> ELSE <<packs, header>>)
<1>11. Nests(both, 5, 1, N)
    <2>1. 0 + N = N /\ N + 0 = N
        BY <1>3
    <2>2. Nests(Joined(<<header, packs>>), 5, 1, 0 + N)
        BY <1>3, <1>8, <1>9, <1>10
    <2>3. Nests(Joined(<<packs, header>>), 5, 1, N + 0)
        BY <1>3, <1>8, <1>9, <1>10
    <2> QED BY <2>1, <2>2, <2>3
<1>12. Tokens(d) = Wrapped("{", both, "}")
    BY DEF Tokens, Object, Wrapped, header, packs, entries
<1> HIDE DEF both
<1>13. Brackets("{", "}", 1) /\ "{" \in TokenKinds /\ "}" \in TokenKinds /\ Closings(1, N) = N
    BY DEF Brackets, TokenKinds, Closings
<1>14. /\ Wrapped("{", both, "}") \in Seq(Token)
       /\ \E lev, ends : /\ Walk(Wrapped("{", both, "}"), lev, ends, 5 + 1, 1 + 1, N)
                         /\ Inside(Wrapped("{", both, "}"), lev)
    <2>1. 5 \in Nat /\ 1 \in Int
        OBVIOUS
    <2> QED BY <1>3, <1>11, <1>13, <2>1, WrapWalks, Zenon
<1>15. 5 + 1 = 6 /\ 1 + 1 = 2
    OBVIOUS
<1> QED BY <1>2, <1>3, <1>12, <1>14, <1>15 DEF N

------------------------------------------------------------------------------
(* The scanner on a token. *)

PackRecords == [id : Texts, name : Texts, url : Texts, sha256 : Texts, bytes : Int]

Scanners ==
    [failed : BOOLEAN, done : BOOLEAN, depth : Nat, inPacks : BOOLEAN, inPack : BOOLEAN,
     pending : BOOLEAN, token : Texts, key : Texts, haveKey : BOOLEAN, pack : PackRecords,
     found : PackRecords, names : SUBSET (Texts \X Texts), filled : Nat, complete : Nat, schema : Int]

(* What only brackets change. *)
Place(s) == <<s.depth, s.inPacks, s.inPack, s.done, s.found, s.complete>>

LEMMA KeySetScans ==
    ASSUME NEW s \in Scanners
    PROVE  KeySet(s) \in Scanners /\ Place(KeySet(s)) = Place(s)
BY DEF KeySet, Scanners, Place

LEMMA ValueTakenScans ==
    ASSUME NEW s \in Scanners
    PROVE  ValueTaken(s) \in Scanners /\ Place(ValueTaken(s)) = Place(s)
<1>1. CASE s.depth = 1 \/ ~ s.inPack \/ s.key \notin TextFields
    BY <1>1 DEF ValueTaken
<1>2. CASE ~ (s.depth = 1 \/ ~ s.inPack \/ s.key \notin TextFields) /\ s.token = Long
    BY <1>2 DEF ValueTaken, Scanners, Place
<1>3. CASE ~ (s.depth = 1 \/ ~ s.inPack \/ s.key \notin TextFields) /\ s.token # Long
    <2>1. [s.pack EXCEPT ![s.key] = s.token] \in PackRecords
        BY <1>3 DEF Scanners, PackRecords, TextFields
    <2>2. ValueTaken(s) = [s EXCEPT !.pack = [s.pack EXCEPT ![s.key] = s.token]]
        BY <1>3 DEF ValueTaken
    <2> QED BY <2>1, <2>2 DEF Scanners, Place
<1> QED BY <1>1, <1>2, <1>3

LEMMA FlushedScans ==
    ASSUME NEW s \in Scanners
    PROVE  Flushed(s) \in Scanners /\ Place(Flushed(s)) = Place(s)
<1> DEFINE t == IF s.pending THEN ValueTaken(s) ELSE s
<1>1. t \in Scanners /\ Place(t) = Place(s)
    BY ValueTakenScans
<1>2. Flushed(s) = [t EXCEPT !.pending = FALSE, !.haveKey = FALSE]
    BY DEF Flushed
<1> HIDE DEF t
<1>3. Flushed(s) \in Scanners /\ Place(Flushed(s)) = Place(t)
    BY <1>1, <1>2 DEF Scanners, Place
<1> QED BY <1>1, <1>3

LEMMA NumberTakenScans ==
    ASSUME NEW s \in Scanners, NEW n \in Int
    PROVE  NumberTaken(s, n) \in Scanners /\ Place(NumberTaken(s, n)) = Place(s)
<1>1. AsInt(n) \in Int
    <2>1. IntSpan \in Int /\ IntSpan > 0
        BY IndexNumbers
    <2> QED BY <2>1 DEF AsInt
<1>2. [s.pack EXCEPT !.bytes = n] \in PackRecords
    BY DEF Scanners, PackRecords
<1>3. CASE n > MaxNumber
    BY <1>3 DEF NumberTaken, Scanners, Place
<1>4. CASE ~ (n > MaxNumber) /\ s.depth = 1
    BY <1>1, <1>4 DEF NumberTaken, Scanners, Place
<1>5. CASE ~ (n > MaxNumber) /\ s.depth # 1 /\ s.inPack /\ s.key = "bytes"
    <2>1. NumberTaken(s, n) = [s EXCEPT !.pack = [s.pack EXCEPT !.bytes = n]]
        BY <1>5 DEF NumberTaken
    <2> QED BY <1>2, <2>1 DEF Scanners, Place
<1>6. CASE ~ (n > MaxNumber) /\ s.depth # 1 /\ ~ (s.inPack /\ s.key = "bytes")
    BY <1>6 DEF NumberTaken
<1> QED BY <1>3, <1>4, <1>5, <1>6
(* A token that is no bracket leaves the scanner where it is. *)
LEMMA FedWithin ==
    ASSUME NEW s \in Scanners, NEW c \in Token, Rise(c) = 0
    PROVE  Fed(s, c) \in Scanners /\ Place(Fed(s, c)) = Place(s)
<1>0. c.kind \in {":", ",", "string", "number"} /\ c.text \in Texts /\ c.number \in Int
    <2>1. c.kind \in TokenKinds /\ c.text \in Texts /\ c.number \in Int
        BY DEF Token
    <2>2. c.kind \notin {"{", "}", "[", "]"}
        <3>1. /\ c.kind \in {"{", "["} => Rise(c) = 1
              /\ c.kind \in {"}", "]"} => Rise(c) = -1
            BY DEF Rise
        <3>2. c.kind \notin {"{", "["} /\ c.kind \notin {"}", "]"}
            <4>1. Rise(c) # 1 /\ Rise(c) # -1
                OBVIOUS
            <4> QED BY <3>1, <4>1, Zenon
        <3> QED BY <3>2
    <2> QED BY <2>1, <2>2 DEF TokenKinds
<1>1. CASE c.kind = "string"
    BY <1>0, <1>1 DEF Fed, Scanners, Place
<1>2. CASE c.kind = "number"
    BY <1>0, <1>2, NumberTakenScans DEF Fed
<1>3. CASE c.kind = ":"
    BY <1>3, KeySetScans DEF Fed
<1>4. CASE c.kind = ","
    BY <1>4, FlushedScans DEF Fed
<1> QED BY <1>0, <1>1, <1>2, <1>3, <1>4

(* One that opens goes down a level, into an entry only on the third.      *)
LEMMA OpenedScans ==
    ASSUME NEW s \in Scanners, NEW kind \in TokenKinds, NEW key \in Texts
    PROVE  LET t == Opened(s, kind, key)
           IN  /\ t \in Scanners
               /\ t.depth = s.depth + 1 /\ t.done = s.done /\ t.found = s.found
               /\ t.complete = s.complete
               /\ s.inPacks => t.inPacks
               /\ t.inPack => \/ s.inPack
                              \/ t.depth = 3 /\ t.inPacks /\ ~ t.done
<1>1. CASE kind = "[" /\ key = "packs" /\ s.depth + 1 = PacksDepth
    <2>1. Opened(s, kind, key) = [s EXCEPT !.depth = s.depth + 1, !.inPacks = TRUE]
        BY <1>1 DEF Opened
    <2> DEFINE t == [s EXCEPT !.depth = s.depth + 1, !.inPacks = TRUE]
    <2>2. s.depth + 1 \in Nat
        BY DEF Scanners
    <2>3. t \in Scanners
        BY <2>2 DEF Scanners
    <2>4. /\ t.depth = s.depth + 1 /\ t.done = s.done /\ t.found = s.found
          /\ t.complete = s.complete /\ t.inPacks = TRUE /\ t.inPack = s.inPack
        BY DEF Scanners
    <2> HIDE DEF t
    <2>5. Opened(s, kind, key) = t
        BY <2>1 DEF t
    <2> QED BY <2>3, <2>4, <2>5
<1>2. CASE ~ (kind = "[" /\ key = "packs" /\ s.depth + 1 = PacksDepth) /\ OpensPack(s, kind, s.depth + 1)
    <2>1. NoPack \in PackRecords
        <3>1. "" \in Texts
            BY DEF Texts, Literals
        <3>2. -1 \in Int
            OBVIOUS
        <3> QED BY <3>1, <3>2 DEF NoPack, PackRecords
    <2>2. Opened(s, kind, key) = [s EXCEPT !.depth = s.depth + 1, !.inPack = TRUE, !.pack = NoPack]
        BY <1>2 DEF Opened
    <2>3. s.inPacks /\ s.depth + 1 = 3 /\ ~ s.done
        <3>1. s.inPacks /\ ~ s.done
            BY <1>2 DEF OpensPack
        <3>2. s.depth + 1 = PacksDepth + 1
            BY <1>2 DEF OpensPack
        <3> QED BY <3>1, <3>2 DEF PacksDepth
    <2> DEFINE t == [s EXCEPT !.depth = s.depth + 1, !.inPack = TRUE, !.pack = NoPack]
    <2>4. t \in Scanners
        <3>1. s.depth + 1 \in Nat
            BY DEF Scanners
        <3> QED BY <2>1, <3>1 DEF Scanners
    <2>5. /\ t.depth = s.depth + 1 /\ t.done = s.done /\ t.found = s.found
          /\ t.complete = s.complete /\ t.inPacks = s.inPacks
        BY DEF Scanners
    <2> HIDE DEF t
    <2>6. Opened(s, kind, key) = t
        BY <2>2 DEF t
    <2> QED BY <2>3, <2>4, <2>5, <2>6
<1>3. CASE ~ (kind = "[" /\ key = "packs" /\ s.depth + 1 = PacksDepth) /\ ~ OpensPack(s, kind, s.depth + 1)
    BY <1>3 DEF Opened, Scanners
<1> QED BY <1>1, <1>2, <1>3

(* An entry that closes is counted or ends the pass, and one that answers  *)
(* a search is complete and has the id that was asked for.                 *)
LEMMA PackClosedScans ==
    ASSUME NEW s \in Scanners, ~ s.done
    PROVE  LET t == PackClosed(s)
           IN  /\ t \in Scanners
               /\ t.depth = s.depth /\ t.inPacks = s.inPacks /\ ~ t.inPack
               /\ t.complete \in {s.complete, s.complete + 1}
               /\ pass.asks = "find" /\ t.done => Complete(t.found) /\ t.found.id \in pass.ids
<1> DEFINE b == [s EXCEPT !.inPack = FALSE]
           matches == s.pack.id \in pass.ids
<1>1. b \in Scanners /\ b.depth = s.depth /\ b.inPacks = s.inPacks /\ ~ b.inPack /\ b.complete = s.complete
      /\ b.done = s.done /\ b.names = s.names /\ b.filled = s.filled /\ b.found = s.found
    BY DEF Scanners
<1>2. s.pack \in PackRecords /\ s.pack.id \in Texts /\ s.pack.name \in Texts
    BY DEF Scanners, PackRecords
<1> HIDE DEF b
<1>3. CASE ~ Complete(s.pack)
    <2>1. PackClosed(s) = [b EXCEPT !.failed = TRUE]
        BY <1>3 DEF PackClosed, b
    <2> QED BY <1>1, <2>1 DEF Scanners
<1>4. CASE Complete(s.pack) /\ pass.asks = "find"
    <2>1. PackClosed(s) = [b EXCEPT !.complete = @ + 1, !.done = matches,
                                    !.found = IF matches THEN s.pack ELSE @]
        BY <1>4 DEF PackClosed, b
    <2>2. (IF matches THEN s.pack ELSE b.found) \in PackRecords /\ b.complete + 1 \in Nat /\ matches \in BOOLEAN
        BY <1>1, <1>2 DEF Scanners
    <2> DEFINE found == IF matches THEN s.pack ELSE b.found
               t == [b EXCEPT !.complete = b.complete + 1, !.done = matches, !.found = found]
    <2>3. PackClosed(s) = t
        BY <2>1
    <2>4. t \in Scanners
        BY <1>1, <2>2 DEF Scanners
    <2>5. t.depth = b.depth /\ t.inPacks = b.inPacks /\ t.inPack = b.inPack /\ t.complete = b.complete + 1
          /\ t.done = matches /\ t.found = found
        BY <1>1 DEF Scanners
    <2> HIDE DEF t
    <2>6. matches => found = s.pack
        OBVIOUS
    <2> QED BY <1>1, <1>4, <2>3, <2>4, <2>5, <2>6
<1>5. CASE Complete(s.pack) /\ pass.asks = "names" /\ matches
    <2> DEFINE names == IF s.pack.name = "" THEN b.names ELSE b.names \cup {<<s.pack.id, s.pack.name>>}
               last == s.filled + 1 = Cardinality(pass.ids)
               t == [b EXCEPT !.complete = b.complete + 1, !.filled = b.filled + 1, !.names = names, !.done = last]
    <2>1. PackClosed(s) = t
        BY <1>5 DEF PackClosed, b
    <2>2. names \in SUBSET (Texts \X Texts) /\ b.complete + 1 \in Nat /\ b.filled + 1 \in Nat /\ last \in BOOLEAN
        <3>1. b.names \in SUBSET (Texts \X Texts) /\ b.complete \in Nat /\ b.filled \in Nat
            BY <1>1 DEF Scanners
        <3>2. <<s.pack.id, s.pack.name>> \in Texts \X Texts
            BY <1>2
        <3>3. names \in SUBSET (Texts \X Texts)
            BY <3>1, <3>2
        <3>4. last \in BOOLEAN
            OBVIOUS
        <3>5. b.complete + 1 \in Nat /\ b.filled + 1 \in Nat
            BY <3>1
        <3> HIDE DEF names, last
        <3> QED BY <3>3, <3>4, <3>5
    <2> HIDE DEF names, last
    <2>3. t \in Scanners /\ t.depth = b.depth /\ t.inPacks = b.inPacks /\ t.inPack = b.inPack
          /\ t.complete = b.complete + 1
        BY <1>1, <2>2 DEF Scanners
    <2> HIDE DEF t
    <2> QED BY <1>1, <1>5, <2>1, <2>3
<1>6. CASE Complete(s.pack) /\ pass.asks # "find" /\ ~ (pass.asks = "names" /\ matches)
    <2>1. PackClosed(s) = [b EXCEPT !.complete = @ + 1]
        BY <1>6 DEF PackClosed, b
    <2> QED BY <1>1, <1>6, <2>1 DEF Scanners
<1> QED BY <1>3, <1>4, <1>5, <1>6
(* An entry is being read below the second level, before the answer.       *)
InEntry(s) == s.inPack => s.inPacks /\ s.depth >= 3 /\ ~ s.done
AnswerFound(s) == pass.asks = "find" /\ s.done => Complete(s.found) /\ s.found.id \in pass.ids

(* What closes on the third level is an entry. *)
LeavesEntry(depth, kind) == depth = 3 => kind = "}"

LEMMA ClosedScans ==
    ASSUME NEW s \in Scanners, NEW kind \in TokenKinds, InEntry(s), AnswerFound(s), s.depth > 0,
           LeavesEntry(s.depth, kind)
    PROVE  LET t == Closed(s, kind)
           IN  /\ t \in Scanners /\ InEntry(t) /\ AnswerFound(t)
               /\ t.depth = s.depth - 1
               /\ \/ t.complete = s.complete
                  \/ t.complete = s.complete + 1 /\ s.depth = 3
<1> DEFINE depth == s.depth - 1
           b == [s EXCEPT !.depth = depth]
<1>1. s.depth \in Nat /\ depth \in Nat /\ (IF s.depth > 0 THEN s.depth - 1 ELSE 0) = depth
    <2>1. s.depth \in Nat
        BY DEF Scanners
    <2> QED BY <2>1
<1>2. /\ b \in Scanners /\ b.depth = depth /\ b.inPacks = s.inPacks /\ b.inPack = s.inPack
      /\ b.done = s.done /\ b.found = s.found /\ b.complete = s.complete
    BY <1>1 DEF Scanners
<1>3. Closed(s, kind) = IF kind = "}" /\ ClosesPack(s, depth) THEN PackClosed(b)
                        ELSE IF kind = "]" /\ s.inPacks /\ depth = PacksDepth - 1 THEN [b EXCEPT !.inPacks = FALSE]
                        ELSE b
    BY <1>1 DEF Closed
<1> HIDE DEF b
<1>4. CASE kind = "}" /\ ClosesPack(s, depth)
    <2>1. s.inPack /\ depth = 2
        BY <1>4 DEF ClosesPack, PacksDepth
    <2>2. ~ b.done /\ s.depth = 3
        <3>1. ~ s.done
            BY <2>1 DEF InEntry
        <3>2. s.depth = 3
            BY <1>1, <2>1
        <3> QED BY <1>2, <3>1, <3>2
    <2> DEFINE t == PackClosed(b)
    <2>3. /\ t \in Scanners /\ t.depth = b.depth /\ t.inPacks = b.inPacks /\ ~ t.inPack
          /\ t.complete \in {b.complete, b.complete + 1}
          /\ pass.asks = "find" /\ t.done => Complete(t.found) /\ t.found.id \in pass.ids
        BY <1>2, <2>2, PackClosedScans
    <2> HIDE DEF t
    <2>4. Closed(s, kind) = t
        BY <1>3, <1>4 DEF t
    <2>5. InEntry(t) /\ AnswerFound(t)
        BY <2>3 DEF InEntry, AnswerFound
    <2> HIDE DEF depth
    <2>6. t.depth = depth /\ (t.complete = s.complete \/ t.complete = s.complete + 1)
        BY <1>2, <2>3
    <2> QED BY <2>2, <2>3, <2>4, <2>5, <2>6 DEF depth
<1>5. CASE ~ (kind = "}" /\ ClosesPack(s, depth))
    <2>1. s.inPack => s.inPacks /\ depth >= 3 /\ ~ s.done
        <3>1. ASSUME s.inPack PROVE depth # 2
            <4>1. depth = 2 => s.depth = 3
                <5> QED BY <1>1
            <4>2. depth = 2 => ClosesPack(s, depth)
                BY <3>1 DEF ClosesPack, PacksDepth
            <4> QED BY <1>5, <4>1, <4>2 DEF LeavesEntry
        <3>2. ASSUME s.inPack PROVE s.inPacks /\ s.depth >= 3 /\ ~ s.done
            BY <3>2 DEF InEntry
        <3>3. ASSUME s.inPack PROVE depth >= 3
            <4>1. s.depth >= 3 /\ depth # 2
                BY <3>1, <3>2, <3>3
            <4> QED BY <1>1, <4>1
        <3> QED BY <3>2, <3>3
    <2>2. CASE kind = "]" /\ s.inPacks /\ depth = PacksDepth - 1
        <3> DEFINE t == [b EXCEPT !.inPacks = FALSE]
        <3>1. /\ t \in Scanners /\ t.depth = depth /\ t.inPack = s.inPack
              /\ t.done = s.done /\ t.found = s.found /\ t.complete = s.complete
            BY <1>2 DEF Scanners
        <3> HIDE DEF t
        <3>2. ~ s.inPack
            BY <1>1, <2>1, <2>2 DEF PacksDepth
        <3>3. InEntry(t) /\ AnswerFound(t)
            BY <3>1, <3>2 DEF InEntry, AnswerFound
        <3>4. Closed(s, kind) = t
            BY <1>3, <1>5, <2>2 DEF t
        <3> QED BY <3>1, <3>3, <3>4
    <2>3. CASE ~ (kind = "]" /\ s.inPacks /\ depth = PacksDepth - 1)
        <3>1. Closed(s, kind) = b
            BY <1>3, <1>5, <2>3
        <3> HIDE DEF depth
        <3>2. InEntry(b) /\ AnswerFound(b)
            BY <1>2, <2>1 DEF InEntry, AnswerFound
        <3> QED BY <1>2, <3>1, <3>2 DEF depth
    <2> QED BY <2>2, <2>3
<1> QED BY <1>4, <1>5

LEMMA SamePlace ==
    ASSUME NEW s, NEW t, Place(t) = Place(s)
    PROVE  /\ t.depth = s.depth /\ t.complete = s.complete /\ t.done = s.done
           /\ t.inPack = s.inPack /\ t.inPacks = s.inPacks /\ t.found = s.found
           /\ InEntry(s) => InEntry(t)
           /\ AnswerFound(s) => AnswerFound(t)
<1>1. /\ t.depth = s.depth /\ t.complete = s.complete /\ t.done = s.done
      /\ t.inPack = s.inPack /\ t.inPacks = s.inPacks /\ t.found = s.found
    BY DEF Place
<1> QED BY <1>1 DEF InEntry, AnswerFound

(* A token moves the scanner as the document goes, or ends the pass.       *)
LEMMA FedScans ==
    ASSUME NEW s \in Scanners, NEW c \in Token, InEntry(s), AnswerFound(s),
           s.depth + Rise(c) \in Nat, Rise(c) = -1 => LeavesEntry(s.depth, c.kind)
    PROVE  LET t == Fed(s, c)
           IN  /\ t \in Scanners /\ InEntry(t) /\ AnswerFound(t)
               /\ t.depth \in {s.depth, s.depth + Rise(c)}
               /\ ~ t.failed => t.depth = s.depth + Rise(c)
               /\ \/ t.complete = s.complete
                  \/ t.complete = s.complete + 1 /\ Rise(c) = -1 /\ s.depth = 3
<1>0. s.depth \in Nat /\ s.complete \in Nat /\ c.kind \in TokenKinds
    BY DEF Scanners, Token
<1>1. CASE Rise(c) = 0
    <2> DEFINE t == Fed(s, c)
    <2>1. t \in Scanners /\ Place(t) = Place(s)
        BY <1>1, FedWithin
    <2> HIDE DEF t
    <2>2. t.depth = s.depth /\ t.complete = s.complete /\ InEntry(t) /\ AnswerFound(t)
        BY <2>1, SamePlace
    <2>3. s.depth + Rise(c) = s.depth
        BY <1>0, <1>1
    <2> QED BY <2>1, <2>2, <2>3 DEF t
<1>2. CASE Rise(c) # 0
    <2> DEFINE f == Flushed(s)
               key == IF s.haveKey /\ ~ s.pending THEN s.key ELSE ""
    <2>1. f \in Scanners /\ Place(f) = Place(s)
        BY FlushedScans
    <2>2. key \in Texts
        <3>1. s.key \in Texts /\ "" \in Texts
            BY DEF Scanners, Texts, Literals
        <3> QED BY <3>1
    <2>3. c.kind \in {"{", "[", "}", "]"}
        BY <1>2 DEF Rise
    <2>4. Fed(s, c) = IF f.failed THEN f
                      ELSE IF c.kind \in {"{", "["} THEN Opened(f, c.kind, key) ELSE Closed(f, c.kind)
        BY <2>3 DEF Fed
    <2> HIDE DEF f, key
    <2>5. f.depth = s.depth /\ f.complete = s.complete /\ InEntry(f) /\ AnswerFound(f)
        BY <2>1, SamePlace
    <2>6. CASE f.failed
        BY <2>1, <2>4, <2>5, <2>6
    <2>7. CASE ~ f.failed /\ c.kind \in {"{", "["}
        <3> DEFINE t == Opened(f, c.kind, key)
        <3>1. /\ t \in Scanners
              /\ t.depth = f.depth + 1 /\ t.done = f.done /\ t.found = f.found
              /\ t.complete = f.complete
              /\ f.inPacks => t.inPacks
              /\ t.inPack => \/ f.inPack
                             \/ t.depth = 3 /\ t.inPacks /\ ~ t.done
            BY <1>0, <2>1, <2>2, OpenedScans
        <3> HIDE DEF t
        <3>2. Rise(c) = 1
            BY <2>7 DEF Rise
        <3>3. InEntry(t)
            <4>1. ASSUME t.inPack, f.inPack PROVE t.inPacks /\ t.depth >= 3 /\ ~ t.done
                <5>1. f.inPacks /\ f.depth >= 3 /\ ~ f.done
                    BY <2>5, <4>1 DEF InEntry
                <5>2. t.depth >= 3
                    BY <1>0, <2>5, <3>1, <5>1
                <5> QED BY <3>1, <5>1, <5>2, Zenon
            <4>2. ASSUME t.inPack, ~ f.inPack PROVE t.inPacks /\ t.depth >= 3 /\ ~ t.done
                <5>1. t.depth = 3 /\ t.inPacks /\ ~ t.done
                    BY <3>1, <4>2, Zenon
                <5>2. t.depth >= 3
                    BY <5>1
                <5> QED BY <5>1, <5>2
            <4> QED BY <4>1, <4>2 DEF InEntry
        <3>4. AnswerFound(t)
            BY <2>5, <3>1 DEF AnswerFound
        <3>5. Fed(s, c) = t
            BY <2>4, <2>7 DEF t
        <3> QED BY <2>5, <3>1, <3>2, <3>3, <3>4, <3>5
    <2>8. CASE ~ f.failed /\ c.kind \notin {"{", "["}
        <3> DEFINE t == Closed(f, c.kind)
        <3>1. Rise(c) = -1
            BY <2>3, <2>8 DEF Rise
        <3>2. f.depth > 0 /\ LeavesEntry(f.depth, c.kind)
            <4>1. s.depth > 0
                BY <1>0, <3>1
            <4> QED BY <2>5, <3>1, <4>1
        <3>3. /\ t \in Scanners /\ InEntry(t) /\ AnswerFound(t)
              /\ t.depth = f.depth - 1
              /\ \/ t.complete = f.complete
                 \/ t.complete = f.complete + 1 /\ f.depth = 3
            BY <1>0, <2>1, <2>5, <3>2, ClosedScans
        <3> HIDE DEF t
        <3>4. Fed(s, c) = t
            BY <2>4, <2>8 DEF t
        <3>5. f.depth - 1 = s.depth + Rise(c)
            BY <1>0, <2>5, <3>1
        <3> QED BY <2>5, <3>1, <3>3, <3>4, <3>5
    <2> QED BY <2>6, <2>7, <2>8
<1> QED BY <1>1, <1>2
------------------------------------------------------------------------------
(* The pass. *)

(* The scanner stands where the document does after its first k tokens.    *)
Reading(lev, ends, k) ==
    LET w == Tokens(document)
    IN  /\ Walk(w, lev, ends, 6, 2, Len(document.packs)) /\ Inside(w, lev)
        /\ k \in 0 .. Len(w) /\ rest = SubSeq(w, k + 1, Len(w))
        /\ scan.depth \in 0 .. 6 /\ (~ scan.failed => scan.depth = lev[k])
        /\ scan.complete \in 0 .. ends[k]
        /\ k = 0 => scan.schema = 0

(* A pass that answers has read the document to its end, and a pack it     *)
(* found is one that can be installed, with the id that was asked for.     *)
ReadToTheEnd == reply.ok => rest = <<>>
FoundWasAsked == reply.ok /\ pass.asks = "find" => Complete(reply.found) /\ reply.found.id \in pass.ids

IndexInv ==
    /\ document \in Documents /\ pass \in Passes /\ scan \in Scanners
    /\ InEntry(scan) /\ AnswerFound(scan)
    /\ \E lev, ends, k : Reading(lev, ends, k)
    /\ reply.answered \in BOOLEAN /\ (reply.ok => reply.answered)
    /\ ReadToTheEnd /\ FoundWasAsked

LEMMA ReadTokenMoves ==
    ASSUME IndexInv, ReadToken, NEW lev, NEW ends, NEW k, Reading(lev, ends, k)
    PROVE  /\ scan' \in Scanners /\ InEntry(scan)' /\ AnswerFound(scan)'
           /\ Reading(lev, ends, k + 1)'
<1> DEFINE w == Tokens(document)
           c == w[k + 1]
<1>1. /\ Walk(w, lev, ends, 6, 2, Len(document.packs)) /\ Inside(w, lev)
      /\ k \in 0 .. Len(w) /\ rest = SubSeq(w, k + 1, Len(w))
      /\ scan.depth \in 0 .. 6 /\ (~ scan.failed => scan.depth = lev[k])
      /\ scan.complete \in 0 .. ends[k]
    BY DEF Reading
<1>2. /\ w \in Seq(Token) /\ Len(w) \in Nat /\ scan \in Scanners /\ InEntry(scan) /\ AnswerFound(scan)
      /\ Len(document.packs) \in Nat
    <2>1. w \in Seq(Token) /\ Len(document.packs) \in 0 .. MaxEntries
        BY DocumentWalks DEF IndexInv
    <2>2. Len(w) \in Nat /\ Len(document.packs) \in Nat
        BY <2>1, LenProperties
    <2> QED BY <2>1, <2>2 DEF IndexInv
<1>3. /\ ~ scan.failed /\ rest # <<>> /\ scan' = Fed(scan, Head(rest)) /\ rest' = Tail(rest)
      /\ document' = document /\ pass' = pass
    BY DEF ReadToken
<1> HIDE DEF w
<1>4. k + 1 \in 1 .. Len(w) /\ Len(w) \in k + 1 .. Len(w)
    <2>1. CASE k = Len(w)
        <3>1. SubSeq(w, k + 1, Len(w)) = <<>>
            BY <1>2, <2>1, SubSeqEmpty
        <3> QED BY <1>1, <1>3, <3>1
    <2>2. CASE k # Len(w)
        BY <1>1, <1>2, <2>2
    <2> QED BY <2>1, <2>2
<1>5. Head(rest) = c /\ rest' = SubSeq(w, (k + 1) + 1, Len(w)) /\ c \in Token
    <2>1. Head(SubSeq(w, k + 1, Len(w))) = w[k + 1] /\ Tail(SubSeq(w, k + 1, Len(w))) = SubSeq(w, (k + 1) + 1, Len(w))
        BY <1>2, <1>4, HeadTailOfSubSeq
    <2>2. c \in Token
        BY <1>2, <1>4, ElementOfSeq
    <2> QED BY <1>1, <1>3, <2>1, <2>2
<1> HIDE DEF c
<1>6. /\ lev \in [0 .. Len(w) -> 0 .. 6] /\ ends \in [0 .. Len(w) -> 0 .. Len(document.packs)]
      /\ lev[k + 1] = lev[(k + 1) - 1] + Rise(c)
      /\ IF Rise(c) = -1 /\ lev[k + 1] = 2
         THEN c.kind = "}" /\ ends[k + 1] = ends[(k + 1) - 1] + 1
         ELSE ends[k + 1] = ends[(k + 1) - 1]
    BY <1>1, <1>4 DEF Walk, c
<1>7. k \in 0 .. Len(w) /\ k + 1 \in 0 .. Len(w) /\ (k + 1) - 1 = k /\ k + 1 # 0 /\ k \in Nat
    BY <1>1, <1>2, <1>4
<1>8. /\ lev[k] \in 0 .. 6 /\ lev[k + 1] \in 0 .. 6
      /\ ends[k] \in Nat /\ ends[k + 1] \in Nat
    <2>1. ends[k] \in 0 .. Len(document.packs) /\ ends[k + 1] \in 0 .. Len(document.packs)
        BY <1>6, <1>7
    <2>2. ends[k] \in Nat /\ ends[k + 1] \in Nat
        <3>1. Len(document.packs) \in Nat
            BY <1>2
        <3> QED BY <2>1, <3>1
    <2>3. lev[k] \in 0 .. 6 /\ lev[k + 1] \in 0 .. 6
        BY <1>6, <1>7
    <2> QED BY <2>2, <2>3
<1>9. scan.depth = lev[k] /\ lev[k + 1] = lev[k] + Rise(c)
    BY <1>1, <1>3, <1>6, <1>7
<1>10. scan.depth + Rise(c) = lev[k + 1] /\ scan.depth + Rise(c) \in Nat
    BY <1>8, <1>9
<1>11. Rise(c) = -1 => (scan.depth = 3 => lev[k + 1] = 2)
    BY <1>10
<1>12. Rise(c) = -1 => LeavesEntry(scan.depth, c.kind)
    BY <1>6, <1>11, Zenon DEF LeavesEntry
<1> DEFINE t == Fed(scan, c)
<1>13. /\ t \in Scanners /\ InEntry(t) /\ AnswerFound(t)
       /\ t.depth \in {scan.depth, scan.depth + Rise(c)}
       /\ ~ t.failed => t.depth = scan.depth + Rise(c)
       /\ \/ t.complete = scan.complete
          \/ t.complete = scan.complete + 1 /\ Rise(c) = -1 /\ scan.depth = 3
    BY <1>2, <1>5, <1>10, <1>12, FedScans
<1> HIDE DEF t
<1>14. scan' = t
    BY <1>3, <1>5 DEF t
<1>15. scan' \in Scanners /\ InEntry(scan)' /\ AnswerFound(scan)'
    BY <1>3, <1>13, <1>14 DEF InEntry, AnswerFound
<1>16. t.depth \in 0 .. 6 /\ (~ t.failed => t.depth = lev[k + 1])
    BY <1>1, <1>8, <1>10, <1>13
<1>17. t.complete \in 0 .. ends[k + 1]
    <2>1. CASE t.complete = scan.complete
        <3>1. ends[k] <= ends[k + 1]
            <4>1. ends[k + 1] = ends[k] + 1 \/ ends[k + 1] = ends[k]
                BY <1>6, <1>7, Zenon
            <4> QED BY <1>8, <4>1
        <3> QED BY <1>1, <1>8, <2>1, <3>1
    <2>2. CASE t.complete = scan.complete + 1 /\ Rise(c) = -1 /\ scan.depth = 3
        <3>1. lev[k + 1] = 2
            BY <1>11, <2>2
        <3>2. ends[k + 1] = ends[k] + 1
            BY <1>6, <1>7, <2>2, <3>1, Zenon
        <3> QED BY <1>1, <1>8, <2>2, <3>2
    <2> QED BY <1>13, <2>1, <2>2
<1>18. Reading(lev, ends, k + 1)'
    BY <1>1, <1>3, <1>5, <1>7, <1>14, <1>16, <1>17 DEF Reading, w
<1> QED BY <1>15, <1>18

(* The root closes with the last token, and before the first there is no   *)
(* schema.                                                                 *)
LEMMA OkMeansRead ==
    ASSUME IndexInv, Ran(scan)
    PROVE  rest = <<>>
<1> DEFINE w == Tokens(document)
<1>1. PICK lev, ends, k : Reading(lev, ends, k)
    BY DEF IndexInv
<1>2. /\ Inside(w, lev) /\ k \in 0 .. Len(w) /\ rest = SubSeq(w, k + 1, Len(w))
      /\ ~ scan.failed => scan.depth = lev[k]
      /\ k = 0 => scan.schema = 0
    BY <1>1 DEF Reading
<1>3. Len(w) \in Nat
    BY DocumentWalks, LenProperties DEF IndexInv
<1>4. lev[k] = 0 /\ k # 0
    <2>1. ~ scan.failed /\ scan.depth = 0 /\ scan.schema = 1
        BY DEF Ran, WholeDocument
    <2> QED BY <1>2, <2>1
<1> HIDE DEF w
<1>5. k = Len(w)
    <2> SUFFICES ASSUME k # Len(w) PROVE FALSE
        OBVIOUS
    <2>1. k \in 1 .. Len(w) - 1
        BY <1>2, <1>3, <1>4
    <2>2. lev[k] >= 1
        BY <1>2, <2>1 DEF Inside
    <2> QED BY <1>4, <2>2
<1>6. SubSeq(w, k + 1, Len(w)) = <<>>
    BY <1>3, <1>5, SubSeqEmpty
<1> QED BY <1>2, <1>6

LEMMA IndexInitial == IndexInit => IndexInv
<1> SUFFICES ASSUME IndexInit PROVE IndexInv
    OBVIOUS
<1>1. document \in Documents /\ pass \in Passes /\ rest = Tokens(document) /\ scan = Started /\ reply = NoReply
    BY DEF IndexInit
<1>2. Started \in Scanners
    <2>1. "" \in Texts /\ NoPack \in PackRecords
        <3>1. "" \in Texts
            BY DEF Texts, Literals
        <3>2. -1 \in Int
            OBVIOUS
        <3> QED BY <3>1, <3>2 DEF NoPack, PackRecords
    <2>2. {} \in SUBSET (Texts \X Texts)
        OBVIOUS
    <2>3. 0 \in Nat /\ 0 \in Int /\ FALSE \in BOOLEAN
        OBVIOUS
    <2> QED BY <2>1, <2>2, <2>3, Zenon DEF Started, Scanners
<1>3. InEntry(scan) /\ AnswerFound(scan)
    BY <1>1 DEF Started, InEntry, AnswerFound
<1>4. \E lev, ends, k : Reading(lev, ends, k)
    <2> DEFINE w == Tokens(document)
    <2>1. w \in Seq(Token) /\ Len(w) \in Nat
        BY <1>1, DocumentWalks, LenProperties
    <2>2. PICK lev, ends : Walk(w, lev, ends, 6, 2, Len(document.packs)) /\ Inside(w, lev)
        BY <1>1, DocumentWalks
    <2>3. lev[0] = 0 /\ ends[0] = 0
        BY <2>2 DEF Walk
    <2>4. scan.depth = 0 /\ scan.complete = 0 /\ scan.schema = 0
        BY <1>1 DEF Started
    <2> HIDE DEF w
    <2>5. rest = SubSeq(w, 0 + 1, Len(w))
        <3>1. SubSeq(w, 1, Len(w)) = w
            BY <2>1, SubSeqFull
        <3>2. 0 + 1 = 1
            OBVIOUS
        <3> QED BY <1>1, <3>1, <3>2 DEF w
    <2>6. 0 \in 0 .. Len(w)
        BY <2>1
    <2>7. Reading(lev, ends, 0)
        BY <2>2, <2>3, <2>4, <2>5, <2>6 DEF Reading, w
    <2> QED BY <2>7
<1>5. ~ reply.ok /\ reply.answered = FALSE
    BY <1>1 DEF NoReply
<1> QED BY <1>1, <1>2, <1>3, <1>4, <1>5 DEF IndexInv, ReadToTheEnd, FoundWasAsked

LEMMA IndexKept == IndexInv /\ [IndexNext]_indexVars => IndexInv'
<1> SUFFICES ASSUME IndexInv, [IndexNext]_indexVars PROVE IndexInv'
    OBVIOUS
<1>1. CASE ReadToken
    <2>1. PICK lev, ends, k : Reading(lev, ends, k)
        BY DEF IndexInv
    <2>2. scan' \in Scanners /\ InEntry(scan)' /\ AnswerFound(scan)' /\ Reading(lev, ends, k + 1)'
        BY <1>1, <2>1, ReadTokenMoves
    <2>3. document' = document /\ pass' = pass /\ reply' = reply /\ ~ reply.answered
        BY <1>1 DEF ReadToken
    <2>4. ~ reply.ok
        BY <2>3 DEF IndexInv
    <2>5. (\E a, b, i : Reading(a, b, i))'
        BY <2>2
    <2>6. ReadToTheEnd' /\ FoundWasAsked'
        BY <2>3, <2>4 DEF ReadToTheEnd, FoundWasAsked
    <2> QED BY <2>2, <2>3, <2>5, <2>6 DEF IndexInv
<1>2. CASE Answer
    <2>1. /\ UNCHANGED <<document, rest, pass, scan>> /\ reply'.answered
          /\ reply'.answered \in BOOLEAN
          /\ reply'.ok => Ran(scan)
          /\ pass.asks = "find" /\ reply'.ok => scan.done /\ reply'.found = scan.found
        BY <1>2 DEF Answer
    <2>2. InEntry(scan)' /\ AnswerFound(scan)' /\ (\E a, b, i : Reading(a, b, i))'
        BY <2>1 DEF IndexInv, InEntry, AnswerFound, Reading
    <2>3. ReadToTheEnd'
        BY <2>1, OkMeansRead DEF ReadToTheEnd
    <2>4. FoundWasAsked'
        BY <2>1 DEF IndexInv, AnswerFound, FoundWasAsked
    <2> QED BY <2>1, <2>2, <2>3, <2>4 DEF IndexInv
<1>3. CASE UNCHANGED indexVars
    BY <1>3 DEF indexVars, IndexInv, InEntry, AnswerFound, Reading, ReadToTheEnd, FoundWasAsked
<1> QED BY <1>1, <1>2, <1>3 DEF IndexNext

LEMMA IndexTyped == IndexInv => IndexTypeOK
<1> SUFFICES ASSUME IndexInv PROVE IndexTypeOK
    OBVIOUS
<1>1. PICK lev, ends, k : Reading(lev, ends, k)
    BY DEF IndexInv
<1>2. /\ ends \in [0 .. Len(Tokens(document)) -> 0 .. Len(document.packs)] /\ k \in 0 .. Len(Tokens(document))
      /\ scan.depth \in 0 .. 6 /\ scan.complete \in 0 .. ends[k]
    BY <1>1 DEF Reading, Walk
<1>3. ends[k] \in 0 .. Len(document.packs) /\ Len(document.packs) \in 0 .. MaxEntries /\ MaxEntries \in Nat
    BY <1>2, DocumentWalks, IndexNumbers DEF IndexInv
<1>4. scan.complete \in 0 .. MaxEntries
    BY <1>2, <1>3
<1>5. scan.inPack => scan.inPacks
    BY DEF IndexInv, InEntry
<1> QED BY <1>2, <1>4, <1>5 DEF IndexInv, IndexTypeOK

(* The scanner's state keeps its types: it never counts more entries than  *)
(* the document has, nor nests deeper (catalog_index.c:11-65).             *)
THEOREM IndexTypeCorrect == IndexSpec => []IndexTypeOK
<1>1. IndexInit => IndexInv
    BY IndexInitial
<1>2. IndexInv /\ [IndexNext]_indexVars => IndexInv'
    BY IndexKept
<1>3. IndexInv => IndexTypeOK
    BY IndexTyped
<1> QED BY <1>1, <1>2, <1>3, PTL DEF IndexSpec

(* A catalogue that is cut off anywhere answers nothing, whatever its      *)
(* entries are, and a pack that is found can be installed from             *)
(* (catalog_index.c:116-151, 283-302).                                     *)
THEOREM CutOffAnswersNothing == IndexSpec => [](ReadToTheEnd /\ FoundWasAsked)
<1>1. IndexInit => IndexInv
    BY IndexInitial
<1>2. IndexInv /\ [IndexNext]_indexVars => IndexInv'
    BY IndexKept
<1>3. IndexInv => ReadToTheEnd /\ FoundWasAsked
    BY DEF IndexInv
<1> QED BY <1>1, <1>2, <1>3, PTL DEF IndexSpec

------------------------------------------------------------------------------
(* What the scanner makes of a row of tokens.                              *)

(* A pass that has failed reads no further.                                *)
Step(s, c) == IF s.failed THEN s ELSE Fed(s, c)

Trace(w, f) ==
    /\ f \in [0 .. Len(w) -> Scanners]
    /\ \A i \in 1 .. Len(w) : f[i] = Step(f[i - 1], w[i])

(* From every state of A the tokens lead to one of B.                      *)
Takes(A, w, B) ==
    /\ w \in Seq(Token)
    /\ \A s \in A : \E f : Trace(w, f) /\ f[0] = s /\ f[Len(w)] \in B

LEMMA TakesNothing ==
    ASSUME NEW A, A \subseteq Scanners
    PROVE  Takes(A, <<>>, A)
<1>1. ASSUME NEW s \in A PROVE \E f : Trace(<<>>, f) /\ f[0] = s /\ f[Len(<<>>)] \in A
    <2> DEFINE f == [i \in 0 .. 0 |-> s]
    <2>1. f \in [0 .. 0 -> Scanners] /\ f[0] = s /\ Len(<<>>) = 0
        OBVIOUS
    <2> HIDE DEF f
    <2>2. Trace(<<>>, f)
        <3>1. \A i \in 1 .. 0 : FALSE
            OBVIOUS
        <3> QED BY <2>1, <3>1 DEF Trace
    <2> QED BY <2>1, <2>2
<1> QED BY <1>1 DEF Takes

LEMMA TakesToken ==
    ASSUME NEW A, A \subseteq Scanners, NEW c \in Token, NEW B, B \subseteq Scanners,
           \A s \in A : Step(s, c) \in B
    PROVE  Takes(A, <<c>>, B)
<1> DEFINE w == <<c>>
<1>0. w \in Seq(Token) /\ Len(w) = 1 /\ w[1] = c
    OBVIOUS
<1> HIDE DEF w
<1>1. ASSUME NEW s \in A PROVE \E f : Trace(w, f) /\ f[0] = s /\ f[Len(w)] \in B
    <2> DEFINE t == Step(s, c)
               f == [i \in 0 .. 1 |-> IF i = 0 THEN s ELSE t]
    <2>1. t \in B /\ t \in Scanners /\ s \in Scanners
        OBVIOUS
    <2>a. t = Step(s, c)
        OBVIOUS
    <2> HIDE DEF t
    <2>2. f \in [0 .. 1 -> Scanners] /\ f[0] = s /\ f[1] = t
        BY <2>1
    <2> HIDE DEF f
    <2>3. \A i \in 1 .. 1 : f[i] = Step(f[i - 1], w[i])
        <3>1. \A i \in 1 .. 1 : i = 1 /\ i - 1 = 0
            OBVIOUS
        <3> QED BY <1>0, <2>a, <2>2, <3>1, Zenon
    <2>4. Trace(w, f)
        BY <1>0, <2>2, <2>3 DEF Trace
    <2> QED BY <1>0, <2>1, <2>2, <2>4
<1> QED BY <1>0, <1>1 DEF Takes, w

LEMMA TakesConcat ==
    ASSUME NEW A, NEW a, NEW B, NEW b, NEW C, Takes(A, a, B), Takes(B, b, C)
    PROVE  Takes(A, a \o b, C)
<1> DEFINE w == a \o b
           M == Len(a)
           N == Len(b)
<1>1. a \in Seq(Token) /\ b \in Seq(Token) /\ M \in Nat /\ N \in Nat
    BY LenProperties DEF Takes
<1>2. /\ w \in Seq(Token) /\ Len(w) = M + N
      /\ \A i \in 1 .. M + N : w[i] = IF i <= M THEN a[i] ELSE b[i - M]
    BY <1>1, ConcatProperties
<1> HIDE DEF w
<1>3. ASSUME NEW s \in A PROVE \E f : Trace(w, f) /\ f[0] = s /\ f[Len(w)] \in C
    <2>1. PICK g : Trace(a, g) /\ g[0] = s /\ g[M] \in B
        BY DEF Takes
    <2>2. PICK h : Trace(b, h) /\ h[0] = g[M] /\ h[N] \in C
        BY <2>1 DEF Takes
    <2>3. /\ g \in [0 .. M -> Scanners] /\ h \in [0 .. N -> Scanners]
          /\ \A i \in 1 .. M : g[i] = Step(g[i - 1], a[i])
          /\ \A i \in 1 .. N : h[i] = Step(h[i - 1], b[i])
        BY <2>1, <2>2 DEF Trace
    <2> HIDE DEF M, N
    <2> DEFINE f == [i \in 0 .. M + N |-> IF i <= M THEN g[i] ELSE h[i - M]]
    <2>4. f \in [0 .. M + N -> Scanners]
        <3>1. ASSUME NEW i \in 0 .. M + N PROVE (IF i <= M THEN g[i] ELSE h[i - M]) \in Scanners
            BY <1>1, <2>3
        <3> QED BY <3>1
    <2>5. (\A i \in 0 .. M : f[i] = g[i]) /\ \A i \in 0 .. N : f[M + i] = h[i]
        <3>1. \A i \in 0 .. M : f[i] = g[i]
            BY <1>1
        <3>2. ASSUME NEW i \in 0 .. N PROVE f[M + i] = h[i]
            <4>1. CASE i = 0
                BY <1>1, <2>2, <4>1
            <4>2. CASE i # 0
                <5>1. M + i \in 0 .. M + N /\ ~ (M + i <= M) /\ (M + i) - M = i
                    BY <1>1, <4>2
                <5> QED BY <5>1
            <4> QED BY <4>1, <4>2
        <3> QED BY <3>1, <3>2
    <2> HIDE DEF f
    <2>6. ASSUME NEW i \in 1 .. M + N PROVE f[i] = Step(f[i - 1], w[i])
        <3>1. CASE i <= M
            <4>1. i \in 1 .. M /\ i - 1 \in 0 .. M /\ i \in 0 .. M /\ w[i] = a[i]
                BY <1>1, <1>2, <3>1
            <4> QED BY <2>3, <2>5, <4>1
        <3>2. CASE ~ (i <= M)
            <4> DEFINE j == i - M
            <4>1. /\ j \in 1 .. N /\ j - 1 \in 0 .. N /\ j \in 0 .. N /\ w[i] = b[j]
                  /\ i = M + j /\ i - 1 = M + (j - 1)
                BY <1>1, <1>2, <3>2
            <4> HIDE DEF j
            <4>2. f[i] = h[j] /\ f[i - 1] = h[j - 1]
                BY <2>5, <4>1
            <4> QED BY <2>3, <4>1, <4>2
        <3> QED BY <3>1, <3>2
    <2>7. Trace(w, f)
        BY <1>2, <2>4, <2>6 DEF Trace
    <2>8. f[0] = s /\ f[Len(w)] \in C
        <3>1. 0 \in 0 .. M /\ N \in 0 .. N
            BY <1>1
        <3>2. f[0] = g[0] /\ f[M + N] = h[N]
            BY <2>5, <3>1
        <3> QED BY <1>2, <2>1, <2>2, <3>2 DEF M, N
    <2> QED BY <2>7, <2>8
<1>4. Takes(A, w, C)
    BY <1>2, <1>3 DEF Takes
<1> QED BY <1>4 DEF w

LEMMA TakesWithin ==
    ASSUME NEW A, NEW B, NEW w, Takes(A, w, B), NEW X, X \subseteq A, NEW Y, B \subseteq Y
    PROVE  Takes(X, w, Y)
BY DEF Takes

LEMMA TakesEach ==
    ASSUME NEW A, NEW B, NEW w, w \in Seq(Token), \A s \in A : Takes({s}, w, B)
    PROVE  Takes(A, w, B)
BY DEF Takes

(* A pass that failed stays where it failed. *)
LEMMA TraceStops ==
    ASSUME NEW w, w \in Seq(Token), NEW f, Trace(w, f), NEW k \in 0 .. Len(w), f[k].failed
    PROVE  f[Len(w)] = f[k]
<1> DEFINE N == Len(w) - k
           Good == {n \in 0 .. N : f[k + n] = f[k]}
<1>1. N \in Nat /\ Len(w) \in Nat /\ k \in Nat /\ Len(w) = k + N
    BY LenProperties
<1> HIDE DEF N
<1>2. 0 \in Good
    BY <1>1
<1>3. ASSUME NEW n \in 1 .. N, n - 1 \in Good PROVE n \in Good
    <2>1. k + n \in 1 .. Len(w) /\ (k + n) - 1 = k + (n - 1)
        BY <1>1
    <2>2. f[k + n] = Step(f[(k + n) - 1], w[k + n])
        BY <2>1 DEF Trace
    <2>3. f[(k + n) - 1] = f[k]
        BY <1>3, <2>1
    <2>4. f[k + n] = f[k]
        BY <2>2, <2>3 DEF Step
    <2> QED BY <1>1, <2>4
<1>4. N \in Good
    <2> HIDE DEF Good
    <2>1. \A n \in 0 .. N : n \in Good
        BY <1>1, <1>2, <1>3, UpTo
    <2> QED BY <1>1, <2>1
<1> QED BY <1>1, <1>4

LEMMA FailedStays ==
    ASSUME NEW w, w \in Seq(Token), NEW s \in Scanners, s.failed
    PROVE  Takes({s}, w, {s})
<1> DEFINE f == [i \in 0 .. Len(w) |-> s]
<1>1. Len(w) \in Nat
    BY LenProperties
<1>2. f \in [0 .. Len(w) -> Scanners] /\ f[0] = s /\ f[Len(w)] = s
    BY <1>1
<1>3. \A i \in 1 .. Len(w) : f[i] = s /\ f[i - 1] = s
    BY <1>1
<1> HIDE DEF f
<1>4. Trace(w, f)
    BY <1>2, <1>3 DEF Trace, Step
<1> QED BY <1>2, <1>4 DEF Takes

(* A comma or a bracket ends what was read before it. *)
Settled(s) == IF s.failed THEN s ELSE Flushed(s)
Before(B) == {s \in Scanners : Settled(s) \in B}

LEMMA TakesComma ==
    ASSUME NEW B, B \subseteq Scanners
    PROVE  Takes(Before(B), <<Mark(",")>>, B)
<1>1. Mark(",") \in Token
    BY MarkIsToken DEF TokenKinds
<1>2. \A s : Step(s, Mark(",")) = Settled(s)
    BY DEF Step, Settled, Fed, Mark
<1>3. Before(B) \subseteq Scanners /\ \A s \in Before(B) : Step(s, Mark(",")) \in B
    BY <1>2 DEF Before
<1> QED BY <1>1, <1>3, TakesToken

LEMMA TakesJoined ==
    ASSUME NEW parts, Len(parts) \in Nat, NEW I \in [0 .. Len(parts) -> SUBSET Scanners],
           I[0] \subseteq Before(I[0]),
           \A k \in 1 .. Len(parts) : Takes(I[k - 1], parts[k], Before(I[k]))
    PROVE  Takes(I[0], Joined(parts), Before(I[Len(parts)]))
<1> DEFINE N == Len(parts)
<1>1. PICK f : /\ f[0] = <<>>
               /\ N > 0 => f[1] = parts[1]
               /\ \A n \in 2 .. N : f[n] = f[n - 1] \o <<Mark(",")>> \o parts[n]
               /\ Joined(parts) = f[N]
    BY JoinedSteps
<1>2. N \in Nat /\ \A k \in 0 .. N : I[k] \subseteq Scanners
    OBVIOUS
<1>a. \A k \in 1 .. N : Takes(I[k - 1], parts[k], Before(I[k]))
    OBVIOUS
<1> HIDE DEF N
<1> DEFINE Good == {n \in 0 .. N : Takes(I[0], f[n], Before(I[n]))}
<1>3. 0 \in Good
    <2>1. 0 \in 0 .. N
        BY <1>2
    <2>2. Takes(I[0], <<>>, I[0])
        BY <1>2, <2>1, TakesNothing
    <2>3. Takes(I[0], f[0], Before(I[0]))
        <3>1. Takes(I[0], <<>>, Before(I[0]))
            BY <2>2, TakesWithin
        <3> QED BY <1>1, <3>1
    <2> QED BY <2>1, <2>3
<1>4. ASSUME NEW n \in 1 .. N, n - 1 \in Good PROVE n \in Good
    <2>1. Takes(I[n - 1], parts[n], Before(I[n]))
        BY <1>a
    <2>2. CASE n = 1
        <3>1. f[n] = parts[n] /\ n - 1 = 0
            <4>1. N > 0
                BY <1>2
            <4>2. f[n] = parts[n]
                BY <1>1, <2>2, <4>1, Zenon
            <4> QED BY <2>2, <4>2
        <3>2. Takes(I[0], f[n], Before(I[n]))
            BY <2>1, <3>1
        <3> QED BY <1>2, <3>2
    <2>3. CASE n # 1
        <3>1. f[n] = (f[n - 1] \o <<Mark(",")>>) \o parts[n]
            <4>1. n \in 2 .. N
                BY <1>2, <2>3
            <4> QED BY <1>1, <4>1, Zenon
        <3>2. Takes(I[0], f[n - 1], Before(I[n - 1]))
            BY <1>4
        <3>3. Takes(Before(I[n - 1]), <<Mark(",")>>, I[n - 1])
            <4>1. n - 1 \in 0 .. N
                BY <1>2
            <4> QED BY <1>2, <4>1, TakesComma
        <3>4. Takes(I[0], f[n - 1] \o <<Mark(",")>>, I[n - 1])
            BY <3>2, <3>3, TakesConcat
        <3>5. Takes(I[0], (f[n - 1] \o <<Mark(",")>>) \o parts[n], Before(I[n]))
            BY <2>1, <3>4, TakesConcat
        <3>6. Takes(I[0], f[n], Before(I[n]))
            BY <3>1, <3>5
        <3> QED BY <1>2, <3>6
    <2> QED BY <2>2, <2>3
<1>5. N \in Good
    <2> HIDE DEF Good
    <2>1. \A n \in 0 .. N : n \in Good
        BY <1>2, <1>3, <1>4, UpTo
    <2> QED BY <1>2, <2>1
<1> QED BY <1>1, <1>5 DEF N

LEMMA TakesWrapped ==
    ASSUME NEW A, NEW B, NEW C, NEW D, NEW a, NEW o, NEW c,
           Takes(A, <<Mark(o)>>, B), Takes(B, a, C), Takes(C, <<Mark(c)>>, D)
    PROVE  Takes(A, <<Mark(o)>> \o a \o <<Mark(c)>>, D)
BY TakesConcat

------------------------------------------------------------------------------
(* The fields of an entry, or of a value inside one. *)

Kept(t, s) ==
    /\ t.inPacks = s.inPacks /\ t.inPack = s.inPack /\ t.done = s.done /\ t.found = s.found
    /\ t.names = s.names /\ t.filled = s.filled /\ t.complete = s.complete /\ t.schema = s.schema

LEMMA KeptOn ==
    ASSUME NEW s, NEW t, NEW u, Kept(t, s), Kept(u, t)
    PROVE  Kept(u, s)
BY DEF Kept

(* In the row of fields of an entry, or deeper. *)
Reads(s) == s \in Scanners /\ ~ s.failed /\ ~ s.pending /\ s.depth >= 3

(* After a field, and after the first n of a row. *)
AfterField(s, f) ==
    {t \in Scanners :
        IF t.failed THEN s.inPack /\ ~ Readable(f)
        ELSE /\ ~ t.pending /\ Kept(t, s) /\ t.depth = s.depth
             /\ s.inPack => /\ Readable(f)
                            /\ \A k \in Fields : t.pack[k] = IF Gives(f, k) THEN Content(f, k) ELSE s.pack[k]}

Holds(k, old, new, fs, n) ==
    \/ new = old /\ \A i \in 1 .. n : ~ Gives(fs[i], k)
    \/ \E i \in 1 .. n : /\ Gives(fs[i], k) /\ new = Content(fs[i], k)
                         /\ \A j \in i + 1 .. n : ~ Gives(fs[j], k)

AfterFields(s, fs, n) ==
    {t \in Scanners :
        IF t.failed THEN s.inPack /\ \E i \in 1 .. n : ~ Readable(fs[i])
        ELSE /\ ~ t.pending /\ Kept(t, s) /\ t.depth = s.depth
             /\ s.inPack => /\ \A i \in 1 .. n : Readable(fs[i])
                            /\ \A k \in Fields : Holds(k, s.pack[k], t.pack[k], fs, n)}

LEMMA StrIsToken ==
    ASSUME NEW t \in Texts
    PROVE  Str(t) \in Token /\ <<Str(t), Mark(":")>> = <<Str(t)>> \o <<Mark(":")>>
           /\ <<Str(t), Mark(":")>> \in Seq(Token)
<1>1. Str(t) \in Token
    BY DEF Str, Token, TokenKinds
<1>2. Mark(":") \in Token
    BY MarkIsToken DEF TokenKinds
<1> QED BY <1>1, <1>2

WithText(s, t) == [s EXCEPT !.token = t, !.pending = TRUE]
WithKey(s, k) ==
    [s EXCEPT !.token = k, !.pending = FALSE, !.key = IF k = Long THEN s.key ELSE k, !.haveKey = TRUE]

LEMMA TakesText ==
    ASSUME NEW s \in Scanners, ~ s.failed, NEW t \in Texts
    PROVE  Takes({s}, <<Str(t)>>, {WithText(s, t)})
<1>1. WithText(s, t) \in Scanners
    BY DEF WithText, Scanners
<1>2. Step(s, Str(t)) = WithText(s, t)
    BY DEF Step, Fed, Str, WithText
<1>3. Str(t) \in Token
    BY StrIsToken
<1> QED BY <1>1, <1>2, <1>3, TakesToken

LEMMA TakesKey ==
    ASSUME NEW s \in Scanners, ~ s.failed, NEW k \in Texts
    PROVE  /\ WithKey(s, k) \in Scanners
           /\ Takes({s}, <<Str(k), Mark(":")>>, {WithKey(s, k)})
<1> DEFINE u == WithText(s, k)
<1>1. u \in Scanners /\ ~ u.failed /\ u.pending /\ WithKey(s, k) \in Scanners
    BY DEF WithText, WithKey, Scanners
<1>2. Step(u, Mark(":")) = WithKey(s, k)
    <2>1. Step(u, Mark(":")) = KeySet(u)
        BY <1>1 DEF Step, Fed, Mark
    <2>2. KeySet(u) = WithKey(s, k)
        BY DEF KeySet, WithText, WithKey, Scanners
    <2> QED BY <2>1, <2>2
<1>3. Takes({s}, <<Str(k)>>, {u})
    BY TakesText
<1>4. Takes({u}, <<Mark(":")>>, {WithKey(s, k)})
    <2>1. Mark(":") \in Token
        BY MarkIsToken DEF TokenKinds
    <2> HIDE DEF u
    <2> QED BY <1>1, <1>2, <2>1, TakesToken
<1>5. Takes({s}, <<Str(k)>> \o <<Mark(":")>>, {WithKey(s, k)})
    BY <1>3, <1>4, TakesConcat
<1> QED BY <1>1, <1>5, StrIsToken

LEMMA FlushedText ==
    ASSUME NEW s \in Scanners, ~ s.failed, s.pending, s.depth >= 3
    PROVE  LET t == Flushed(s)
           IN  /\ t \in Scanners /\ ~ t.pending /\ Kept(t, s) /\ t.depth = s.depth
               /\ t.failed <=> s.inPack /\ s.key \in TextFields /\ s.token = Long
               /\ ~ t.failed =>
                    \A k \in Fields : t.pack[k] = IF s.inPack /\ s.key \in TextFields /\ k = s.key
                                                  THEN s.token ELSE s.pack[k]
<1>1. Flushed(s) = [ValueTaken(s) EXCEPT !.pending = FALSE, !.haveKey = FALSE] /\ Flushed(s) \in Scanners
    BY FlushedScans DEF Flushed
<1>2. s.depth # 1 /\ s.depth \in Nat
    BY DEF Scanners
<1>3. CASE ~ (s.inPack /\ s.key \in TextFields)
    <2>1. ValueTaken(s) = s
        BY <1>3 DEF ValueTaken
    <2> QED BY <1>1, <1>3, <2>1 DEF Scanners, Kept
<1>4. CASE s.inPack /\ s.key \in TextFields /\ s.token = Long
    <2>1. ValueTaken(s) = [s EXCEPT !.failed = TRUE]
        BY <1>2, <1>4 DEF ValueTaken
    <2> QED BY <1>1, <1>4, <2>1 DEF Scanners, Kept
<1>5. CASE s.inPack /\ s.key \in TextFields /\ s.token # Long
    <2> DEFINE p == [s.pack EXCEPT ![s.key] = s.token]
    <2>1. ValueTaken(s) = [s EXCEPT !.pack = p]
        BY <1>2, <1>5 DEF ValueTaken
    <2>2. \A k \in Fields : p[k] = IF k = s.key THEN s.token ELSE s.pack[k]
        BY <1>5 DEF Scanners, PackRecords, Fields, TextFields
    <2> HIDE DEF p
    <2>3. /\ Flushed(s).pack = p /\ ~ Flushed(s).failed /\ ~ Flushed(s).pending
          /\ Kept(Flushed(s), s) /\ Flushed(s).depth = s.depth
        BY <1>1, <2>1 DEF Scanners, Kept
    <2> QED BY <1>1, <1>5, <2>2, <2>3
<1> QED BY <1>3, <1>4, <1>5

LEMMA NumberKept ==
    ASSUME NEW s \in Scanners, ~ s.failed, ~ s.pending, s.depth >= 3, NEW n \in Int
    PROVE  LET t == NumberTaken(s, n)
           IN  /\ t \in Scanners /\ ~ t.pending /\ Kept(t, s) /\ t.depth = s.depth
               /\ t.failed <=> s.inPack /\ n > MaxNumber
               /\ ~ t.failed =>
                    \A k \in Fields : t.pack[k] = IF s.inPack /\ s.key = "bytes" /\ k = "bytes"
                                                  THEN n ELSE s.pack[k]
<1>1. NumberTaken(s, n) \in Scanners
    BY NumberTakenScans
<1>2. s.depth # 1 /\ s.depth \in Nat
    BY DEF Scanners
<1>3. CASE n > MaxNumber
    <2>1. NumberTaken(s, n) = [s EXCEPT !.failed = s.inPack]
        BY <1>3 DEF NumberTaken
    <2> QED BY <1>1, <1>3, <2>1 DEF Scanners, Kept
<1>4. CASE ~ (n > MaxNumber) /\ s.inPack /\ s.key = "bytes"
    <2> DEFINE p == [s.pack EXCEPT !.bytes = n]
    <2>1. NumberTaken(s, n) = [s EXCEPT !.pack = p]
        BY <1>2, <1>4 DEF NumberTaken
    <2>2. \A k \in Fields : p[k] = IF k = "bytes" THEN n ELSE s.pack[k]
        BY DEF Scanners, PackRecords, Fields, TextFields
    <2> HIDE DEF p
    <2>3. LET t == NumberTaken(s, n)
          IN  t.pack = p /\ ~ t.failed /\ ~ t.pending /\ Kept(t, s) /\ t.depth = s.depth
        BY <2>1 DEF Scanners, Kept
    <2> QED BY <1>1, <1>4, <2>2, <2>3
<1>5. CASE ~ (n > MaxNumber) /\ ~ (s.inPack /\ s.key = "bytes")
    <2>1. NumberTaken(s, n) = s
        BY <1>2, <1>5 DEF NumberTaken
    <2> QED BY <1>5, <2>1 DEF Kept
<1> QED BY <1>3, <1>4, <1>5

LEMMA SettledIdle ==
    ASSUME NEW s \in Scanners, ~ s.pending
    PROVE  LET t == Settled(s)
           IN  /\ t \in Scanners /\ t.failed = s.failed /\ ~ t.pending
               /\ Kept(t, s) /\ t.depth = s.depth /\ t.pack = s.pack
<1>1. CASE s.failed
    BY <1>1 DEF Settled, Kept
<1>2. CASE ~ s.failed
    <2>1. Settled(s) = [s EXCEPT !.pending = FALSE, !.haveKey = FALSE]
        BY <1>2 DEF Settled, Flushed
    <2>2. Settled(s) \in Scanners
        BY <1>2, FlushedScans DEF Settled
    <2> QED BY <1>2, <2>1, <2>2 DEF Scanners, Kept
<1> QED BY <1>1, <1>2

LEMMA NumIsToken ==
    ASSUME NEW n \in Int
    PROVE  Num(n) \in Token
BY DEF Num, Token, TokenKinds, Texts, Literals

LEMMA PlainIsPlain ==
    ASSUME NEW f \in PlainFields
    PROVE  /\ f.key \in Texts /\ f.text \in Texts /\ f.number \in Nat /\ f.kind \in {"text", "number"}
           /\ f.inner = <<>> /\ \A j \in DOMAIN f.inner : FALSE
BY DEF PlainFields, Texts

LEMMA TakesPlain ==
    ASSUME NEW s, Reads(s), NEW f \in PlainFields, f.key # Long
    PROVE  Takes({s}, Plain(f), Before(AfterField(s, f)))
<1> DEFINE u == WithKey(s, f.key)
<1>1. s \in Scanners /\ ~ s.failed /\ ~ s.pending /\ s.depth >= 3
    BY DEF Reads
<1>2. /\ f.key \in Texts /\ f.text \in Texts /\ f.number \in Nat /\ f.kind \in {"text", "number"}
      /\ \A j \in DOMAIN f.inner : FALSE
    BY PlainIsPlain
<1>3. Takes({s}, <<Str(f.key), Mark(":")>>, {u}) /\ u \in Scanners
    BY <1>1, <1>2, TakesKey
<1>4. /\ ~ u.failed /\ ~ u.pending /\ u.depth = s.depth /\ u.key = f.key /\ u.pack = s.pack
      /\ Kept(u, s)
    BY <1>1 DEF WithKey, Scanners, Kept
<1>5. u.inPack = s.inPack
    BY <1>4 DEF Kept
<1> HIDE DEF u
<1>6. CASE f.kind = "text"
    <2> DEFINE h == WithText(u, f.text)
               t == Flushed(h)
    <2>1. Takes({u}, <<Str(f.text)>>, {h})
        BY <1>2, <1>3, <1>4, TakesText
    <2>2. /\ h \in Scanners /\ ~ h.failed /\ h.pending /\ h.depth = u.depth /\ h.key = f.key
          /\ h.pack = u.pack /\ h.token = f.text /\ Kept(h, u)
        BY <1>2, <1>3, <1>4 DEF WithText, Scanners, Kept
    <2>3. h.inPack = s.inPack /\ h.depth >= 3
        BY <1>1, <1>4, <1>5, <2>2 DEF Kept
    <2> HIDE DEF h
    <2>4. /\ t \in Scanners /\ ~ t.pending /\ Kept(t, h) /\ t.depth = h.depth
          /\ t.failed <=> h.inPack /\ h.key \in TextFields /\ h.token = Long
          /\ ~ t.failed =>
               \A k \in Fields : t.pack[k] = IF h.inPack /\ h.key \in TextFields /\ k = h.key
                                             THEN h.token ELSE h.pack[k]
        BY <2>2, <2>3, FlushedText
    <2> HIDE DEF t
    <2>5. Readable(f) <=> ~ (f.key \in TextFields /\ f.text = Long)
        BY <1>2, <1>6 DEF Readable, Fits
    <2>6. ASSUME NEW k \in Fields
          PROVE  Gives(f, k) <=> f.key \in TextFields /\ k = f.key
        BY <1>6 DEF Gives, KindOf, Fields, TextFields
    <2>7. ASSUME NEW k \in Fields, Gives(f, k)
          PROVE  Content(f, k) = f.text
        BY <1>6, <2>7 DEF Gives, KindOf, Content
    <2>8. Kept(t, s)
        BY <1>4, <2>2, <2>4, KeptOn
    <2>9. ASSUME ~ t.failed, s.inPack, NEW k \in Fields
          PROVE  t.pack[k] = IF Gives(f, k) THEN Content(f, k) ELSE s.pack[k]
        <3>1. t.pack[k] = IF f.key \in TextFields /\ k = f.key THEN f.text ELSE s.pack[k]
            BY <1>4, <2>2, <2>3, <2>4, <2>9
        <3> QED BY <2>6, <2>7, <3>1
    <2>10. t.depth = s.depth
        BY <1>4, <2>2, <2>4
    <2>11. t.failed <=> s.inPack /\ ~ Readable(f)
        BY <2>2, <2>3, <2>4, <2>5
    <2>12. t \in AfterField(s, f)
        BY <2>4, <2>8, <2>9, <2>10, <2>11 DEF AfterField
    <2>13. h \in Before(AfterField(s, f))
        <3>1. Settled(h) = t
            BY <2>2 DEF Settled, t
        <3> QED BY <2>2, <2>12, <3>1 DEF Before
    <2>14. Takes({s}, <<Str(f.key), Mark(":")>> \o <<Str(f.text)>>, {h})
        BY <1>3, <2>1, TakesConcat
    <2>15. Plain(f) = <<Str(f.key), Mark(":")>> \o <<Str(f.text)>>
        BY <1>6 DEF Plain, Tagged
    <2> QED BY <2>13, <2>14, <2>15, TakesWithin
<1>7. CASE f.kind = "number"
    <2> DEFINE h == NumberTaken(u, f.number)
               t == Settled(h)
    <2>0. u.depth >= 3 /\ f.number \in Int
        BY <1>1, <1>2, <1>4
    <2>1. /\ h \in Scanners /\ ~ h.pending /\ Kept(h, u) /\ h.depth = u.depth
          /\ h.failed <=> u.inPack /\ f.number > MaxNumber
          /\ ~ h.failed =>
               \A k \in Fields : h.pack[k] = IF u.inPack /\ u.key = "bytes" /\ k = "bytes"
                                             THEN f.number ELSE u.pack[k]
        BY <1>3, <1>4, <2>0, NumberKept
    <2>2. Takes({u}, <<Num(f.number)>>, {h})
        <3>1. Step(u, Num(f.number)) = h
            BY <1>4 DEF Step, Fed, Num
        <3>2. Num(f.number) \in Token
            BY <2>0, NumIsToken
        <3> HIDE DEF h
        <3> QED BY <1>3, <2>1, <3>1, <3>2, TakesToken
    <2> HIDE DEF h
    <2>3. /\ t \in Scanners /\ t.failed = h.failed /\ ~ t.pending
          /\ Kept(t, h) /\ t.depth = h.depth /\ t.pack = h.pack
        BY <2>1, SettledIdle
    <2> HIDE DEF t
    <2>4. Readable(f) <=> ~ (f.number > MaxNumber)
        <3>1. MaxNumber \in Int
            BY IndexNumbers
        <3> QED BY <1>2, <1>7, <3>1 DEF Readable, Fits
    <2>5. ASSUME NEW k \in Fields
          PROVE  /\ Gives(f, k) <=> f.key = "bytes" /\ k = "bytes"
                 /\ Gives(f, k) => Content(f, k) = f.number
        BY <1>7 DEF Gives, KindOf, Content, Fields, TextFields
    <2>6. Kept(t, s)
        BY <1>4, <2>1, <2>3, KeptOn
    <2>7. ASSUME ~ t.failed, s.inPack, NEW k \in Fields
          PROVE  t.pack[k] = IF Gives(f, k) THEN Content(f, k) ELSE s.pack[k]
        <3>1. t.pack[k] = IF f.key = "bytes" /\ k = "bytes" THEN f.number ELSE s.pack[k]
            BY <1>4, <1>5, <2>1, <2>3, <2>7
        <3> QED BY <2>5, <3>1
    <2>8. t.depth = s.depth
        BY <1>4, <2>1, <2>3
    <2>9. t.failed <=> s.inPack /\ ~ Readable(f)
        BY <1>5, <2>1, <2>3, <2>4
    <2>10. t \in AfterField(s, f)
        BY <2>3, <2>6, <2>7, <2>8, <2>9 DEF AfterField
    <2>11. h \in Before(AfterField(s, f))
        BY <2>1, <2>10 DEF Before, t
    <2>12. Takes({s}, <<Str(f.key), Mark(":")>> \o <<Num(f.number)>>, {h})
        BY <1>3, <2>2, TakesConcat
    <2>13. Plain(f) = <<Str(f.key), Mark(":")>> \o <<Num(f.number)>>
        BY <1>7 DEF Plain, Tagged
    <2> QED BY <2>11, <2>12, <2>13, TakesWithin
<1> QED BY <1>2, <1>6, <1>7

(* A row of fields, one after the other. *)
LEMMA TakesFields ==
    ASSUME NEW s, Reads(s), NEW fs, NEW parts, Len(parts) \in Nat, Len(fs) = Len(parts),
           \A i \in 1 .. Len(parts) : parts[i] \in Seq(Token),
           \A i \in 1 .. Len(parts), t \in Scanners :
              Reads(t) => Takes({t}, parts[i], Before(AfterField(t, fs[i])))
    PROVE  Takes({s}, Joined(parts), Before(AfterFields(s, fs, Len(parts))))
<1> DEFINE N == Len(parts)
           I == [n \in 0 .. N |-> AfterFields(s, fs, n)]
<1>0. s \in Scanners /\ ~ s.failed /\ ~ s.pending /\ s.depth >= 3 /\ s.depth \in Nat
    BY DEF Reads, Scanners
<1>1. I \in [0 .. N -> SUBSET Scanners]
    BY DEF AfterFields
<1>2. I[0] \subseteq Before(I[0])
    <2>1. 0 \in 0 .. N /\ I[0] = AfterFields(s, fs, 0)
        OBVIOUS
    <2>2. ASSUME NEW t \in AfterFields(s, fs, 0) PROVE Settled(t) \in AfterFields(s, fs, 0) /\ t \in Scanners
        <3>1. ~ t.failed /\ t \in Scanners
            BY DEF AfterFields
        <3>2. /\ ~ t.pending /\ Kept(t, s) /\ t.depth = s.depth
              /\ s.inPack => \A k \in Fields : Holds(k, s.pack[k], t.pack[k], fs, 0)
            BY <3>1, <2>2 DEF AfterFields
        <3> DEFINE u == Settled(t)
        <3>3. /\ u \in Scanners /\ ~ u.failed /\ ~ u.pending
              /\ Kept(u, t) /\ u.depth = t.depth /\ u.pack = t.pack
            BY <3>1, <3>2, SettledIdle
        <3> HIDE DEF u
        <3>4. Kept(u, s)
            BY <3>2, <3>3, KeptOn
        <3>5. u \in AfterFields(s, fs, 0)
            BY <3>2, <3>3, <3>4 DEF AfterFields
        <3> QED BY <3>1, <3>5 DEF u
    <2> QED BY <2>1, <2>2 DEF Before
<1>3. ASSUME NEW n \in 1 .. N PROVE Takes(I[n - 1], parts[n], Before(I[n]))
    <2>1. I[n - 1] = AfterFields(s, fs, n - 1) /\ I[n] = AfterFields(s, fs, n)
        OBVIOUS
    <2>2. ASSUME NEW t \in AfterFields(s, fs, n - 1)
          PROVE  Takes({t}, parts[n], Before(AfterFields(s, fs, n)))
        <3>1. CASE t.failed
            <4>1. t \in Scanners /\ s.inPack /\ \E i \in 1 .. n - 1 : ~ Readable(fs[i])
                BY <3>1 DEF AfterFields
            <4>2. \E i \in 1 .. n : ~ Readable(fs[i])
                BY <4>1
            <4>3. t \in AfterFields(s, fs, n)
                BY <3>1, <4>1, <4>2 DEF AfterFields
            <4>4. t \in Before(AfterFields(s, fs, n))
                BY <3>1, <4>1, <4>3 DEF Before, Settled
            <4>5. Takes({t}, parts[n], {t})
                BY <3>1, <4>1, FailedStays
            <4> QED BY <4>4, <4>5, TakesWithin
        <3>2. CASE ~ t.failed
            <4>1. /\ t \in Scanners /\ ~ t.pending /\ Kept(t, s) /\ t.depth = s.depth
                  /\ s.inPack => /\ \A i \in 1 .. n - 1 : Readable(fs[i])
                                 /\ \A k \in Fields : Holds(k, s.pack[k], t.pack[k], fs, n - 1)
                BY <3>2, <2>2 DEF AfterFields
            <4>2. Reads(t) /\ t.inPack = s.inPack
                BY <1>0, <3>2, <4>1 DEF Reads, Kept
            <4>3. Takes({t}, parts[n], Before(AfterField(t, fs[n])))
                BY <4>1, <4>2
            <4>4. ASSUME NEW u \in AfterField(t, fs[n]) PROVE u \in AfterFields(s, fs, n)
                <5>1. CASE u.failed
                    <6>1. u \in Scanners /\ t.inPack /\ ~ Readable(fs[n])
                        BY <5>1 DEF AfterField
                    <6>2. n \in 1 .. n
                        OBVIOUS
                    <6> QED BY <4>2, <5>1, <6>1, <6>2 DEF AfterFields
                <5>2. CASE ~ u.failed
                    <6>1. /\ u \in Scanners /\ ~ u.pending /\ Kept(u, t) /\ u.depth = t.depth
                          /\ t.inPack => /\ Readable(fs[n])
                                         /\ \A k \in Fields : u.pack[k] = IF Gives(fs[n], k) THEN Content(fs[n], k)
                                                                          ELSE t.pack[k]
                        BY <5>2, <4>4 DEF AfterField
                    <6>2. ASSUME s.inPack PROVE \A i \in 1 .. n : Readable(fs[i])
                        <7>1. \A i \in 1 .. n : i = n \/ i \in 1 .. n - 1
                            OBVIOUS
                        <7> QED BY <4>1, <4>2, <6>1, <6>2, <7>1
                    <6>3. ASSUME s.inPack, NEW k \in Fields PROVE Holds(k, s.pack[k], u.pack[k], fs, n)
                        <7> DEFINE old == s.pack[k]
                                   mid == t.pack[k]
                                   new == u.pack[k]
                        <7>1. Holds(k, old, mid, fs, n - 1)
                            BY <4>1, <6>3
                        <7>2. new = IF Gives(fs[n], k) THEN Content(fs[n], k) ELSE mid
                            BY <4>2, <6>1, <6>3
                        <7> HIDE DEF old, mid, new
                        <7>3. CASE Gives(fs[n], k)
                            <8>1. n \in 1 .. n /\ \A j \in n + 1 .. n : FALSE
                                OBVIOUS
                            <8>2. Holds(k, old, new, fs, n)
                                BY <7>2, <7>3, <8>1 DEF Holds
                            <8> QED BY <8>2 DEF old, new
                        <7>4. CASE ~ Gives(fs[n], k)
                            <8>1. \A i \in 1 .. n : i = n \/ i \in 1 .. n - 1
                                OBVIOUS
                            <8>2. new = mid
                                BY <7>2, <7>4
                            <8>3. CASE mid = old /\ \A i \in 1 .. n - 1 : ~ Gives(fs[i], k)
                                <9>1. \A i \in 1 .. n : ~ Gives(fs[i], k)
                                    BY <7>4, <8>1, <8>3
                                <9> QED BY <8>2, <8>3, <9>1 DEF Holds, old, new
                            <8>4. ASSUME NEW i \in 1 .. n - 1, Gives(fs[i], k), mid = Content(fs[i], k),
                                         \A j \in i + 1 .. n - 1 : ~ Gives(fs[j], k)
                                  PROVE  Holds(k, old, new, fs, n)
                                <9>1. i \in 1 .. n
                                    OBVIOUS
                                <9>2. \A j \in i + 1 .. n : j = n \/ j \in i + 1 .. n - 1
                                    OBVIOUS
                                <9>3. \A j \in i + 1 .. n : ~ Gives(fs[j], k)
                                    BY <7>4, <8>4, <9>2
                                <9> QED BY <8>2, <8>4, <9>1, <9>3 DEF Holds
                            <8> QED BY <7>1, <8>3, <8>4 DEF Holds, old, new
                        <7> QED BY <7>3, <7>4
                    <6>4. Kept(u, s) /\ u.depth = s.depth
                        BY <4>1, <6>1, KeptOn
                    <6> QED BY <5>2, <6>1, <6>2, <6>3, <6>4 DEF AfterFields
                <5> QED BY <5>1, <5>2
            <4>5. Before(AfterField(t, fs[n])) \subseteq Before(AfterFields(s, fs, n))
                BY <4>4 DEF Before
            <4> QED BY <4>3, <4>5, TakesWithin
        <3> QED BY <3>1, <3>2
    <2>3. Takes(AfterFields(s, fs, n - 1), parts[n], Before(AfterFields(s, fs, n)))
        BY <2>2, TakesEach
    <2> QED BY <2>1, <2>3
<1>4. s \in I[0]
    <2>1. \A k : Holds(k, s.pack[k], s.pack[k], fs, 0)
        <3>1. \A i \in 1 .. 0 : FALSE
            OBVIOUS
        <3> QED BY <3>1 DEF Holds
    <2>2. \A i \in 1 .. 0 : Readable(fs[i])
        OBVIOUS
    <2>3. s \in AfterFields(s, fs, 0)
        BY <1>0, <2>1, <2>2 DEF AfterFields, Kept
    <2> QED BY <2>3
<1>5. Takes(I[0], Joined(parts), Before(I[N]))
    <2> HIDE DEF I
    <2> QED BY <1>1, <1>2, <1>3, TakesJoined
<1>6. I[N] = AfterFields(s, fs, N)
    OBVIOUS
<1> HIDE DEF I
<1> QED BY <1>4, <1>5, <1>6, TakesWithin

(* Inside a value of the entry, d levels down from the row of s. *)
Deep(s, d, bad, good) ==
    {t \in Scanners :
        IF t.failed THEN bad
        ELSE /\ good /\ ~ t.pending /\ Kept(t, s) /\ t.depth = s.depth + d
             /\ s.inPack => \A k \in Fields : t.pack[k] = s.pack[k]}

LEMMA DeepSettled ==
    ASSUME NEW s, NEW d, NEW bad, NEW good
    PROVE  Deep(s, d, bad, good) \subseteq Before(Deep(s, d, bad, good))
<1>1. ASSUME NEW t \in Deep(s, d, bad, good) PROVE Settled(t) \in Deep(s, d, bad, good) /\ t \in Scanners
    <2>1. t \in Scanners
        BY DEF Deep
    <2>2. CASE t.failed
        BY <2>1, <2>2 DEF Settled
    <2>3. CASE ~ t.failed
        <3>1. /\ good /\ ~ t.pending /\ Kept(t, s) /\ t.depth = s.depth + d
              /\ s.inPack => \A k \in Fields : t.pack[k] = s.pack[k]
            BY <1>1, <2>3 DEF Deep
        <3> DEFINE u == Settled(t)
        <3>2. /\ u \in Scanners /\ ~ u.failed /\ ~ u.pending
              /\ Kept(u, t) /\ u.depth = t.depth /\ u.pack = t.pack
            BY <2>1, <2>3, <3>1, SettledIdle
        <3> HIDE DEF u
        <3>3. Kept(u, s)
            BY <3>1, <3>2, KeptOn
        <3>4. u \in Deep(s, d, bad, good)
            BY <3>1, <3>2, <3>3 DEF Deep
        <3> QED BY <2>1, <3>4 DEF u
    <2> QED BY <2>2, <2>3
<1> QED BY <1>1 DEF Before

LEMMA DeepKey ==
    ASSUME NEW s, NEW d, NEW bad, NEW good, NEW k \in Texts
    PROVE  Takes(Deep(s, d, bad, good), <<Str(k), Mark(":")>>, Deep(s, d, bad, good))
<1>1. ASSUME NEW t \in Deep(s, d, bad, good)
      PROVE  Takes({t}, <<Str(k), Mark(":")>>, Deep(s, d, bad, good))
    <2>1. t \in Scanners
        BY DEF Deep
    <2>2. CASE t.failed
        <3>1. Takes({t}, <<Str(k), Mark(":")>>, {t})
            BY <2>1, <2>2, FailedStays, StrIsToken
        <3> QED BY <3>1, TakesWithin
    <2>3. CASE ~ t.failed
        <3> DEFINE u == WithKey(t, k)
        <3>1. Takes({t}, <<Str(k), Mark(":")>>, {u}) /\ u \in Scanners
            BY <2>1, <2>3, TakesKey
        <3>2. ~ u.failed /\ ~ u.pending /\ Kept(u, t) /\ u.depth = t.depth /\ u.pack = t.pack
            BY <2>1, <2>3 DEF WithKey, Scanners, Kept
        <3> HIDE DEF u
        <3>3. /\ good /\ Kept(t, s) /\ t.depth = s.depth + d
              /\ s.inPack => \A x \in Fields : t.pack[x] = s.pack[x]
            BY <1>1, <2>3 DEF Deep
        <3>4. Kept(u, s)
            BY <3>2, <3>3, KeptOn
        <3>5. u \in Deep(s, d, bad, good)
            BY <3>1, <3>2, <3>3, <3>4 DEF Deep
        <3> QED BY <3>1, <3>5, TakesWithin
    <2> QED BY <2>2, <2>3
<1> QED BY <1>1, StrIsToken, TakesEach

OpenMarks == {"{", "["}
CloseMarks == {"}", "]"}

(* Opening and closing below the row changes the level alone. *)
LEMMA DeepOpen ==
    ASSUME NEW s \in Scanners, s.depth >= 3, NEW d \in Nat, NEW bad, NEW good, NEW o \in OpenMarks
    PROVE  Takes(Deep(s, d, bad, good), <<Mark(o)>>, Deep(s, d + 1, bad, good))
<1>0. Mark(o) \in Token /\ s.depth \in Nat
    BY MarkIsToken DEF TokenKinds, OpenMarks, CloseMarks, Scanners
<1>1. ASSUME NEW t \in Deep(s, d, bad, good)
      PROVE  Step(t, Mark(o)) \in Deep(s, d + 1, bad, good)
    <2>1. t \in Scanners
        BY DEF Deep
    <2>2. CASE t.failed
        <3>1. Step(t, Mark(o)) = t
            BY <2>2 DEF Step
        <3>2. t \in Deep(s, d + 1, bad, good)
            BY <1>1, <2>1, <2>2 DEF Deep
        <3> QED BY <3>1, <3>2
    <2>3. CASE ~ t.failed
        <3>1. /\ good /\ ~ t.pending /\ Kept(t, s) /\ t.depth = s.depth + d
              /\ s.inPack => \A k \in Fields : t.pack[k] = s.pack[k]
            BY <1>1, <2>3 DEF Deep
        <3> DEFINE u == Settled(t)
                   key == IF t.haveKey /\ ~ t.pending THEN t.key ELSE ""
                   v == [u EXCEPT !.depth = u.depth + 1]
        <3>2. /\ u \in Scanners /\ ~ u.failed /\ ~ u.pending
              /\ Kept(u, t) /\ u.depth = t.depth /\ u.pack = t.pack
            BY <2>1, <2>3, <3>1, SettledIdle
        <3>a. u = Flushed(t)
            BY <2>3 DEF Settled
        <3>3. Step(t, Mark(o)) = IF u.failed THEN u ELSE Opened(u, o, key)
            BY <2>3, <3>a DEF Step, Fed, Mark, OpenMarks
        <3> HIDE DEF u, key
        <3>4. u.depth + 1 # 2 /\ u.depth + 1 # 3 /\ u.depth + 1 \in Nat
            BY <1>0, <3>1, <3>2
        <3>5. Opened(u, o, key) = v
            BY <3>4 DEF Opened, OpensPack, PacksDepth
        <3>6. /\ v \in Scanners /\ ~ v.failed /\ ~ v.pending /\ Kept(v, u)
              /\ v.depth = u.depth + 1 /\ v.pack = u.pack
            BY <3>2, <3>4 DEF Scanners, Kept
        <3> HIDE DEF v
        <3>7. Kept(v, s)
            BY <3>1, <3>2, <3>6, KeptOn
        <3>8. v.depth = s.depth + (d + 1)
            BY <1>0, <3>1, <3>2, <3>6
        <3>9. v \in Deep(s, d + 1, bad, good)
            BY <3>1, <3>2, <3>6, <3>7, <3>8 DEF Deep
        <3> QED BY <3>2, <3>3, <3>5, <3>9
    <2> QED BY <2>2, <2>3
<1>2. Deep(s, d, bad, good) \subseteq Scanners /\ Deep(s, d + 1, bad, good) \subseteq Scanners
    BY DEF Deep
<1> QED BY <1>0, <1>1, <1>2, TakesToken

(* A closing bracket is read after what stood before it. *)
LEMMA StepCloses ==
    ASSUME NEW s \in Scanners, NEW c \in CloseMarks
    PROVE  Step(s, Mark(c)) = IF Settled(s).failed THEN Settled(s) ELSE Closed(Settled(s), c)
<1>1. CASE s.failed
    BY <1>1 DEF Step, Settled
<1>2. CASE ~ s.failed
    BY <1>2 DEF Step, Settled, Fed, Mark, CloseMarks
<1> QED BY <1>1, <1>2

LEMMA DeepClose ==
    ASSUME NEW s \in Scanners, s.depth >= 3, NEW d \in Nat, NEW bad, NEW good, NEW c \in CloseMarks
    PROVE  Takes(Before(Deep(s, d + 1, bad, good)), <<Mark(c)>>, Deep(s, d, bad, good))
<1>0. Mark(c) \in Token /\ s.depth \in Nat
    BY MarkIsToken DEF TokenKinds, OpenMarks, CloseMarks, Scanners
<1>1. ASSUME NEW h \in Before(Deep(s, d + 1, bad, good))
      PROVE  Step(h, Mark(c)) \in Deep(s, d, bad, good)
    <2> DEFINE u == Settled(h)
               v == [u EXCEPT !.depth = u.depth - 1]
    <2>1. h \in Scanners /\ u \in Deep(s, d + 1, bad, good)
        BY DEF Before
    <2>2. Step(h, Mark(c)) = IF u.failed THEN u ELSE Closed(u, c)
        BY <2>1, StepCloses
    <2> HIDE DEF u
    <2>3. u \in Scanners
        BY <2>1 DEF Deep
    <2>4. CASE u.failed
        <3>1. u \in Deep(s, d, bad, good)
            BY <2>1, <2>3, <2>4 DEF Deep
        <3> QED BY <2>2, <2>4, <3>1
    <2>5. CASE ~ u.failed
        <3>1. /\ good /\ ~ u.pending /\ Kept(u, s) /\ u.depth = s.depth + (d + 1)
              /\ s.inPack => \A k \in Fields : u.pack[k] = s.pack[k]
            BY <2>1, <2>5 DEF Deep
        <3>2. u.depth > 0 /\ u.depth - 1 \in Nat /\ u.depth - 1 # 2 /\ u.depth - 1 # 1
              /\ u.depth - 1 = s.depth + d
            BY <1>0, <3>1
        <3>3. Closed(u, c) = v
            <4>1. ~ ClosesPack(u, u.depth - 1)
                BY <3>2 DEF ClosesPack, PacksDepth
            <4>2. u.depth - 1 # PacksDepth - 1
                BY <3>2 DEF PacksDepth
            <4> QED BY <3>2, <4>1, <4>2 DEF Closed
        <3>4. /\ v \in Scanners /\ ~ v.failed /\ ~ v.pending /\ Kept(v, u)
              /\ v.depth = u.depth - 1 /\ v.pack = u.pack
            BY <2>3, <2>5, <3>1, <3>2 DEF Scanners, Kept
        <3> HIDE DEF v
        <3>5. Kept(v, s)
            BY <3>1, <3>4, KeptOn
        <3>6. v \in Deep(s, d, bad, good)
            BY <3>1, <3>2, <3>4, <3>5 DEF Deep
        <3> QED BY <2>2, <2>5, <3>3, <3>6
    <2> QED BY <2>4, <2>5
<1>2. Before(Deep(s, d + 1, bad, good)) \subseteq Scanners /\ Deep(s, d, bad, good) \subseteq Scanners
    BY DEF Deep, Before
<1> QED BY <1>0, <1>1, <1>2, TakesToken

LEMMA JoinedOne ==
    ASSUME NEW x
    PROVE  Joined(<<x>>) = x
<1> DEFINE parts == <<x>>
<1>1. Len(parts) = 1 /\ parts[1] = x
    OBVIOUS
<1> HIDE DEF parts
<1>2. Len(parts) \in Nat /\ Len(parts) > 0
    BY <1>1
<1>3. PICK f : /\ Len(parts) > 0 => f[1] = parts[1]
               /\ Joined(parts) = f[Len(parts)]
    BY <1>2, JoinedSteps, Zenon
<1>4. Joined(parts) = x
    BY <1>1, <1>2, <1>3, Zenon
<1> QED BY <1>4 DEF parts

LEMMA TakesTagged ==
    ASSUME NEW A, NEW B, NEW C, NEW k, NEW value,
           Takes(A, <<Str(k), Mark(":")>>, B), Takes(B, value, C)
    PROVE  Takes(A, Tagged(k, value), C)
BY TakesConcat DEF Tagged

LEMMA PlainNests ==
    ASSUME NEW f \in PlainFields
    PROVE  Nests(Plain(f), 0, -1, 0)
<1>1. f \in PlainFields \cup NestedFields /\ f.kind # "nested"
    <2>1. f.kind \in {"text", "number"}
        BY PlainIsPlain
    <2> QED BY <2>1
<1>2. 0 \in Nat /\ -1 \in Int
    OBVIOUS
<1> QED BY <1>1, <1>2, NestsPlain

(* The fields of the objects a nested value holds. *)
LEMMA TakesInner ==
    ASSUME NEW s, Reads(s), NEW f \in NestedFields,
           \A j \in DOMAIN f.inner : f.inner[j].key \notin Fields \cup {Long}
    PROVE  Takes(Deep(s, 3, FALSE, TRUE), Joined([i \in DOMAIN f.inner |-> Plain(f.inner[i])]),
                 Before(Deep(s, 3, s.inPack /\ ~ Readable(f), s.inPack => Readable(f))))
<1> DEFINE fs == f.inner
           parts == [i \in DOMAIN fs |-> Plain(fs[i])]
           N == Len(parts)
           bad == s.inPack /\ ~ Readable(f)
           good == s.inPack => Readable(f)
<1>0. s \in Scanners /\ ~ s.failed /\ ~ s.pending /\ s.depth >= 3 /\ s.depth \in Nat
    BY DEF Reads, Scanners
<1>1. fs \in Seq(PlainFields) /\ f.kind = "nested"
    BY DEF NestedFields
<1>2. Len(fs) \in Nat /\ DOMAIN fs = 1 .. Len(fs) /\ \A i \in 1 .. Len(fs) : fs[i] \in PlainFields
    BY <1>1, LenProperties, ElementOfSeq
<1>a. \A j \in 1 .. Len(fs) : fs[j].key \notin Fields \cup {Long}
    BY <1>2
<1>b. Readable(f) <=> \A j \in 1 .. Len(fs) : Fits(fs[j])
    BY <1>1, <1>2 DEF Readable, Fits
<1> HIDE DEF fs
<1>3. N = Len(fs) /\ N \in Nat /\ \A i \in 1 .. N : parts[i] = Plain(fs[i])
    BY <1>2
<1> HIDE DEF parts, N
<1>4. ASSUME NEW i \in 1 .. N
      PROVE  /\ fs[i] \in PlainFields /\ fs[i].key # Long
             /\ Readable(fs[i]) <=> Fits(fs[i])
             /\ \A k \in Fields : ~ Gives(fs[i], k)
             /\ parts[i] \in Seq(Token)
    <2>1. fs[i] \in PlainFields /\ fs[i].key # Long /\ fs[i].key \notin Fields
        BY <1>2, <1>3, <1>a
    <2>2. Readable(fs[i]) <=> Fits(fs[i])
        <3>1. \A j \in DOMAIN fs[i].inner : FALSE
            BY <2>1, PlainIsPlain
        <3> QED BY <2>1, <3>1 DEF Readable, Fields
    <2>3. \A k \in Fields : ~ Gives(fs[i], k)
        BY <2>1 DEF Gives
    <2>4. parts[i] \in Seq(Token)
        <3>1. Nests(Plain(fs[i]), 0, -1, 0)
            BY <2>1, PlainNests
        <3> QED BY <1>3, <3>1 DEF Nests
    <2> QED BY <2>1, <2>2, <2>3, <2>4
<1>5. ASSUME NEW t \in Deep(s, 3, FALSE, TRUE)
      PROVE  Takes({t}, Joined(parts), Before(Deep(s, 3, bad, good)))
    <2>1. /\ t \in Scanners /\ ~ t.failed /\ ~ t.pending /\ Kept(t, s) /\ t.depth = s.depth + 3
          /\ s.inPack => \A k \in Fields : t.pack[k] = s.pack[k]
        BY <1>5 DEF Deep
    <2>2. Reads(t) /\ t.inPack = s.inPack
        BY <1>0, <2>1 DEF Reads, Kept
    <2>3. Takes({t}, Joined(parts), Before(AfterFields(t, fs, N)))
        <3>1. \A i \in 1 .. N, u \in Scanners :
                 Reads(u) => Takes({u}, parts[i], Before(AfterField(u, fs[i])))
            BY <1>3, <1>4, TakesPlain
        <3>2. N = Len(parts)
            BY DEF N
        <3> QED BY <1>3, <1>4, <2>2, <3>1, <3>2, TakesFields
    <2>4. ASSUME NEW u \in AfterFields(t, fs, N) PROVE u \in Deep(s, 3, bad, good)
        <3>1. CASE u.failed
            <4>1. u \in Scanners /\ t.inPack /\ \E i \in 1 .. N : ~ Readable(fs[i])
                BY <2>4, <3>1 DEF AfterFields
            <4>2. ~ Readable(f)
                BY <1>3, <1>4, <1>b, <4>1
            <4> QED BY <2>2, <3>1, <4>1, <4>2 DEF Deep
        <3>2. CASE ~ u.failed
            <4>1. /\ u \in Scanners /\ ~ u.pending /\ Kept(u, t) /\ u.depth = t.depth
                  /\ t.inPack => /\ \A i \in 1 .. N : Readable(fs[i])
                                 /\ \A k \in Fields : Holds(k, t.pack[k], u.pack[k], fs, N)
                BY <2>4, <3>2 DEF AfterFields
            <4>2. good
                <5>1. s.inPack => \A i \in 1 .. N : Fits(fs[i])
                    BY <1>4, <2>2, <4>1
                <5> QED BY <1>3, <1>b, <5>1
            <4>3. ASSUME s.inPack, NEW k \in Fields PROVE u.pack[k] = s.pack[k]
                <5>1. Holds(k, t.pack[k], u.pack[k], fs, N)
                    BY <2>2, <4>1, <4>3
                <5>2. u.pack[k] = t.pack[k]
                    BY <1>4, <5>1 DEF Holds
                <5> QED BY <2>1, <4>3, <5>2
            <4>4. Kept(u, s) /\ u.depth = s.depth + 3
                BY <2>1, <4>1, KeptOn
            <4> HIDE DEF good, bad
            <4> QED BY <3>2, <4>1, <4>2, <4>3, <4>4 DEF Deep
        <3> QED BY <3>1, <3>2
    <2>5. Before(AfterFields(t, fs, N)) \subseteq Before(Deep(s, 3, bad, good))
        BY <2>4 DEF Before
    <2> QED BY <2>3, <2>5, TakesWithin
<1>6. Joined(parts) \in Seq(Token)
    <2>1. \A i \in 1 .. Len(parts) : Nests(parts[i], 0, -1, 0)
        BY <1>3, <1>4, PlainNests DEF N
    <2>2. Len(parts) \in Nat /\ 0 \in Nat /\ -1 \in Int /\ 0 \in {0, 1}
        BY <1>3 DEF N
    <2>3. Nests(Joined(parts), 0, -1, IF 0 = 0 THEN 0 ELSE Len(parts))
        BY <2>1, <2>2, NestsJoined
    <2> QED BY <2>3 DEF Nests
<1>7. Takes(Deep(s, 3, FALSE, TRUE), Joined(parts), Before(Deep(s, 3, bad, good)))
    BY <1>5, <1>6, TakesEach
<1> QED BY <1>7 DEF parts, fs

LEMMA TakesNested ==
    ASSUME NEW s, Reads(s), NEW f \in NestedFields,
           \A j \in DOMAIN f.inner : f.inner[j].key \notin Fields \cup {Long}
    PROVE  Takes({s}, FieldTokens(f), Before(AfterField(s, f)))
<1> DEFINE bad == s.inPack /\ ~ Readable(f)
           good == s.inPack => Readable(f)
           rows == Joined([i \in DOMAIN f.inner |-> Plain(f.inner[i])])
           object == <<Mark("{")>> \o rows \o <<Mark("}")>>
           array == <<Mark("[")>> \o object \o <<Mark("]")>>
           list == Tagged("list", array)
           value == <<Mark("{")>> \o list \o <<Mark("}")>>
<1>0. s \in Scanners /\ ~ s.failed /\ ~ s.pending /\ s.depth >= 3 /\ s.depth \in Nat
    BY DEF Reads, Scanners
<1>1. f.key \in Texts /\ f.kind = "nested" /\ "list" \in Texts
    BY DEF NestedFields, Texts, Literals
<1>2. FieldTokens(f) = Tagged(f.key, value)
    <2>1. array = Array(<<object>>) /\ value = Object(<<list>>)
        BY JoinedOne DEF Array, Object
    <2>2. object = Object([i \in DOMAIN f.inner |-> Plain(f.inner[i])])
        BY DEF Object
    <2> QED BY <1>1, <2>1, <2>2 DEF FieldTokens
<1>3. s \in Deep(s, 0, FALSE, TRUE)
    BY <1>0 DEF Deep, Kept
<1>4. Takes(Deep(s, 3, FALSE, TRUE), rows, Before(Deep(s, 3, bad, good)))
    BY TakesInner
<1> HIDE DEF rows, bad, good
<1>n. 0 + 1 = 1 /\ 1 + 1 = 2 /\ 2 + 1 = 3 /\ 0 \in Nat /\ 1 \in Nat /\ 2 \in Nat
    OBVIOUS
<1>m. "{" \in OpenMarks /\ "[" \in OpenMarks /\ "}" \in CloseMarks /\ "]" \in CloseMarks
    BY DEF OpenMarks, CloseMarks
<1>5. Takes(Deep(s, 2, FALSE, TRUE), object, Deep(s, 2, bad, good))
    <2>1. Takes(Deep(s, 2, FALSE, TRUE), <<Mark("{")>>, Deep(s, 2 + 1, FALSE, TRUE))
        BY <1>0, <1>m, <1>n, DeepOpen
    <2>2. Takes(Before(Deep(s, 2 + 1, bad, good)), <<Mark("}")>>, Deep(s, 2, bad, good))
        BY <1>0, <1>m, <1>n, DeepClose
    <2> QED BY <1>n, <1>4, <2>1, <2>2, TakesWrapped
<1> HIDE DEF object
<1>6. Takes(Deep(s, 1, FALSE, TRUE), array, Deep(s, 1, bad, good))
    <2>1. Takes(Deep(s, 1, FALSE, TRUE), <<Mark("[")>>, Deep(s, 1 + 1, FALSE, TRUE))
        BY <1>0, <1>m, <1>n, DeepOpen
    <2>2. Takes(Before(Deep(s, 1 + 1, bad, good)), <<Mark("]")>>, Deep(s, 1, bad, good))
        BY <1>0, <1>m, <1>n, DeepClose
    <2>3. Takes(Deep(s, 2, FALSE, TRUE), object, Before(Deep(s, 2, bad, good)))
        BY <1>5, DeepSettled, TakesWithin
    <2> QED BY <1>n, <2>1, <2>2, <2>3, TakesWrapped
<1> HIDE DEF array
<1>7. Takes(Deep(s, 1, FALSE, TRUE), list, Before(Deep(s, 1, bad, good)))
    <2>1. Takes(Deep(s, 1, FALSE, TRUE), <<Str("list"), Mark(":")>>, Deep(s, 1, FALSE, TRUE))
        BY <1>1, DeepKey
    <2>2. Takes(Deep(s, 1, FALSE, TRUE), list, Deep(s, 1, bad, good))
        BY <1>6, <2>1, TakesTagged
    <2> QED BY <2>2, DeepSettled, TakesWithin
<1> HIDE DEF list
<1>8. Takes(Deep(s, 0, FALSE, TRUE), value, Deep(s, 0, bad, good))
    <2>1. Takes(Deep(s, 0, FALSE, TRUE), <<Mark("{")>>, Deep(s, 0 + 1, FALSE, TRUE))
        BY <1>0, <1>m, <1>n, DeepOpen
    <2>2. Takes(Before(Deep(s, 0 + 1, bad, good)), <<Mark("}")>>, Deep(s, 0, bad, good))
        BY <1>0, <1>m, <1>n, DeepClose
    <2> QED BY <1>n, <1>7, <2>1, <2>2, TakesWrapped
<1> HIDE DEF value
<1>9. Takes(Deep(s, 0, FALSE, TRUE), FieldTokens(f), Deep(s, 0, bad, good))
    BY <1>1, <1>2, <1>8, DeepKey, TakesTagged
<1>10. ASSUME NEW t \in Deep(s, 0, bad, good) PROVE t \in AfterField(s, f)
    <2>1. CASE t.failed
        BY <1>10, <2>1 DEF Deep, AfterField, bad
    <2>2. CASE ~ t.failed
        <3>1. /\ good /\ t \in Scanners /\ ~ t.pending /\ Kept(t, s) /\ t.depth = s.depth + 0
              /\ s.inPack => \A k \in Fields : t.pack[k] = s.pack[k]
            BY <1>10, <2>2 DEF Deep
        <3>2. \A k \in Fields : ~ Gives(f, k)
            BY <1>1 DEF Gives, KindOf
        <3>3. t.depth = s.depth
            BY <1>0, <3>1
        <3> QED BY <2>2, <3>1, <3>2, <3>3 DEF AfterField, good
    <2> QED BY <2>1, <2>2
<1>11. Deep(s, 0, bad, good) \subseteq Before(AfterField(s, f))
    BY <1>10, DeepSettled DEF Before
<1>12. {s} \subseteq Deep(s, 0, FALSE, TRUE)
    BY <1>3
<1> QED BY <1>9, <1>11, <1>12, TakesWithin

------------------------------------------------------------------------------
(* An entry. *)

LEMMA EntryRows ==
    ASSUME NEW e \in Entries
    PROVE  /\ Len(e) \in Nat /\ DOMAIN e = 1 .. Len(e)
           /\ \A i \in 1 .. Len(e) : e[i] \in PlainFields \cup NestedFields
<1>1. e \in Seq(PlainFields \cup NestedFields)
    <2>1. Entries \subseteq Seq(PlainFields \cup NestedFields)
        BY IndexAssumption, Zenon
    <2> QED BY <2>1
<1> QED BY <1>1, LenProperties, ElementOfSeq

LEMMA TakesField ==
    ASSUME NEW s, Reads(s), NEW f \in PlainFields \cup NestedFields, f.key # Long,
           \A j \in DOMAIN f.inner : f.inner[j].key \notin Fields \cup {Long}
    PROVE  Takes({s}, FieldTokens(f), Before(AfterField(s, f)))
<1>1. CASE f \in PlainFields
    <2>1. FieldTokens(f) = Plain(f)
        <3>1. f.kind \in {"text", "number"}
            BY <1>1, PlainIsPlain
        <3> QED BY <3>1 DEF FieldTokens
    <2> QED BY <1>1, <2>1, TakesPlain
<1>2. CASE f \in NestedFields
    BY <1>2, TakesNested
<1> QED BY <1>1, <1>2

LEMMA TakesRow ==
    ASSUME NEW s, Reads(s), NEW e \in Entries, Published(e)
    PROVE  Takes({s}, Joined([i \in DOMAIN e |-> FieldTokens(e[i])]), Before(AfterFields(s, e, Len(e))))
<1> DEFINE parts == [i \in DOMAIN e |-> FieldTokens(e[i])]
<1>1. /\ Len(e) \in Nat /\ DOMAIN e = 1 .. Len(e)
      /\ \A i \in 1 .. Len(e) : e[i] \in PlainFields \cup NestedFields
    BY EntryRows
<1>2. Len(parts) = Len(e) /\ \A i \in 1 .. Len(parts) : parts[i] = FieldTokens(e[i])
    BY <1>1
<1> HIDE DEF parts
<1>3. ASSUME NEW i \in 1 .. Len(parts) PROVE parts[i] \in Seq(Token)
    <2>1. e[i] \in PlainFields \cup NestedFields
        BY <1>1, <1>2
    <2>2. Nests(FieldTokens(e[i]), 3, -1, 0)
        BY <2>1, NestsField
    <2> QED BY <1>2, <2>2 DEF Nests
<1>4. ASSUME NEW i \in 1 .. Len(parts), NEW t \in Scanners, Reads(t)
      PROVE  Takes({t}, parts[i], Before(AfterField(t, e[i])))
    <2>1. /\ e[i] \in PlainFields \cup NestedFields /\ e[i].key # Long
          /\ \A j \in DOMAIN e[i].inner : e[i].inner[j].key \notin Fields \cup {Long}
        BY <1>1, <1>2 DEF Published
    <2>2. Takes({t}, FieldTokens(e[i]), Before(AfterField(t, e[i])))
        BY <1>4, <2>1, TakesField
    <2> QED BY <1>2, <2>2
<1>5. Takes({s}, Joined(parts), Before(AfterFields(s, e, Len(parts))))
    <2>1. Len(parts) \in Nat /\ Len(e) = Len(parts)
        BY <1>1, <1>2
    <2> QED BY <1>3, <1>4, <2>1, TakesFields
<1> QED BY <1>2, <1>5 DEF parts

(* The last field of a name is the one that is kept. *)
LEMMA ValueHolds ==
    ASSUME NEW e \in Entries, NEW k \in Fields, NEW v, Holds(k, NoPack[k], v, e, Len(e))
    PROVE  v = Value(e, k)
<1> DEFINE at == {i \in DOMAIN e : Gives(e[i], k)}
           last == CHOOSE i \in at : \A j \in at : j <= i
<1>1. Len(e) \in Nat /\ DOMAIN e = 1 .. Len(e)
    BY EntryRows
<1>2. Value(e, k) = IF at = {} THEN NoPack[k] ELSE Content(e[last], k)
    BY Zenon DEF Value
<1>3. CASE v = NoPack[k] /\ \A i \in 1 .. Len(e) : ~ Gives(e[i], k)
    <2>1. at = {}
        BY <1>1, <1>3
    <2> QED BY <1>2, <1>3, <2>1
<1>4. ASSUME NEW i \in 1 .. Len(e), Gives(e[i], k), v = Content(e[i], k),
             \A j \in i + 1 .. Len(e) : ~ Gives(e[j], k)
      PROVE  v = Value(e, k)
    <2>1. i \in at /\ at \subseteq 1 .. Len(e)
        BY <1>1, <1>4
    <2>2. \A j \in at : j <= i
        <3>1. ASSUME NEW j \in at, ~ (j <= i) PROVE FALSE
            <4>1. Gives(e[j], k) /\ j \in 1 .. Len(e)
                BY <1>1
            <4>2. j \in i + 1 .. Len(e)
                BY <1>1, <3>1, <4>1
            <4> QED BY <1>4, <4>1, <4>2
        <3> QED BY <3>1
    <2> HIDE DEF at
    <2>3. last \in at /\ \A j \in at : j <= last
        BY <2>1, <2>2, Zenon
    <2> HIDE DEF last
    <2>4. last = i
        <3>1. last <= i /\ i <= last /\ last \in 1 .. Len(e)
            BY <2>1, <2>2, <2>3
        <3> QED BY <3>1
    <2> QED BY <1>2, <1>4, <2>1, <2>4
<1> QED BY <1>3, <1>4 DEF Holds

LEMMA PackFields ==
    ASSUME NEW p \in PackRecords, NEW e \in Entries, \A k \in Fields : Holds(k, NoPack[k], p[k], e, Len(e))
    PROVE  p = AsPack(e)
<1>1. \A k \in Fields : p[k] = Value(e, k)
    BY ValueHolds
<1>2. p["id"] = Value(e, "id") /\ p["name"] = Value(e, "name") /\ p["url"] = Value(e, "url")
      /\ p["sha256"] = Value(e, "sha256") /\ p["bytes"] = Value(e, "bytes")
    BY <1>1 DEF Fields, TextFields
<1>3. p = [id |-> p.id, name |-> p.name, url |-> p.url, sha256 |-> p.sha256, bytes |-> p.bytes]
    BY DEF PackRecords
<1> QED BY <1>2, <1>3 DEF AsPack

(* What the pass makes of an entry that closed. *)
Told(t, s, p) ==
    LET matches == p.id \in pass.ids
    IN  /\ t.complete = s.complete + 1
        /\ t.done = IF pass.asks = "find" THEN matches
                    ELSE IF pass.asks = "names" /\ matches THEN s.filled + 1 = Cardinality(pass.ids)
                    ELSE s.done
        /\ t.found = IF pass.asks = "find" /\ matches THEN p ELSE s.found
        /\ t.filled = IF pass.asks = "names" /\ matches THEN s.filled + 1 ELSE s.filled
        /\ t.names = IF pass.asks = "names" /\ matches /\ p.name # ""
                     THEN s.names \cup {<<p.id, p.name>>} ELSE s.names

LEMMA PackClosedTells ==
    ASSUME NEW s \in Scanners, ~ s.failed, ~ s.pending
    PROVE  LET t == PackClosed(s)
           IN  /\ t.failed <=> ~ Complete(s.pack)
               /\ ~ t.pending /\ t.depth = s.depth /\ t.inPacks = s.inPacks /\ ~ t.inPack
               /\ t.schema = s.schema
               /\ ~ t.failed => Told(t, s, s.pack)
<1> DEFINE b == [s EXCEPT !.inPack = FALSE]
           matches == s.pack.id \in pass.ids
           all == IF s.pack.name = "" THEN s.names ELSE s.names \cup {<<s.pack.id, s.pack.name>>}
<1>1. /\ ~ b.failed /\ ~ b.pending /\ b.depth = s.depth /\ b.inPacks = s.inPacks /\ ~ b.inPack
      /\ b.schema = s.schema /\ b.complete = s.complete /\ b.done = s.done /\ b.names = s.names
      /\ b.filled = s.filled /\ b.found = s.found /\ b \in Scanners
    BY DEF Scanners
<1> HIDE DEF b
<1>2. CASE ~ Complete(s.pack)
    <2>1. PackClosed(s) = [b EXCEPT !.failed = TRUE]
        BY <1>2 DEF PackClosed, b
    <2> QED BY <1>1, <1>2, <2>1 DEF Scanners
<1>3. CASE Complete(s.pack) /\ pass.asks = "find"
    <2>1. PackClosed(s) = [b EXCEPT !.complete = b.complete + 1, !.done = matches,
                                    !.found = IF matches THEN s.pack ELSE b.found]
        BY <1>3 DEF PackClosed, b
    <2> QED BY <1>1, <1>3, <2>1 DEF Scanners, Told
<1>4. CASE Complete(s.pack) /\ pass.asks = "names" /\ matches
    <2>1. PackClosed(s) = [b EXCEPT !.complete = b.complete + 1, !.filled = b.filled + 1, !.names = all,
                                    !.done = s.filled + 1 = Cardinality(pass.ids)]
        BY <1>1, <1>4 DEF PackClosed, b
    <2> QED BY <1>1, <1>4, <2>1 DEF Scanners, Told
<1>5. CASE Complete(s.pack) /\ pass.asks # "find" /\ ~ (pass.asks = "names" /\ matches)
    <2>1. PackClosed(s) = [b EXCEPT !.complete = b.complete + 1]
        BY <1>5 DEF PackClosed, b
    <2> QED BY <1>1, <1>5, <2>1 DEF Scanners, Told
<1> QED BY <1>2, <1>3, <1>4, <1>5

(* In the array of entries. *)
InArray(s) ==
    s \in Scanners /\ ~ s.failed /\ ~ s.pending /\ s.depth = 2 /\ s.inPacks /\ ~ s.inPack

EntryOpens(s) == pass.asks # "header" /\ ~ s.done

AfterEntry(s, e) ==
    {t \in Scanners :
        IF t.failed THEN EntryOpens(s) /\ ~ Usable(e)
        ELSE /\ InArray(t) /\ t.schema = s.schema
             /\ IF EntryOpens(s) THEN Usable(e) /\ Told(t, s, AsPack(e)) ELSE Kept(t, s)}

LEMMA AfterEntrySettled ==
    ASSUME NEW s, NEW e
    PROVE  AfterEntry(s, e) \subseteq Before(AfterEntry(s, e))
<1>1. ASSUME NEW t \in AfterEntry(s, e) PROVE Settled(t) \in AfterEntry(s, e) /\ t \in Scanners
    <2>1. t \in Scanners
        BY DEF AfterEntry
    <2>2. CASE t.failed
        BY <2>1, <2>2 DEF Settled
    <2>3. CASE ~ t.failed
        <3>1. /\ InArray(t) /\ t.schema = s.schema
              /\ IF EntryOpens(s) THEN Usable(e) /\ Told(t, s, AsPack(e)) ELSE Kept(t, s)
            BY <1>1, <2>3 DEF AfterEntry
        <3> DEFINE u == Settled(t)
        <3>2. /\ u \in Scanners /\ ~ u.failed /\ ~ u.pending
              /\ Kept(u, t) /\ u.depth = t.depth
            BY <2>1, <2>3, <3>1, SettledIdle DEF InArray
        <3> HIDE DEF u
        <3>3. InArray(u) /\ u.schema = s.schema
            BY <3>1, <3>2 DEF InArray, Kept
        <3>4. Told(t, s, AsPack(e)) => Told(u, s, AsPack(e))
            BY <3>2 DEF Told, Kept
        <3>5. Kept(t, s) => Kept(u, s)
            BY <3>2, KeptOn
        <3>6. u \in AfterEntry(s, e)
            BY <3>1, <3>2, <3>3, <3>4, <3>5 DEF AfterEntry
        <3> QED BY <2>1, <3>6 DEF u
    <2> QED BY <2>2, <2>3
<1> QED BY <1>1 DEF Before

LEMMA TakesEntry ==
    ASSUME NEW s, InArray(s), NEW e \in Entries, Published(e)
    PROVE  Takes({s}, EntryTokens(e), Before(AfterEntry(s, e)))
<1> DEFINE rows == Joined([i \in DOMAIN e |-> FieldTokens(e[i])])
           u == Settled(s)
           key == IF s.haveKey /\ ~ s.pending THEN s.key ELSE ""
           v == Opened(u, "{", key)
           N == Len(e)
<1>1. s \in Scanners /\ ~ s.failed /\ ~ s.pending /\ s.depth = 2 /\ s.inPacks /\ ~ s.inPack
    BY DEF InArray
<1>2. Mark("{") \in Token /\ Mark("}") \in Token
    BY MarkIsToken DEF TokenKinds
<1>3. /\ u \in Scanners /\ ~ u.failed /\ ~ u.pending
      /\ Kept(u, s) /\ u.depth = s.depth /\ u.pack = s.pack
    BY <1>1, SettledIdle
<1>4. Step(s, Mark("{")) = v
    <2>1. u = Flushed(s)
        BY <1>1 DEF Settled
    <2>2. Step(s, Mark("{")) = IF u.failed THEN u ELSE v
        BY <1>1, <2>1 DEF Step, Fed, Mark
    <2> HIDE DEF u, v
    <2> QED BY <1>3, <2>2
<1> HIDE DEF u, key
<1>5. u.depth + 1 = 3 /\ u.inPacks /\ ~ u.inPack /\ u.done = s.done
    BY <1>1, <1>3 DEF Kept
<1>6. OpensPack(u, "{", u.depth + 1) <=> EntryOpens(s)
    BY <1>5 DEF OpensPack, PacksDepth, EntryOpens
<1>7. v = IF EntryOpens(s) THEN [u EXCEPT !.depth = 3, !.inPack = TRUE, !.pack = NoPack]
          ELSE [u EXCEPT !.depth = 3]
    BY <1>5, <1>6 DEF Opened
<1> HIDE DEF v
<1>8. NoPack \in PackRecords
    <2>1. "" \in Texts /\ -1 \in Int
        BY DEF Texts, Literals
    <2> QED BY <2>1 DEF NoPack, PackRecords
<1>9. /\ v \in Scanners /\ ~ v.failed /\ ~ v.pending /\ v.depth = 3 /\ v.inPacks
      /\ (v.inPack <=> EntryOpens(s)) /\ v.done = s.done /\ v.found = s.found /\ v.names = s.names
      /\ v.filled = s.filled /\ v.complete = s.complete /\ v.schema = s.schema
      /\ EntryOpens(s) => v.pack = NoPack
    <2>1. CASE EntryOpens(s)
        BY <1>3, <1>5, <1>7, <1>8, <2>1 DEF Scanners, Kept
    <2>2. CASE ~ EntryOpens(s)
        BY <1>3, <1>5, <1>7, <2>2 DEF Scanners, Kept
    <2> QED BY <2>1, <2>2
<1>10. Takes({s}, <<Mark("{")>>, {v})
    BY <1>1, <1>2, <1>4, <1>9, TakesToken
<1>11. Takes({v}, rows, Before(AfterFields(v, e, N)))
    <2>1. Reads(v)
        BY <1>9 DEF Reads
    <2> QED BY <2>1, TakesRow
<1>12. ASSUME NEW h \in Before(AfterFields(v, e, N))
       PROVE  Step(h, Mark("}")) \in AfterEntry(s, e)
    <2> DEFINE w == Settled(h)
               b == [w EXCEPT !.depth = 2]
               x == Closed(w, "}")
    <2>1. h \in Scanners /\ w \in AfterFields(v, e, N) /\ "}" \in CloseMarks
        BY DEF Before, CloseMarks
    <2>2. Step(h, Mark("}")) = IF w.failed THEN w ELSE x
        BY <2>1, StepCloses
    <2> HIDE DEF w
    <2>3. w \in Scanners
        BY <2>1 DEF AfterFields
    <2>0. DOMAIN e = 1 .. N
        BY EntryRows
    <2>4. CASE w.failed
        <3>1. v.inPack /\ \E i \in 1 .. N : ~ Readable(e[i])
            BY <2>1, <2>4 DEF AfterFields
        <3>2. EntryOpens(s) /\ ~ Usable(e)
            BY <1>9, <2>0, <3>1 DEF Usable
        <3> QED BY <2>2, <2>3, <2>4, <3>2 DEF AfterEntry
    <2>5. CASE ~ w.failed
        <3>1. /\ ~ w.pending /\ Kept(w, v) /\ w.depth = v.depth
              /\ v.inPack => /\ \A i \in 1 .. N : Readable(e[i])
                             /\ \A k \in Fields : Holds(k, v.pack[k], w.pack[k], e, N)
            BY <2>1, <2>5 DEF AfterFields
        <3>2. /\ (w.inPack <=> EntryOpens(s)) /\ w.inPacks /\ w.done = s.done /\ w.found = s.found
              /\ w.names = s.names /\ w.filled = s.filled /\ w.complete = s.complete /\ w.schema = s.schema
              /\ w.depth = 3
            BY <1>9, <3>1 DEF Kept
        <3>3. /\ b \in Scanners /\ ~ b.failed /\ ~ b.pending /\ b.depth = 2 /\ b.inPacks
              /\ (b.inPack <=> EntryOpens(s)) /\ b.done = s.done /\ b.found = s.found /\ b.pack = w.pack
              /\ b.names = s.names /\ b.filled = s.filled /\ b.complete = s.complete /\ b.schema = s.schema
            BY <2>3, <2>5, <3>1, <3>2 DEF Scanners
        <3>4. x = IF EntryOpens(s) THEN PackClosed(b) ELSE b
            <4>1. w.depth > 0 /\ w.depth - 1 = 2
                BY <3>2
            <4>2. ClosesPack(w, 2) <=> EntryOpens(s)
                BY <3>2 DEF ClosesPack, PacksDepth
            <4> QED BY <4>1, <4>2 DEF Closed
        <3> HIDE DEF b, x
        <3>5. CASE EntryOpens(s)
            <4>1. b.pack = AsPack(e)
                <5>1. w.pack \in PackRecords
                    BY <2>3 DEF Scanners
                <5>2. \A k \in Fields : Holds(k, NoPack[k], w.pack[k], e, Len(e))
                    BY <1>9, <3>1, <3>5
                <5> QED BY <3>3, <5>1, <5>2, PackFields
            <4>2. Usable(e) <=> Complete(b.pack)
                BY <1>9, <2>0, <3>1, <3>5, <4>1 DEF Usable
            <4> DEFINE t == PackClosed(b)
            <4>3. /\ t.failed <=> ~ Complete(b.pack)
                  /\ ~ t.pending /\ t.depth = b.depth /\ t.inPacks = b.inPacks /\ ~ t.inPack
                  /\ t.schema = b.schema
                  /\ ~ t.failed => Told(t, b, b.pack)
                BY <3>3, PackClosedTells
            <4>4. t \in Scanners
                <5>1. ~ b.done
                    BY <3>3, <3>5 DEF EntryOpens
                <5> QED BY <3>3, <5>1, PackClosedScans
            <4> HIDE DEF t
            <4>5. ~ t.failed => Told(t, s, AsPack(e))
                BY <3>3, <4>1, <4>3 DEF Told
            <4>6. ~ t.failed => InArray(t)
                BY <3>3, <4>3, <4>4 DEF InArray
            <4>7. t \in AfterEntry(s, e)
                BY <3>3, <3>5, <4>2, <4>3, <4>4, <4>5, <4>6 DEF AfterEntry
            <4> QED BY <2>2, <2>5, <3>4, <3>5, <4>7 DEF t
        <3>6. CASE ~ EntryOpens(s)
            <4>1. InArray(b) /\ Kept(b, s)
                BY <1>1, <3>3, <3>6 DEF InArray, Kept, Scanners
            <4>2. b \in AfterEntry(s, e)
                BY <3>3, <3>6, <4>1 DEF AfterEntry
            <4> QED BY <2>2, <2>5, <3>4, <3>6, <4>2
        <3> QED BY <3>5, <3>6
    <2> QED BY <2>4, <2>5
<1>13. Takes(Before(AfterFields(v, e, N)), <<Mark("}")>>, AfterEntry(s, e))
    <2>1. Before(AfterFields(v, e, N)) \subseteq Scanners /\ AfterEntry(s, e) \subseteq Scanners
        BY DEF Before, AfterEntry
    <2> QED BY <1>2, <1>12, <2>1, TakesToken
<1>14. EntryTokens(e) = <<Mark("{")>> \o rows \o <<Mark("}")>>
    BY DEF EntryTokens, Object
<1> HIDE DEF rows
<1>15. Takes({s}, EntryTokens(e), AfterEntry(s, e))
    <2>1. Takes({s}, <<Mark("{")>> \o rows, Before(AfterFields(v, e, N)))
        BY <1>10, <1>11, TakesConcat
    <2> QED BY <1>13, <1>14, <2>1, TakesConcat
<1> QED BY <1>15, AfterEntrySettled, TakesWithin

------------------------------------------------------------------------------
(* The entries of a document, for a pass. *)

LEMMA DocumentRows ==
    ASSUME NEW d \in Documents
    PROVE  /\ d.schema \in Nat /\ Len(d.packs) \in Nat /\ DOMAIN d.packs = 1 .. Len(d.packs)
           /\ \A i \in 1 .. Len(d.packs) : d.packs[i] \in Entries
<1>1. d.schema \in Nat
    <2>1. Schemas \subseteq Nat
        BY IndexAssumption, Zenon
    <2> QED BY <2>1 DEF Documents
<1>2. PICK n \in 0 .. MaxEntries : d.packs \in [1 .. n -> Entries]
    BY DEF Documents
<1>3. n \in Nat
    BY IndexNumbers
<1>4. d.packs \in Seq(Entries)
    BY <1>2, <1>3
<1> QED BY <1>1, <1>4, LenProperties, ElementOfSeq

LEMMA PassCases ==
    ASSUME pass \in Passes
    PROVE  \/ pass.asks = "header" /\ pass.ids = {}
           \/ pass.asks = "validate" /\ pass.ids = {}
           \/ pass.asks = "find" /\ \E i : pass.ids = {i}
           \/ pass.asks = "names" /\ IsFiniteSet(pass.ids)
<1>1. IsFiniteSet(Wanted)
    BY IndexAssumption, Zenon
<1> QED BY <1>1 DEF Passes

Readied(d) ==
    /\ \A i \in DOMAIN d.packs : Published(d.packs[i])
    /\ pass.asks = "names" => Distinct(d)

IdAt(d, n) == AsPack(d.packs[n]).id
NameAt(d, n) == AsPack(d.packs[n]).name

NamedTo(d, n) ==
    {m \in {<<AsPack(d.packs[i]).id, AsPack(d.packs[i]).name>> : i \in 1 .. n} : m[1] \in pass.ids /\ m[2] # ""}

LEMMA SeenGrows ==
    ASSUME NEW d, NEW n \in Nat, n >= 1
    PROVE  /\ Seen(d, n) = Seen(d, n - 1) \cup {IdAt(d, n)}
           /\ NamedTo(d, n) = IF IdAt(d, n) \in pass.ids /\ NameAt(d, n) # ""
                              THEN NamedTo(d, n - 1) \cup {<<IdAt(d, n), NameAt(d, n)>>} ELSE NamedTo(d, n - 1)
<1>1. 1 .. n = (1 .. n - 1) \cup {n}
    OBVIOUS
<1>2. Seen(d, n) = Seen(d, n - 1) \cup {IdAt(d, n)}
    BY <1>1, Zenon DEF Seen, IdAt
<1> DEFINE pairs(k) == {<<AsPack(d.packs[i]).id, AsPack(d.packs[i]).name>> : i \in 1 .. k}
           pair == <<IdAt(d, n), NameAt(d, n)>>
<1>3. pairs(n) = pairs(n - 1) \cup {pair}
    BY <1>1, Zenon DEF IdAt, NameAt
<1>4. pair[1] = IdAt(d, n) /\ pair[2] = NameAt(d, n)
    OBVIOUS
<1>5. \A k : NamedTo(d, k) = {m \in pairs(k) : m[1] \in pass.ids /\ m[2] # ""}
    BY Zenon DEF NamedTo
<1> HIDE DEF pairs, pair
<1>6. NamedTo(d, n) = {m \in pairs(n) : m[1] \in pass.ids /\ m[2] # ""}
      /\ NamedTo(d, n - 1) = {m \in pairs(n - 1) : m[1] \in pass.ids /\ m[2] # ""}
    BY <1>5
<1>7. CASE IdAt(d, n) \in pass.ids /\ NameAt(d, n) # ""
    <2>1. NamedTo(d, n) = NamedTo(d, n - 1) \cup {pair}
        BY <1>3, <1>4, <1>6, <1>7
    <2> QED BY <1>2, <1>7, <2>1 DEF pair
<1>8. CASE ~ (IdAt(d, n) \in pass.ids /\ NameAt(d, n) # "")
    <2>1. NamedTo(d, n) = NamedTo(d, n - 1)
        BY <1>3, <1>4, <1>6, <1>8
    <2> QED BY <1>2, <1>8, <2>1
<1> QED BY <1>7, <1>8

LEMMA NothingSeen ==
    ASSUME NEW d
    PROVE  Seen(d, 0) = {} /\ NamedTo(d, 0) = {} /\ ~ Met(d, pass, 0)
<1>1. \A i \in 1 .. 0 : FALSE
    OBVIOUS
<1>2. Seen(d, 0) = {}
    BY <1>1 DEF Seen
<1>3. NamedTo(d, 0) = {}
    BY <1>1 DEF NamedTo
<1> QED BY <1>2, <1>3 DEF Met

(* The entry that has the last of the ids asked for is the first to.       *)
LEMMA MetOnce ==
    ASSUME NEW d, NEW N \in Nat, DOMAIN d.packs = 1 .. N, NEW n \in 1 .. N, Met(d, pass, n), ~ Met(d, pass, n - 1)
    PROVE  (CHOOSE k \in Needed(d, pass) : Met(d, pass, k)) = n
<1> DEFINE m == CHOOSE k \in Needed(d, pass) : Met(d, pass, k)
<1>1. n \in Needed(d, pass)
    BY DEF Needed
<1>2. m \in Needed(d, pass) /\ Met(d, pass, m)
    BY <1>1, Zenon
<1> HIDE DEF m
<1>3. m \in 1 .. N /\ ~ Met(d, pass, m - 1)
    BY <1>2 DEF Needed
<1>4. ASSUME NEW a \in 0 .. N, NEW b \in 0 .. N, a <= b, Met(d, pass, a) PROVE Met(d, pass, b)
    <2>1. Seen(d, a) \subseteq Seen(d, b)
        <3>1. 1 .. a \subseteq 1 .. b
            BY <1>4
        <3> QED BY <3>1 DEF Seen
    <2> QED BY <1>4, <2>1 DEF Met
<1>5. ~ (m < n)
    <2>1. m < n => m \in 0 .. N /\ n - 1 \in 0 .. N /\ m <= n - 1
        BY <1>3
    <2> QED BY <1>2, <1>4, <2>1
<1>6. ~ (n < m)
    <2>1. n < m => n \in 0 .. N /\ m - 1 \in 0 .. N /\ n <= m - 1
        BY <1>3
    <2> QED BY <1>3, <1>4, <2>1
<1>7. m = n
    BY <1>3, <1>5, <1>6
<1> QED BY <1>7 DEF m

(* What a pass knows after the first n entries.                            *)
Progress(t, d, n) ==
    /\ t.done <=> Met(d, pass, n)
    /\ pass.asks # "header" => \A k \in 1 .. n : ~ Met(d, pass, k - 1) => Usable(d.packs[k])
    /\ pass.asks = "validate" => t.complete = n
    /\ t.found = IF pass.asks = "find" /\ Met(d, pass, n)
                 THEN AsPack(d.packs[CHOOSE k \in Needed(d, pass) : Met(d, pass, k)]) ELSE NoPack
    /\ t.names = IF pass.asks = "names" THEN NamedTo(d, n) ELSE {}
    /\ pass.asks = "names" => t.filled = Cardinality(pass.ids \cap Seen(d, n))

Broken(d, n) == pass.asks # "header" /\ \E k \in Needed(d, pass) : k <= n /\ ~ Usable(d.packs[k])

LEMMA EntryNotOpened ==
    ASSUME pass \in Passes, NEW d \in Documents, Readied(d), NEW n \in 1 .. Len(d.packs),
           NEW s, NEW t, Progress(s, d, n - 1), ~ EntryOpens(s), Kept(t, s)
    PROVE  Progress(t, d, n)
<1>1. /\ t.done = s.done /\ t.found = s.found /\ t.names = s.names /\ t.filled = s.filled
      /\ t.complete = s.complete
    BY DEF Kept
<1>2. n \in Nat /\ n >= 1 /\ Len(d.packs) \in Nat /\ DOMAIN d.packs = 1 .. Len(d.packs)
    BY DocumentRows
<1>3. Seen(d, n) = Seen(d, n - 1) \cup {IdAt(d, n)}
    BY <1>2, SeenGrows
<1>4. /\ s.done <=> Met(d, pass, n - 1)
      /\ pass.asks # "header" => \A k \in 1 .. n - 1 : ~ Met(d, pass, k - 1) => Usable(d.packs[k])
      /\ pass.asks = "validate" => s.complete = n - 1
      /\ s.found = IF pass.asks = "find" /\ Met(d, pass, n - 1)
                   THEN AsPack(d.packs[CHOOSE k \in Needed(d, pass) : Met(d, pass, k)]) ELSE NoPack
      /\ s.names = IF pass.asks = "names" THEN NamedTo(d, n - 1) ELSE {}
      /\ pass.asks = "names" => s.filled = Cardinality(pass.ids \cap Seen(d, n - 1))
    BY DEF Progress
<1>5. CASE pass.asks = "header"
    <2>1. ~ Met(d, pass, n) /\ ~ Met(d, pass, n - 1)
        BY <1>5, PassCases DEF Met
    <2> QED BY <1>1, <1>4, <1>5, <2>1 DEF Progress
<1>6. CASE pass.asks # "header"
    <2>1. Met(d, pass, n - 1) /\ s.done
        BY <1>4, <1>6 DEF EntryOpens
    <2>2. Met(d, pass, n) /\ pass.ids # {} /\ pass.ids \subseteq Seen(d, n - 1)
        BY <1>3, <2>1 DEF Met
    <2>3. \A k \in 1 .. n : ~ Met(d, pass, k - 1) => Usable(d.packs[k])
        <3>1. \A k \in 1 .. n : k = n \/ k \in 1 .. n - 1
            BY <1>2
        <3> QED BY <1>4, <1>6, <2>1, <3>1
    <2>4. pass.asks # "validate"
        BY <2>2, PassCases
    <2>5. ASSUME pass.asks = "names"
          PROVE  NamedTo(d, n) = NamedTo(d, n - 1) /\ pass.ids \cap Seen(d, n) = pass.ids \cap Seen(d, n - 1)
        <3>1. IdAt(d, n) \notin pass.ids
            <4> SUFFICES ASSUME IdAt(d, n) \in pass.ids PROVE FALSE
                OBVIOUS
            <4>1. PICK i \in 1 .. n - 1 : IdAt(d, n) = AsPack(d.packs[i]).id
                BY <2>2 DEF Seen
            <4>2. i \in DOMAIN d.packs /\ n \in DOMAIN d.packs /\ i # n
                BY <1>2
            <4> QED BY <2>5, <4>1, <4>2 DEF Readied, Distinct, IdAt
        <3>2. NamedTo(d, n) = NamedTo(d, n - 1)
            BY <1>2, <3>1, SeenGrows
        <3> QED BY <1>3, <3>1, <3>2
    <2> QED BY <1>1, <1>4, <1>6, <2>1, <2>2, <2>3, <2>4, <2>5 DEF Progress
<1> QED BY <1>5, <1>6

LEMMA EntryOpened ==
    ASSUME pass \in Passes, NEW d \in Documents, Readied(d), NEW n \in 1 .. Len(d.packs),
           NEW s, NEW t, Progress(s, d, n - 1), EntryOpens(s), s.done \in BOOLEAN,
           Usable(d.packs[n]), Told(t, s, AsPack(d.packs[n]))
    PROVE  Progress(t, d, n)
<1> DEFINE p == AsPack(d.packs[n])
           matches == p.id \in pass.ids
<1>1. /\ t.complete = s.complete + 1
      /\ t.done = IF pass.asks = "find" THEN matches
                  ELSE IF pass.asks = "names" /\ matches THEN s.filled + 1 = Cardinality(pass.ids)
                  ELSE s.done
      /\ t.found = IF pass.asks = "find" /\ matches THEN p ELSE s.found
      /\ t.filled = IF pass.asks = "names" /\ matches THEN s.filled + 1 ELSE s.filled
      /\ t.names = IF pass.asks = "names" /\ matches /\ p.name # ""
                   THEN s.names \cup {<<p.id, p.name>>} ELSE s.names
    BY DEF Told
<1>2. n \in Nat /\ n >= 1 /\ Len(d.packs) \in Nat /\ DOMAIN d.packs = 1 .. Len(d.packs)
    BY DocumentRows
<1>3. IdAt(d, n) = p.id /\ NameAt(d, n) = p.name
    BY DEF IdAt, NameAt
<1> HIDE DEF p
<1>4. /\ Seen(d, n) = Seen(d, n - 1) \cup {p.id}
      /\ NamedTo(d, n) = IF matches /\ p.name # "" THEN NamedTo(d, n - 1) \cup {<<p.id, p.name>>}
                         ELSE NamedTo(d, n - 1)
    <2>1. /\ Seen(d, n) = Seen(d, n - 1) \cup {IdAt(d, n)}
          /\ NamedTo(d, n) = IF IdAt(d, n) \in pass.ids /\ NameAt(d, n) # ""
                             THEN NamedTo(d, n - 1) \cup {<<IdAt(d, n), NameAt(d, n)>>} ELSE NamedTo(d, n - 1)
        BY <1>2, SeenGrows
    <2> QED BY <1>3, <2>1
<1>5. /\ s.done <=> Met(d, pass, n - 1)
      /\ pass.asks # "header" => \A k \in 1 .. n - 1 : ~ Met(d, pass, k - 1) => Usable(d.packs[k])
      /\ pass.asks = "validate" => s.complete = n - 1
      /\ s.found = IF pass.asks = "find" /\ Met(d, pass, n - 1)
                   THEN AsPack(d.packs[CHOOSE k \in Needed(d, pass) : Met(d, pass, k)]) ELSE NoPack
      /\ s.names = IF pass.asks = "names" THEN NamedTo(d, n - 1) ELSE {}
      /\ pass.asks = "names" => s.filled = Cardinality(pass.ids \cap Seen(d, n - 1))
    BY DEF Progress
<1>6. pass.asks # "header" /\ ~ s.done /\ ~ Met(d, pass, n - 1)
    BY <1>5 DEF EntryOpens
<1>7. \A k \in 1 .. n : ~ Met(d, pass, k - 1) => Usable(d.packs[k])
    <2>1. \A k \in 1 .. n : k = n \/ k \in 1 .. n - 1
        BY <1>2
    <2> QED BY <1>5, <1>6, <2>1
<1>8. Met(d, pass, n) => matches
    BY <1>4, <1>6 DEF Met
<1>9. Met(d, pass, n) => (CHOOSE k \in Needed(d, pass) : Met(d, pass, k)) = n
    BY <1>2, <1>6, MetOnce
<1>10. CASE pass.asks = "validate"
    <2>1. ~ matches /\ ~ Met(d, pass, n)
        BY <1>10, PassCases DEF Met
    <2>2. t.complete = n
        BY <1>1, <1>2, <1>5, <1>10
    <2> QED BY <1>1, <1>5, <1>6, <1>7, <1>10, <2>1, <2>2 DEF Progress
<1>11. CASE pass.asks = "find"
    <2>1. matches => Met(d, pass, n)
        <3>1. PICK i : pass.ids = {i}
            BY <1>11, PassCases
        <3> QED BY <1>4, <3>1 DEF Met
    <2>2. t.done <=> Met(d, pass, n)
        BY <1>1, <1>8, <1>11, <2>1
    <2>3. t.found = IF Met(d, pass, n)
                    THEN AsPack(d.packs[CHOOSE k \in Needed(d, pass) : Met(d, pass, k)]) ELSE NoPack
        BY <1>1, <1>5, <1>6, <1>8, <1>9, <1>11, <2>1 DEF p
    <2>4. t.names = {}
        BY <1>1, <1>5, <1>11
    <2> QED BY <1>7, <1>11, <2>2, <2>3, <2>4 DEF Progress
<1>12. CASE pass.asks = "names"
    <2> DEFINE before == pass.ids \cap Seen(d, n - 1)
               after == pass.ids \cap Seen(d, n)
    <2>0. IsFiniteSet(pass.ids)
        BY <1>12, PassCases
    <2>1. /\ IsFiniteSet(before) /\ IsFiniteSet(after)
          /\ Cardinality(after) = Cardinality(pass.ids) => after = pass.ids
        <3>1. before \in SUBSET pass.ids /\ after \in SUBSET pass.ids
            OBVIOUS
        <3> HIDE DEF before, after
        <3>2. IsFiniteSet(before) /\ IsFiniteSet(after)
            BY <2>0, <3>1, FS_Subset
        <3>3. Cardinality(pass.ids) = Cardinality(after) => pass.ids = after
            BY <2>0, <3>1, FS_Subset
        <3> QED BY <3>2, <3>3
    <2>2. CASE matches
        <3>1. p.id \notin Seen(d, n - 1)
            <4> SUFFICES ASSUME p.id \in Seen(d, n - 1) PROVE FALSE
                OBVIOUS
            <4>1. PICK i \in 1 .. n - 1 : p.id = AsPack(d.packs[i]).id
                BY DEF Seen
            <4>2. i \in DOMAIN d.packs /\ n \in DOMAIN d.packs /\ i # n
                BY <1>2
            <4>3. AsPack(d.packs[n]).id = AsPack(d.packs[i]).id
                BY <4>1 DEF p
            <4> QED BY <1>12, <4>2, <4>3 DEF Readied, Distinct
        <3>2. after = before \cup {p.id} /\ p.id \notin before
            BY <1>4, <2>2, <3>1
        <3> HIDE DEF before, after
        <3>3. Cardinality(after) = Cardinality(before) + 1
            BY <2>1, <3>2, FS_AddElement
        <3>4. t.filled = Cardinality(after)
            BY <1>1, <1>5, <1>12, <2>2, <3>3 DEF before
        <3>5. t.done <=> Cardinality(after) = Cardinality(pass.ids)
            BY <1>1, <1>5, <1>12, <2>2, <3>3 DEF before
        <3>6. Met(d, pass, n) <=> Cardinality(after) = Cardinality(pass.ids)
            <4>1. Met(d, pass, n) <=> after = pass.ids
                BY <2>2 DEF Met, after
            <4> QED BY <2>1, <4>1
        <3>7. t.names = NamedTo(d, n)
            BY <1>1, <1>4, <1>5, <1>12, <2>2
        <3>8. t.found = NoPack
            BY <1>1, <1>5, <1>12
        <3> QED BY <1>7, <1>12, <3>4, <3>5, <3>6, <3>7, <3>8 DEF Progress, after
    <2>3. CASE ~ matches
        <3>1. after = before
            BY <1>4, <2>3
        <3>2. t.filled = Cardinality(after)
            BY <1>1, <1>5, <1>12, <2>3, <3>1
        <3>3. t.done <=> Met(d, pass, n)
            BY <1>1, <1>6, <1>8, <1>12, <2>3
        <3>4. t.names = NamedTo(d, n)
            BY <1>1, <1>4, <1>5, <1>12, <2>3
        <3>5. t.found = NoPack
            BY <1>1, <1>5, <1>12
        <3> QED BY <1>7, <1>12, <3>2, <3>3, <3>4, <3>5 DEF Progress
    <2> QED BY <2>2, <2>3
<1> QED BY <1>6, <1>10, <1>11, <1>12, PassCases

------------------------------------------------------------------------------
(* The document. *)

(* Between two tokens of the root or of the array of entries, n entries    *)
(* behind.                                                                 *)
Stage(d, at, inPacks, x, n) ==
    {t \in Scanners :
        IF t.failed THEN Broken(d, n)
        ELSE /\ t.depth = at /\ (t.inPacks <=> inPacks) /\ ~ t.inPack /\ ~ t.pending
             /\ t.schema = x /\ Progress(t, d, n)}

LEMMA ProgressKept ==
    ASSUME NEW s, NEW t, NEW d, NEW n, Progress(s, d, n),
           t.done = s.done, t.found = s.found, t.names = s.names, t.filled = s.filled,
           t.complete = s.complete
    PROVE  Progress(t, d, n)
BY DEF Progress

LEMMA StageSettled ==
    ASSUME NEW d, NEW at, NEW inPacks, NEW x, NEW n
    PROVE  Stage(d, at, inPacks, x, n) \subseteq Before(Stage(d, at, inPacks, x, n))
<1>1. ASSUME NEW t \in Stage(d, at, inPacks, x, n)
      PROVE  Settled(t) \in Stage(d, at, inPacks, x, n) /\ t \in Scanners
    <2>1. t \in Scanners
        BY DEF Stage
    <2>2. CASE t.failed
        BY <2>1, <2>2 DEF Settled
    <2>3. CASE ~ t.failed
        <3>1. /\ t.depth = at /\ (t.inPacks <=> inPacks) /\ ~ t.inPack /\ ~ t.pending
              /\ t.schema = x /\ Progress(t, d, n)
            BY <1>1, <2>3 DEF Stage
        <3> DEFINE u == Settled(t)
        <3>2. u \in Scanners /\ ~ u.failed /\ ~ u.pending /\ Kept(u, t) /\ u.depth = t.depth
            BY <2>1, <2>3, <3>1, SettledIdle
        <3> HIDE DEF u
        <3>3. Progress(u, d, n)
            BY <3>1, <3>2, ProgressKept DEF Kept
        <3>4. u \in Stage(d, at, inPacks, x, n)
            BY <3>1, <3>2, <3>3 DEF Stage, Kept
        <3> QED BY <2>1, <3>4 DEF u
    <2> QED BY <2>2, <2>3
<1> QED BY <1>1 DEF Before

LEMMA TakesNextEntry ==
    ASSUME pass \in Passes, NEW d \in Documents, Readied(d), NEW x, NEW n \in 1 .. Len(d.packs)
    PROVE  Takes(Stage(d, 2, TRUE, x, n - 1), EntryTokens(d.packs[n]), Before(Stage(d, 2, TRUE, x, n)))
<1> DEFINE e == d.packs[n]
           B == Stage(d, 2, TRUE, x, n)
<1>1. /\ n \in Nat /\ Len(d.packs) \in Nat /\ DOMAIN d.packs = 1 .. Len(d.packs)
      /\ e \in Entries
    BY DocumentRows
<1>2. Published(e)
    BY <1>1 DEF Readied
<1>3. EntryTokens(e) \in Seq(Token)
    <2>1. Nests(EntryTokens(e), 4, 0, 1)
        BY <1>1, NestsEntry
    <2> QED BY <2>1 DEF Nests
<1>4. ASSUME NEW s \in Stage(d, 2, TRUE, x, n - 1) PROVE Takes({s}, EntryTokens(e), Before(B))
    <2>1. s \in Scanners
        BY DEF Stage
    <2>2. CASE s.failed
        <3>1. Broken(d, n - 1)
            BY <1>4, <2>2 DEF Stage
        <3>2. Broken(d, n)
            <4>1. Needed(d, pass) \subseteq Nat
                BY <1>1 DEF Needed
            <4>2. \A k \in Needed(d, pass) : k <= n - 1 => k <= n
                BY <1>1, <4>1
            <4> QED BY <3>1, <4>2 DEF Broken
        <3>3. s \in Before(B)
            BY <2>1, <2>2, <3>2 DEF Before, Settled, Stage
        <3>4. Takes({s}, EntryTokens(e), {s})
            BY <1>3, <2>1, <2>2, FailedStays
        <3> HIDE DEF B, e
        <3> QED BY <3>3, <3>4, TakesWithin
    <2>3. CASE ~ s.failed
        <3>1. /\ s.depth = 2 /\ s.inPacks /\ ~ s.inPack /\ ~ s.pending
              /\ s.schema = x /\ Progress(s, d, n - 1)
            BY <1>4, <2>3 DEF Stage
        <3>2. InArray(s) /\ s.done \in BOOLEAN
            BY <2>1, <2>3, <3>1 DEF InArray, Scanners
        <3>3. Takes({s}, EntryTokens(e), Before(AfterEntry(s, e)))
            BY <1>1, <1>2, <3>2, TakesEntry
        <3>4. ASSUME NEW t \in AfterEntry(s, e) PROVE t \in B
            <4>1. CASE t.failed
                <5>1. EntryOpens(s) /\ ~ Usable(e) /\ t \in Scanners
                    BY <3>4, <4>1 DEF AfterEntry
                <5>2. n \in Needed(d, pass) /\ pass.asks # "header"
                    BY <1>1, <3>1, <5>1 DEF Needed, EntryOpens, Progress
                <5>3. Broken(d, n)
                    BY <1>1, <5>1, <5>2 DEF Broken
                <5> QED BY <4>1, <5>1, <5>3 DEF Stage
            <4>2. CASE ~ t.failed
                <5>1. /\ InArray(t) /\ t.schema = s.schema
                      /\ IF EntryOpens(s) THEN Usable(e) /\ Told(t, s, AsPack(e)) ELSE Kept(t, s)
                    BY <3>4, <4>2 DEF AfterEntry
                <5>2. Progress(t, d, n)
                    <6>1. CASE EntryOpens(s)
                        BY <3>1, <3>2, <5>1, <6>1, EntryOpened
                    <6>2. CASE ~ EntryOpens(s)
                        BY <3>1, <5>1, <6>2, EntryNotOpened
                    <6> QED BY <6>1, <6>2
                <5>3. /\ t \in Scanners /\ t.depth = 2 /\ t.inPacks /\ ~ t.inPack /\ ~ t.pending /\ t.schema = x
                    BY <3>1, <5>1 DEF InArray
                <5> QED BY <4>2, <5>2, <5>3 DEF Stage
            <4> QED BY <4>1, <4>2
        <3>5. Before(AfterEntry(s, e)) \subseteq Before(B)
            BY <3>4 DEF Before
        <3> HIDE DEF B, e
        <3> QED BY <3>3, <3>5, TakesWithin
    <2> QED BY <2>2, <2>3
<1> QED BY <1>3, <1>4, TakesEach

LEMMA TakesEntries ==
    ASSUME pass \in Passes, NEW d \in Documents, Readied(d), NEW x
    PROVE  Takes(Stage(d, 2, TRUE, x, 0), Joined([i \in DOMAIN d.packs |-> EntryTokens(d.packs[i])]),
                 Before(Stage(d, 2, TRUE, x, Len(d.packs))))
<1> DEFINE parts == [i \in DOMAIN d.packs |-> EntryTokens(d.packs[i])]
           N == Len(d.packs)
           I == [n \in 0 .. N |-> Stage(d, 2, TRUE, x, n)]
<1>1. N \in Nat /\ DOMAIN d.packs = 1 .. N
    BY DocumentRows
<1>2. Len(parts) = N /\ \A i \in 1 .. N : parts[i] = EntryTokens(d.packs[i])
    BY <1>1
<1> HIDE DEF parts
<1>3. I \in [0 .. N -> SUBSET Scanners]
    BY DEF Stage
<1>4. \A n \in 0 .. N : I[n] = Stage(d, 2, TRUE, x, n)
    OBVIOUS
<1>5. \A k \in 1 .. N : Takes(I[k - 1], parts[k], Before(I[k]))
    <2>1. ASSUME NEW k \in 1 .. N PROVE Takes(I[k - 1], parts[k], Before(I[k]))
        <3>1. k \in 0 .. N /\ k - 1 \in 0 .. N
            BY <1>1
        <3>2. I[k] = Stage(d, 2, TRUE, x, k) /\ I[k - 1] = Stage(d, 2, TRUE, x, k - 1)
            BY <1>4, <3>1
        <3> HIDE DEF I
        <3> QED BY <1>2, <3>2, TakesNextEntry
    <2> QED BY <2>1
<1>6. 0 \in 0 .. N /\ N \in 0 .. N
    BY <1>1
<1>7. I[0] = Stage(d, 2, TRUE, x, 0) /\ I[N] = Stage(d, 2, TRUE, x, N)
    BY <1>4, <1>6
<1> HIDE DEF I, N
<1>8. I[0] \subseteq Before(I[0])
    BY <1>7, StageSettled
<1>9. Takes(I[0], Joined(parts), Before(I[Len(parts)]))
    <2>1. I \in [0 .. Len(parts) -> SUBSET Scanners] /\ Len(parts) \in Nat
          /\ \A k \in 1 .. Len(parts) : Takes(I[k - 1], parts[k], Before(I[k]))
        BY <1>1, <1>2, <1>3, <1>5
    <2> QED BY <1>8, <2>1, TakesJoined
<1> QED BY <1>2, <1>7, <1>9 DEF parts, N

(* The key of the root that was read last. *)
Keyed(d, k, x, n) ==
    {t \in Scanners : IF t.failed THEN Broken(d, n)
                      ELSE t \in Stage(d, 1, FALSE, x, n) /\ t.key = k /\ t.haveKey}

LEMMA TakesRootKey ==
    ASSUME NEW d, NEW x, NEW n, NEW k \in Texts, k # Long
    PROVE  Takes(Stage(d, 1, FALSE, x, n), <<Str(k), Mark(":")>>, Keyed(d, k, x, n))
<1> DEFINE B == Keyed(d, k, x, n)
<1>1. ASSUME NEW s \in Stage(d, 1, FALSE, x, n) PROVE Takes({s}, <<Str(k), Mark(":")>>, B)
    <2>1. s \in Scanners
        BY DEF Stage
    <2>2. CASE s.failed
        <3>1. s \in B
            BY <1>1, <2>1, <2>2 DEF Stage, Keyed
        <3>2. Takes({s}, <<Str(k), Mark(":")>>, {s})
            BY <2>1, <2>2, FailedStays, StrIsToken
        <3> HIDE DEF B
        <3> QED BY <3>1, <3>2, TakesWithin
    <2>3. CASE ~ s.failed
        <3>1. /\ s.depth = 1 /\ ~ s.inPacks /\ ~ s.inPack /\ ~ s.pending
              /\ s.schema = x /\ Progress(s, d, n)
            BY <1>1, <2>3 DEF Stage
        <3> DEFINE u == WithKey(s, k)
        <3>2. u \in Scanners /\ Takes({s}, <<Str(k), Mark(":")>>, {u})
            BY <2>1, <2>3, TakesKey
        <3>3. /\ ~ u.failed /\ u.depth = 1 /\ ~ u.inPacks /\ ~ u.inPack /\ ~ u.pending
              /\ u.schema = x /\ u.key = k /\ u.haveKey
              /\ u.done = s.done /\ u.found = s.found /\ u.names = s.names
              /\ u.filled = s.filled /\ u.complete = s.complete
            BY <2>1, <2>3, <3>1 DEF WithKey, Scanners
        <3> HIDE DEF u
        <3>4. Progress(u, d, n)
            BY <3>1, <3>3, ProgressKept
        <3>5. u \in Stage(d, 1, FALSE, x, n)
            BY <3>2, <3>3, <3>4 DEF Stage
        <3>6. u \in B
            BY <3>2, <3>3, <3>5 DEF Keyed
        <3> HIDE DEF B
        <3> QED BY <3>2, <3>6, TakesWithin
    <2> QED BY <2>2, <2>3
<1> QED BY <1>1, StrIsToken, TakesEach

SchemaRead(d) == IF d.schema > MaxNumber THEN 0 ELSE AsInt(d.schema)

LEMMA TakesHeader ==
    ASSUME NEW d \in Documents, NEW n
    PROVE  Takes(Stage(d, 1, FALSE, 0, n), Tagged("schema", <<Num(d.schema)>>),
                 Before(Stage(d, 1, FALSE, SchemaRead(d), n)))
<1> DEFINE B == Stage(d, 1, FALSE, SchemaRead(d), n)
<1>1. d.schema \in Nat /\ Num(d.schema) \in Token
    BY DocumentRows, NumIsToken
<1>2. "schema" \in Texts /\ "schema" # Long
    <2>1. "schema" # Long
        BY IndexAssumption, Zenon
    <2> QED BY <2>1 DEF Texts, Literals
<1>3. ASSUME NEW s \in Keyed(d, "schema", 0, n) PROVE Step(s, Num(d.schema)) \in B
    <2>1. s \in Scanners
        BY DEF Keyed
    <2>2. CASE s.failed
        BY <1>3, <2>1, <2>2 DEF Keyed, Stage, Step
    <2>3. CASE ~ s.failed
        <3>1. /\ s.depth = 1 /\ ~ s.inPacks /\ ~ s.inPack /\ ~ s.pending
              /\ s.schema = 0 /\ Progress(s, d, n) /\ s.key = "schema"
            BY <1>3, <2>3 DEF Keyed, Stage
        <3> DEFINE t == NumberTaken(s, d.schema)
        <3>2. Step(s, Num(d.schema)) = t
            BY <2>3 DEF Step, Fed, Num
        <3>3. t \in Scanners
            BY <1>1, <2>1, NumberTakenScans
        <3>4. /\ ~ t.failed /\ t.depth = 1 /\ ~ t.inPacks /\ ~ t.inPack /\ ~ t.pending
              /\ t.schema = SchemaRead(d)
              /\ t.done = s.done /\ t.found = s.found /\ t.names = s.names
              /\ t.filled = s.filled /\ t.complete = s.complete
            <4>1. CASE d.schema > MaxNumber
                <5>1. t = [s EXCEPT !.failed = s.inPack]
                    BY <4>1 DEF NumberTaken
                <5>2. SchemaRead(d) = 0
                    BY <4>1 DEF SchemaRead
                <5> HIDE DEF t
                <5> QED BY <2>1, <3>1, <5>1, <5>2 DEF Scanners
            <4>2. CASE ~ (d.schema > MaxNumber)
                <5>1. t = [s EXCEPT !.schema = AsInt(d.schema)]
                    BY <3>1, <4>2 DEF NumberTaken
                <5>2. SchemaRead(d) = AsInt(d.schema)
                    BY <4>2 DEF SchemaRead
                <5> HIDE DEF t
                <5> QED BY <2>1, <2>3, <3>1, <5>1, <5>2 DEF Scanners
            <4> QED BY <4>1, <4>2
        <3> HIDE DEF t
        <3>5. Progress(t, d, n)
            BY <3>1, <3>4, ProgressKept
        <3> QED BY <3>2, <3>3, <3>4, <3>5 DEF Stage
    <2> QED BY <2>2, <2>3
<1>4. Takes(Keyed(d, "schema", 0, n), <<Num(d.schema)>>, B)
    <2>1. Keyed(d, "schema", 0, n) \subseteq Scanners /\ B \subseteq Scanners
        BY DEF Keyed, Stage
    <2> HIDE DEF B
    <2> QED BY <1>1, <1>3, <2>1, TakesToken
<1>5. Takes(Stage(d, 1, FALSE, 0, n), Tagged("schema", <<Num(d.schema)>>), B)
    BY <1>2, <1>4, TakesRootKey, TakesTagged
<1> QED BY <1>5, StageSettled, TakesWithin

LEMMA TakesPacks ==
    ASSUME pass \in Passes, NEW d \in Documents, Readied(d), NEW x
    PROVE  Takes(Stage(d, 1, FALSE, x, 0),
                 Tagged("packs", Array([i \in DOMAIN d.packs |-> EntryTokens(d.packs[i])])),
                 Before(Stage(d, 1, FALSE, x, Len(d.packs))))
<1> DEFINE rows == Joined([i \in DOMAIN d.packs |-> EntryTokens(d.packs[i])])
           N == Len(d.packs)
           A == Stage(d, 2, TRUE, x, 0)
           B == Stage(d, 1, FALSE, x, N)
<1>1. Mark("[") \in Token /\ Mark("]") \in Token /\ "]" \in CloseMarks
    BY MarkIsToken DEF TokenKinds, CloseMarks
<1>2. "packs" \in Texts /\ "packs" # Long
    <2>1. "packs" # Long
        BY IndexAssumption, Zenon
    <2> QED BY <2>1 DEF Texts, Literals
<1>3. ASSUME NEW s \in Keyed(d, "packs", x, 0) PROVE Step(s, Mark("[")) \in A
    <2>1. s \in Scanners
        BY DEF Keyed
    <2>2. CASE s.failed
        BY <1>3, <2>1, <2>2 DEF Keyed, Stage, Step
    <2>3. CASE ~ s.failed
        <3>1. /\ s.depth = 1 /\ ~ s.inPacks /\ ~ s.inPack /\ ~ s.pending
              /\ s.schema = x /\ Progress(s, d, 0) /\ s.key = "packs" /\ s.haveKey
            BY <1>3, <2>3 DEF Keyed, Stage
        <3> DEFINE u == Settled(s)
                   t == [u EXCEPT !.depth = 2, !.inPacks = TRUE]
        <3>2. u \in Scanners /\ ~ u.failed /\ ~ u.pending /\ Kept(u, s) /\ u.depth = s.depth
            BY <2>1, <2>3, <3>1, SettledIdle
        <3>3. Step(s, Mark("[")) = t
            <4>1. u = Flushed(s)
                BY <2>3 DEF Settled
            <4>2. Step(s, Mark("[")) = IF u.failed THEN u ELSE Opened(u, "[", "packs")
                BY <2>3, <3>1, <4>1 DEF Step, Fed, Mark
            <4> HIDE DEF u
            <4>3. u.depth + 1 = 2
                BY <3>1, <3>2
            <4>4. Opened(u, "[", "packs") = t
                BY <4>3 DEF Opened, PacksDepth
            <4> QED BY <3>2, <4>2, <4>4
        <3> HIDE DEF u
        <3>4. /\ t \in Scanners /\ ~ t.failed /\ t.depth = 2 /\ t.inPacks /\ ~ t.inPack /\ ~ t.pending
              /\ t.schema = x
              /\ t.done = s.done /\ t.found = s.found /\ t.names = s.names
              /\ t.filled = s.filled /\ t.complete = s.complete
            BY <3>1, <3>2 DEF Scanners, Kept
        <3> HIDE DEF t
        <3>5. Progress(t, d, 0)
            BY <3>1, <3>4, ProgressKept
        <3> QED BY <3>3, <3>4, <3>5 DEF Stage
    <2> QED BY <2>2, <2>3
<1>4. ASSUME NEW h \in Before(Stage(d, 2, TRUE, x, N)) PROVE Step(h, Mark("]")) \in B
    <2> DEFINE w == Settled(h)
               t == [w EXCEPT !.depth = 1, !.inPacks = FALSE]
    <2>1. h \in Scanners /\ w \in Stage(d, 2, TRUE, x, N)
        BY DEF Before
    <2>2. Step(h, Mark("]")) = IF w.failed THEN w ELSE Closed(w, "]")
        BY <1>1, <2>1, StepCloses
    <2> HIDE DEF w
    <2>3. w \in Scanners
        BY <2>1 DEF Stage
    <2>4. CASE w.failed
        BY <2>1, <2>2, <2>3, <2>4 DEF Stage
    <2>5. CASE ~ w.failed
        <3>1. /\ w.depth = 2 /\ w.inPacks /\ ~ w.inPack /\ ~ w.pending
              /\ w.schema = x /\ Progress(w, d, N)
            BY <2>1, <2>5 DEF Stage
        <3>2. Closed(w, "]") = t
            <4>1. w.depth > 0 /\ w.depth - 1 = 1
                BY <3>1
            <4>2. Closed(w, "]") = [[w EXCEPT !.depth = 1] EXCEPT !.inPacks = FALSE]
                BY <3>1, <4>1 DEF Closed, PacksDepth
            <4> QED BY <4>2
        <3>3. /\ t \in Scanners /\ ~ t.failed /\ t.depth = 1 /\ ~ t.inPacks /\ ~ t.inPack /\ ~ t.pending
              /\ t.schema = x
              /\ t.done = w.done /\ t.found = w.found /\ t.names = w.names
              /\ t.filled = w.filled /\ t.complete = w.complete
            BY <2>3, <2>5, <3>1 DEF Scanners
        <3> HIDE DEF t
        <3>4. Progress(t, d, N)
            BY <3>1, <3>3, ProgressKept
        <3> QED BY <2>2, <2>5, <3>2, <3>3, <3>4 DEF Stage
    <2> QED BY <2>4, <2>5
<1>5. Takes(Keyed(d, "packs", x, 0), <<Mark("[")>>, A)
    <2>1. Keyed(d, "packs", x, 0) \subseteq Scanners /\ A \subseteq Scanners
        BY DEF Keyed, Stage
    <2> HIDE DEF A
    <2> QED BY <1>1, <1>3, <2>1, TakesToken
<1>6. Takes(A, rows, Before(Stage(d, 2, TRUE, x, N)))
    BY TakesEntries
<1>7. Takes(Before(Stage(d, 2, TRUE, x, N)), <<Mark("]")>>, B)
    <2>1. Before(Stage(d, 2, TRUE, x, N)) \subseteq Scanners /\ B \subseteq Scanners
        BY DEF Before, Stage
    <2> HIDE DEF B
    <2> QED BY <1>1, <1>4, <2>1, TakesToken
<1> DEFINE array == Array([i \in DOMAIN d.packs |-> EntryTokens(d.packs[i])])
<1>8. array = <<Mark("[")>> \o rows \o <<Mark("]")>>
    BY DEF Array
<1>b. B \subseteq Before(B)
    BY StageSettled
<1> HIDE DEF A, B, rows, array
<1>9. Takes(Keyed(d, "packs", x, 0), array, B)
    <2>1. Takes(Keyed(d, "packs", x, 0), <<Mark("[")>> \o rows, Before(Stage(d, 2, TRUE, x, N)))
        BY <1>5, <1>6, TakesConcat
    <2> QED BY <1>7, <1>8, <2>1, TakesConcat
<1>10. Takes(Stage(d, 1, FALSE, x, 0), Tagged("packs", array), B)
    BY <1>2, <1>9, TakesRootKey, TakesTagged
<1>11. Takes(Stage(d, 1, FALSE, x, 0), Tagged("packs", array), Before(B))
    BY <1>b, <1>10, TakesWithin
<1> QED BY <1>11 DEF array, B

LEMMA JoinedTwo ==
    ASSUME NEW a, NEW b
    PROVE  Joined(<<a, b>>) = a \o <<Mark(",")>> \o b
<1> DEFINE parts == <<a, b>>
<1>1. Len(parts) = 2 /\ parts[1] = a /\ parts[2] = b
    OBVIOUS
<1> HIDE DEF parts
<1>2. Len(parts) \in Nat /\ Len(parts) > 0 /\ 2 \in 2 .. Len(parts) /\ 2 - 1 = 1
    BY <1>1
<1>3. PICK f : /\ Len(parts) > 0 => f[1] = parts[1]
               /\ \A i \in 2 .. Len(parts) : f[i] = f[i - 1] \o <<Mark(",")>> \o parts[i]
               /\ Joined(parts) = f[Len(parts)]
    BY <1>2, JoinedSteps, Zenon
<1>4. f[1] = a /\ f[2] = f[1] \o <<Mark(",")>> \o parts[2]
    <2>1. f[2] = f[2 - 1] \o <<Mark(",")>> \o parts[2]
        BY <1>2, <1>3, Zenon
    <2>2. f[1] = a
        BY <1>1, <1>2, <1>3, Zenon
    <2> QED BY <1>2, <2>1, <2>2
<1>5. Joined(parts) = a \o <<Mark(",")>> \o b
    BY <1>1, <1>3, <1>4, Zenon
<1> QED BY <1>5 DEF parts

(* The root opens and closes. *)
LEMMA TakesRoot ==
    ASSUME NEW d, NEW x, NEW y, NEW n, NEW a, NEW m,
           Takes(Stage(d, 1, FALSE, x, m), a, Before(Stage(d, 1, FALSE, y, n)))
    PROVE  Takes(Stage(d, 0, FALSE, x, m), <<Mark("{")>> \o a \o <<Mark("}")>>, Stage(d, 0, FALSE, y, n))
<1> DEFINE A == Stage(d, 1, FALSE, x, m)
           B == Stage(d, 0, FALSE, y, n)
<1>1. Mark("{") \in Token /\ Mark("}") \in Token /\ "}" \in CloseMarks
    BY MarkIsToken DEF TokenKinds, CloseMarks
<1>2. ASSUME NEW s \in Stage(d, 0, FALSE, x, m) PROVE Step(s, Mark("{")) \in A
    <2>1. s \in Scanners
        BY DEF Stage
    <2>2. CASE s.failed
        BY <1>2, <2>1, <2>2 DEF Stage, Step
    <2>3. CASE ~ s.failed
        <3>1. /\ s.depth = 0 /\ ~ s.inPacks /\ ~ s.inPack /\ ~ s.pending
              /\ s.schema = x /\ Progress(s, d, m)
            BY <1>2, <2>3 DEF Stage
        <3> DEFINE u == Settled(s)
                   key == IF s.haveKey /\ ~ s.pending THEN s.key ELSE ""
                   t == [u EXCEPT !.depth = 1]
        <3>2. u \in Scanners /\ ~ u.failed /\ ~ u.pending /\ Kept(u, s) /\ u.depth = s.depth
            BY <2>1, <2>3, <3>1, SettledIdle
        <3>3. Step(s, Mark("{")) = t
            <4>1. u = Flushed(s)
                BY <2>3 DEF Settled
            <4>2. Step(s, Mark("{")) = IF u.failed THEN u ELSE Opened(u, "{", key)
                BY <2>3, <4>1 DEF Step, Fed, Mark
            <4> HIDE DEF u, key
            <4>3. u.depth + 1 = 1 /\ ~ u.inPacks
                BY <3>1, <3>2 DEF Kept
            <4>4. Opened(u, "{", key) = t
                BY <4>3 DEF Opened, OpensPack, PacksDepth
            <4> QED BY <3>2, <4>2, <4>4
        <3> HIDE DEF u
        <3>4. /\ t \in Scanners /\ ~ t.failed /\ t.depth = 1 /\ ~ t.inPacks /\ ~ t.inPack /\ ~ t.pending
              /\ t.schema = x
              /\ t.done = s.done /\ t.found = s.found /\ t.names = s.names
              /\ t.filled = s.filled /\ t.complete = s.complete
            BY <3>1, <3>2 DEF Scanners, Kept
        <3> HIDE DEF t
        <3>5. Progress(t, d, m)
            BY <3>1, <3>4, ProgressKept
        <3> QED BY <3>3, <3>4, <3>5 DEF Stage
    <2> QED BY <2>2, <2>3
<1>3. ASSUME NEW h \in Before(Stage(d, 1, FALSE, y, n)) PROVE Step(h, Mark("}")) \in B
    <2> DEFINE w == Settled(h)
               t == [w EXCEPT !.depth = 0]
    <2>1. h \in Scanners /\ w \in Stage(d, 1, FALSE, y, n)
        BY DEF Before
    <2>2. Step(h, Mark("}")) = IF w.failed THEN w ELSE Closed(w, "}")
        BY <1>1, <2>1, StepCloses
    <2> HIDE DEF w
    <2>3. w \in Scanners
        BY <2>1 DEF Stage
    <2>4. CASE w.failed
        BY <2>1, <2>2, <2>3, <2>4 DEF Stage
    <2>5. CASE ~ w.failed
        <3>1. /\ w.depth = 1 /\ ~ w.inPacks /\ ~ w.inPack /\ ~ w.pending
              /\ w.schema = y /\ Progress(w, d, n)
            BY <2>1, <2>5 DEF Stage
        <3>2. Closed(w, "}") = t
            <4>1. w.depth > 0 /\ w.depth - 1 = 0
                BY <3>1
            <4> QED BY <3>1, <4>1 DEF Closed, ClosesPack
        <3>3. /\ t \in Scanners /\ ~ t.failed /\ t.depth = 0 /\ ~ t.inPacks /\ ~ t.inPack /\ ~ t.pending
              /\ t.schema = y
              /\ t.done = w.done /\ t.found = w.found /\ t.names = w.names
              /\ t.filled = w.filled /\ t.complete = w.complete
            BY <2>3, <2>5, <3>1 DEF Scanners
        <3> HIDE DEF t
        <3>4. Progress(t, d, n)
            BY <3>1, <3>3, ProgressKept
        <3> QED BY <2>2, <2>5, <3>2, <3>3, <3>4 DEF Stage
    <2> QED BY <2>4, <2>5
<1>4. Takes(Stage(d, 0, FALSE, x, m), <<Mark("{")>>, A)
    <2>1. Stage(d, 0, FALSE, x, m) \subseteq Scanners /\ A \subseteq Scanners
        BY DEF Stage
    <2> HIDE DEF A
    <2> QED BY <1>1, <1>2, <2>1, TakesToken
<1>5. Takes(Before(Stage(d, 1, FALSE, y, n)), <<Mark("}")>>, B)
    <2>1. Before(Stage(d, 1, FALSE, y, n)) \subseteq Scanners /\ B \subseteq Scanners
        BY DEF Before, Stage
    <2> HIDE DEF B
    <2> QED BY <1>1, <1>3, <2>1, TakesToken
<1> HIDE DEF A, B
<1>6. Takes(Stage(d, 0, FALSE, x, m), <<Mark("{")>> \o a, Before(Stage(d, 1, FALSE, y, n)))
    BY <1>4, TakesConcat DEF A
<1>7. Takes(Stage(d, 0, FALSE, x, m), (<<Mark("{")>> \o a) \o <<Mark("}")>>, B)
    BY <1>5, <1>6, TakesConcat
<1> QED BY <1>7 DEF B

(* Reading a whole document leads to the end of the root, with what the    *)
(* pass should know, or fails at an entry it needed.                       *)
LEMMA TakesDocument ==
    ASSUME pass \in Passes, NEW d \in Documents, Readied(d)
    PROVE  Takes({Started}, Tokens(d), Stage(d, 0, FALSE, SchemaRead(d), Len(d.packs)))
<1> DEFINE N == Len(d.packs)
           header == Tagged("schema", <<Num(d.schema)>>)
           packs == Tagged("packs", Array([i \in DOMAIN d.packs |-> EntryTokens(d.packs[i])]))
           all == IF d.headerFirst THEN <<header, packs>> ELSE <<packs, header>>
           x == SchemaRead(d)
<1>1. Started \in Stage(d, 0, FALSE, 0, 0)
    <2>1. Started \in Scanners
        <3>1. "" \in Texts /\ NoPack \in PackRecords
            <4>1. "" \in Texts
                BY DEF Texts, Literals
            <4>2. -1 \in Int
                OBVIOUS
            <4> QED BY <4>1, <4>2 DEF NoPack, PackRecords
        <3>2. {} \in SUBSET (Texts \X Texts) /\ 0 \in Nat /\ 0 \in Int /\ FALSE \in BOOLEAN
            OBVIOUS
        <3> QED BY <3>1, <3>2, Zenon DEF Started, Scanners
    <2>2. /\ ~ Started.failed /\ Started.depth = 0 /\ ~ Started.inPacks /\ ~ Started.inPack
          /\ ~ Started.pending /\ Started.schema = 0 /\ ~ Started.done /\ Started.found = NoPack
          /\ Started.names = {} /\ Started.filled = 0 /\ Started.complete = 0
        BY DEF Started
    <2>3. Seen(d, 0) = {} /\ NamedTo(d, 0) = {} /\ ~ Met(d, pass, 0)
        BY NothingSeen
    <2>4. Cardinality(pass.ids \cap Seen(d, 0)) = 0
        <3>1. pass.ids \cap Seen(d, 0) = {}
            BY <2>3
        <3> QED BY <3>1, FS_EmptySet
    <2>5. \A k \in 1 .. 0 : FALSE
        OBVIOUS
    <2>6. Progress(Started, d, 0)
        BY <2>2, <2>3, <2>4, <2>5 DEF Progress
    <2> QED BY <2>1, <2>2, <2>6 DEF Stage
<1>2. Takes(Stage(d, 1, FALSE, 0, 0), header, Before(Stage(d, 1, FALSE, x, 0)))
      /\ Takes(Stage(d, 1, FALSE, 0, N), header, Before(Stage(d, 1, FALSE, x, N)))
    BY TakesHeader
<1>3. \A y : Takes(Stage(d, 1, FALSE, y, 0), packs, Before(Stage(d, 1, FALSE, y, N)))
    BY TakesPacks
<1>4. \A y, k : Takes(Before(Stage(d, 1, FALSE, y, k)), <<Mark(",")>>, Stage(d, 1, FALSE, y, k))
    <2>1. \A y, k : Stage(d, 1, FALSE, y, k) \subseteq Scanners
        BY DEF Stage
    <2> QED BY <2>1, TakesComma
<1>a. all = IF d.headerFirst THEN <<header, packs>> ELSE <<packs, header>>
    OBVIOUS
<1>b. Tokens(d) = <<Mark("{")>> \o Joined(all) \o <<Mark("}")>>
    BY DEF Tokens, Object
<1> HIDE DEF header, packs, x, N, all
<1>5. Takes(Stage(d, 1, FALSE, 0, 0), Joined(all), Before(Stage(d, 1, FALSE, x, N)))
    <2>1. CASE d.headerFirst
        <3>1. Joined(all) = (header \o <<Mark(",")>>) \o packs
            BY <1>a, <2>1, JoinedTwo
        <3>2. Takes(Stage(d, 1, FALSE, 0, 0), header \o <<Mark(",")>>, Stage(d, 1, FALSE, x, 0))
            BY <1>2, <1>4, TakesConcat
        <3>3. Takes(Stage(d, 1, FALSE, 0, 0), (header \o <<Mark(",")>>) \o packs, Before(Stage(d, 1, FALSE, x, N)))
            BY <1>3, <3>2, TakesConcat
        <3> QED BY <3>1, <3>3
    <2>2. CASE ~ d.headerFirst
        <3>1. Joined(all) = (packs \o <<Mark(",")>>) \o header
            BY <1>a, <2>2, JoinedTwo
        <3>2. Takes(Stage(d, 1, FALSE, 0, 0), packs \o <<Mark(",")>>, Stage(d, 1, FALSE, 0, N))
            BY <1>3, <1>4, TakesConcat
        <3>3. Takes(Stage(d, 1, FALSE, 0, 0), (packs \o <<Mark(",")>>) \o header, Before(Stage(d, 1, FALSE, x, N)))
            BY <1>2, <3>2, TakesConcat
        <3> QED BY <3>1, <3>3
    <2> QED BY <2>1, <2>2
<1>6. Takes(Stage(d, 0, FALSE, 0, 0), Tokens(d), Stage(d, 0, FALSE, x, N))
    BY <1>b, <1>5, TakesRoot
<1>7. Takes({Started}, Tokens(d), Stage(d, 0, FALSE, x, N))
    <2>1. {Started} \subseteq Stage(d, 0, FALSE, 0, 0)
        BY <1>1, Zenon
    <2> QED BY <1>6, <2>1, TakesWithin
<1> QED BY <1>7 DEF x, N

------------------------------------------------------------------------------
(* The answer. *)

LEMMA SchemaIsRead ==
    ASSUME NEW d
    PROVE  SchemaRead(d) = 1 <=> ~ (d.schema > MaxNumber) /\ AsInt(d.schema) = 1
BY DEF SchemaRead

LEMMA NeededIsUsable ==
    ASSUME NEW d \in Documents, NEW t, Progress(t, d, Len(d.packs)), pass.asks # "header"
    PROVE  \A n \in Needed(d, pass) : Usable(d.packs[n])
<1>1. DOMAIN d.packs = 1 .. Len(d.packs)
    BY DocumentRows
<1> QED BY <1>1 DEF Needed, Progress

LEMMA AnswersRight ==
    ASSUME pass \in Passes, document \in Documents, Readied(document), Answer,
           scan \in Stage(document, 0, FALSE, SchemaRead(document), Len(document.packs))
    PROVE  reply' = Expected(document, pass)
<1> DEFINE d == document
           N == Len(d.packs)
           ran == Ran(scan)
           schemaOk == d.schema <= MaxNumber /\ AsInt(d.schema) = 1
           usable == \A n \in Needed(d, pass) : Usable(d.packs[n])
           named == {<<AsPack(d.packs[i]).id, AsPack(d.packs[i]).name>> : i \in DOMAIN d.packs}
           fine == CASE pass.asks = "header" -> schemaOk
                   [] pass.asks = "validate" -> schemaOk /\ usable /\ N > 0
                   [] pass.asks = "find" -> schemaOk /\ usable /\ Met(d, pass, N)
                   [] OTHER -> schemaOk /\ usable
           right == CASE pass.asks = "find" -> ran /\ scan.done
                      [] pass.asks = "validate" -> ran /\ scan.complete > 0
                      [] OTHER -> ran
           pick == AsPack(d.packs[CHOOSE n \in Needed(d, pass) : Met(d, pass, n)])
           allNamed == {n \in named : n[1] \in pass.ids /\ n[2] # ""}
<1>1. Expected(d, pass) =
         [answered |-> TRUE, ok |-> fine,
          names |-> IF fine /\ pass.asks = "names" THEN allNamed ELSE {},
          found |-> IF fine /\ pass.asks = "find" THEN pick ELSE NoPack]
    BY DEF Expected
<1>2. reply' = [answered |-> TRUE, ok |-> right,
                names |-> IF ran THEN scan.names ELSE {},
                found |-> IF ran THEN scan.found ELSE NoPack]
    BY DEF Answer
<1>3. /\ d.schema \in Nat /\ N \in Nat /\ DOMAIN d.packs = 1 .. N /\ MaxNumber \in Nat
    BY DocumentRows, IndexNumbers
<1>4. allNamed = NamedTo(d, N)
    BY <1>3, Zenon DEF NamedTo
<1>5. SchemaRead(d) = 1 <=> schemaOk
    BY <1>3, SchemaIsRead
<1>a. scan \in Scanners
    BY DEF Stage
<1>b. pass.asks \in {"header", "validate", "find", "names"}
    BY PassCases
<1> HIDE DEF d, N, schemaOk, usable, named, pick, allNamed, ran
<1>6. CASE scan.failed
    <2>1. ~ ran
        BY <1>6 DEF Ran, ran
    <2>2. pass.asks # "header" /\ ~ usable
        BY <1>6 DEF Stage, Broken, usable, d
    <2>3. fine = FALSE /\ right = FALSE
        BY <2>1, <2>2
    <2> HIDE DEF fine, right
    <2> QED BY <1>1, <1>2, <2>1, <2>3 DEF d
<1>7. CASE ~ scan.failed
    <2>1. /\ scan.depth = 0 /\ ~ scan.inPack /\ scan.schema = SchemaRead(d) /\ Progress(scan, d, N)
        BY <1>7 DEF Stage, d, N
    <2>2. ran <=> schemaOk
        BY <1>5, <1>7, <2>1 DEF Ran, WholeDocument, ran
    <2>3. /\ scan.done <=> Met(d, pass, N)
          /\ pass.asks = "validate" => scan.complete = N
          /\ scan.found = IF pass.asks = "find" /\ Met(d, pass, N) THEN pick ELSE NoPack
          /\ scan.names = IF pass.asks = "names" THEN NamedTo(d, N) ELSE {}
        BY <2>1 DEF Progress, pick
    <2>4. pass.asks # "header" => usable
        BY <2>1, NeededIsUsable DEF usable, d, N
    <2>5. fine <=> right
        BY <1>b, <2>2, <2>3, <2>4
    <2>6. fine \in BOOLEAN /\ right \in BOOLEAN
        BY <1>b DEF schemaOk, ran, Ran, usable
    <2>7. right => ran
        BY <1>b
    <2>8. (IF fine /\ pass.asks = "names" THEN allNamed ELSE {}) = IF ran THEN scan.names ELSE {}
        BY <1>4, <1>b, <2>2, <2>3, <2>4
    <2>9. (IF fine /\ pass.asks = "find" THEN pick ELSE NoPack) = IF ran THEN scan.found ELSE NoPack
        BY <1>b, <2>2, <2>3, <2>4
    <2> HIDE DEF fine, right
    <2>10. fine = right
        BY <2>5, <2>6
    <2> QED BY <1>1, <1>2, <2>8, <2>9, <2>10 DEF d
<1> QED BY <1>6, <1>7

(* The scanner is where it should be after k tokens of the document.       *)
Followed(f, k) ==
    LET w == Tokens(document)
    IN  /\ Trace(w, f)
        /\ f[Len(w)] \in Stage(document, 0, FALSE, SchemaRead(document), Len(document.packs))
        /\ k \in 0 .. Len(w) /\ rest = SubSeq(w, k + 1, Len(w)) /\ scan = f[k]

ReadInv ==
    Readied(document) =>
        /\ \E f, k : Followed(f, k)
        /\ reply.answered /\ (rest = <<>> \/ scan.failed) => reply = Expected(document, pass)

(* What the scanner does depends on nothing a step of the reader changes. *)
LEMMA SameFollowed ==
    ASSUME document' = document, pass' = pass, NEW f, NEW k
    PROVE  LET w == Tokens(document)
           IN  Followed(f, k)' <=>
                   /\ Trace(w, f)
                   /\ f[Len(w)] \in Stage(document, 0, FALSE, SchemaRead(document), Len(document.packs))
                   /\ k \in 0 .. Len(w) /\ rest' = SubSeq(w, k + 1, Len(w)) /\ scan' = f[k]
<1>1. (Stage(document, 0, FALSE, SchemaRead(document), Len(document.packs)))'
        = Stage(document, 0, FALSE, SchemaRead(document), Len(document.packs))
    BY DEF Stage, SchemaRead, Broken, Progress, NamedTo
<1>2. Trace(Tokens(document), f)' <=> Trace(Tokens(document), f)
    BY DEF Trace, Step, Fed, Closed, PackClosed, ClosesPack, Opened, OpensPack,
       Flushed, ValueTaken, KeySet, NumberTaken
<1> QED BY <1>1, <1>2 DEF Followed

LEMMA ReadInitial == IndexInit => ReadInv
<1> SUFFICES ASSUME IndexInit, Readied(document)
             PROVE  (\E f, k : Followed(f, k)) /\ ~ reply.answered
    BY DEF ReadInv
<1> DEFINE w == Tokens(document)
<1>1. document \in Documents /\ pass \in Passes /\ rest = w /\ scan = Started /\ reply = NoReply
    BY DEF IndexInit
<1>2. w \in Seq(Token) /\ Len(w) \in Nat
    BY <1>1, DocumentWalks, LenProperties
<1>3. PICK f : /\ Trace(w, f) /\ f[0] = Started
               /\ f[Len(w)] \in Stage(document, 0, FALSE, SchemaRead(document), Len(document.packs))
    BY <1>1, TakesDocument DEF Takes
<1> HIDE DEF w
<1>4. rest = SubSeq(w, 0 + 1, Len(w)) /\ 0 \in 0 .. Len(w)
    <2>1. SubSeq(w, 1, Len(w)) = w
        BY <1>2, SubSeqFull
    <2>2. 0 + 1 = 1
        OBVIOUS
    <2> QED BY <1>1, <1>2, <2>1, <2>2
<1>5. Followed(f, 0)
    BY <1>1, <1>3, <1>4 DEF Followed, w
<1>6. ~ reply.answered
    BY <1>1 DEF NoReply
<1> QED BY <1>5, <1>6

LEMMA TokenFollowed ==
    ASSUME IndexInv, ReadToken, NEW f, NEW k, Followed(f, k)
    PROVE  Followed(f, k + 1)'
<1> DEFINE w == Tokens(document)
<1>1. /\ Trace(w, f)
      /\ f[Len(w)] \in Stage(document, 0, FALSE, SchemaRead(document), Len(document.packs))
      /\ k \in 0 .. Len(w) /\ rest = SubSeq(w, k + 1, Len(w)) /\ scan = f[k]
    BY DEF Followed
<1>2. w \in Seq(Token) /\ Len(w) \in Nat
    <2>1. w \in Seq(Token)
        BY DocumentWalks DEF IndexInv
    <2> QED BY <2>1, LenProperties
<1>3. /\ ~ scan.failed /\ rest # <<>> /\ scan' = Fed(scan, Head(rest)) /\ rest' = Tail(rest)
      /\ document' = document /\ pass' = pass
    BY DEF ReadToken
<1> HIDE DEF w
<1>6. k + 1 \in 1 .. Len(w) /\ Len(w) \in k + 1 .. Len(w) /\ k + 1 \in 0 .. Len(w)
    <2>1. CASE k = Len(w)
        <3>1. SubSeq(w, k + 1, Len(w)) = <<>>
            BY <1>2, <2>1, SubSeqEmpty
        <3> QED BY <1>1, <1>3, <3>1
    <2>2. CASE k # Len(w)
        BY <1>1, <1>2, <2>2
    <2> QED BY <2>1, <2>2
<1>7. Head(rest) = w[k + 1] /\ rest' = SubSeq(w, (k + 1) + 1, Len(w))
    <2>1. Head(SubSeq(w, k + 1, Len(w))) = w[k + 1] /\ Tail(SubSeq(w, k + 1, Len(w))) = SubSeq(w, (k + 1) + 1, Len(w))
        BY <1>2, <1>6, HeadTailOfSubSeq
    <2> QED BY <1>1, <1>3, <2>1
<1>8. scan' = f[k + 1]
    <2>1. f[k + 1] = Step(f[(k + 1) - 1], w[k + 1])
        BY <1>1, <1>6 DEF Trace
    <2>2. (k + 1) - 1 = k
        BY <1>1
    <2>3. f[k + 1] = Step(scan, w[k + 1])
        BY <1>1, <2>1, <2>2
    <2> QED BY <1>3, <1>7, <2>3 DEF Step
<1>9. Followed(f, k + 1)'
    BY <1>1, <1>3, <1>6, <1>7, <1>8, SameFollowed DEF w
<1> QED BY <1>9

LEMMA ReadKept == IndexInv /\ ReadInv /\ [IndexNext]_indexVars => ReadInv'
<1> SUFFICES ASSUME IndexInv, ReadInv, [IndexNext]_indexVars, Readied(document)'
             PROVE  /\ (\E f, k : Followed(f, k))'
                    /\ (reply.answered /\ (rest = <<>> \/ scan.failed))' => (reply = Expected(document, pass))'
    BY DEF ReadInv
<1>1. document' = document /\ pass' = pass
    BY DEF IndexNext, ReadToken, Answer, indexVars
<1>2. Readied(document)
    BY <1>1 DEF Readied
<1>3. PICK f, k : Followed(f, k)
    BY <1>2 DEF ReadInv
<1>4. CASE ReadToken
    <2>1. Followed(f, k + 1)'
        BY <1>3, <1>4, TokenFollowed
    <2>2. ~ reply.answered'
        BY <1>4 DEF ReadToken
    <2> QED BY <2>1, <2>2
<1>5. CASE Answer
    <2>1. rest' = rest /\ scan' = scan
        BY <1>5 DEF Answer
    <2>2. Followed(f, k)'
        BY <1>1, <1>3, <2>1, SameFollowed DEF Followed
    <2>3. ASSUME rest = <<>> \/ scan.failed PROVE reply' = Expected(document, pass)
        <3> DEFINE w == Tokens(document)
        <3>1. /\ Trace(w, f)
              /\ f[Len(w)] \in Stage(document, 0, FALSE, SchemaRead(document), Len(document.packs))
              /\ k \in 0 .. Len(w) /\ rest = SubSeq(w, k + 1, Len(w)) /\ scan = f[k]
            BY <1>3 DEF Followed
        <3>2. w \in Seq(Token) /\ Len(w) \in Nat
            <4>1. w \in Seq(Token)
                BY DocumentWalks DEF IndexInv
            <4> QED BY <4>1, LenProperties
        <3> HIDE DEF w
        <3>3. f[Len(w)] = scan
            <4>1. CASE scan.failed
                BY <3>1, <3>2, <4>1, TraceStops
            <4>2. CASE rest = <<>>
                <5>1. k = Len(w)
                    <6> SUFFICES ASSUME k # Len(w) PROVE FALSE
                        OBVIOUS
                    <6>1. k + 1 \in 1 .. Len(w) /\ Len(w) \in k + 1 .. Len(w)
                        BY <3>1, <3>2
                    <6>2. Len(SubSeq(w, k + 1, Len(w))) # 0
                        BY <3>2, <6>1, SubSeqProperties
                    <6>3. rest = SubSeq(w, k + 1, Len(w)) /\ Len(<<>>) = 0
                        BY <3>1
                    <6> QED BY <4>2, <6>2, <6>3
                <5> QED BY <3>1, <5>1
            <4> QED BY <2>3, <4>1, <4>2
        <3>4. scan \in Stage(document, 0, FALSE, SchemaRead(document), Len(document.packs))
            BY <3>1, <3>3
        <3> QED BY <1>2, <1>5, <3>4, AnswersRight DEF IndexInv
    <2>4. Expected(document, pass)' = Expected(document, pass)
        BY <1>1 DEF Expected
    <2> QED BY <2>1, <2>2, <2>3, <2>4
<1>6. CASE UNCHANGED indexVars
    <2>1. rest' = rest /\ scan' = scan /\ reply' = reply
        BY <1>6 DEF indexVars
    <2>2. Followed(f, k)'
        BY <1>1, <1>3, <2>1, SameFollowed DEF Followed
    <2>3. Expected(document, pass)' = Expected(document, pass)
        BY <1>1 DEF Expected
    <2> QED BY <1>2, <2>1, <2>2, <2>3 DEF ReadInv
<1> QED BY <1>4, <1>5, <1>6 DEF IndexNext

(* A catalogue is read as it was published or not at all, whatever its     *)
(* entries, the order of its keys and the place where it is cut off        *)
(* (catalog_index.c:116-302).                                              *)
THEOREM CatalogueReadAsPublished == IndexSpec => []ScanReadsDocument
<1>1. IndexInit => IndexInv /\ ReadInv
    BY IndexInitial, ReadInitial
<1>2. IndexInv /\ ReadInv /\ [IndexNext]_indexVars => (IndexInv /\ ReadInv)'
    BY IndexKept, ReadKept
<1>3. IndexInv /\ ReadInv => ScanReadsDocument
    BY DEF IndexInv, ReadInv, ReadToTheEnd, ScanReadsDocument, Readied
<1> QED BY <1>1, <1>2, <1>3, PTL DEF IndexSpec
==============================================================================
