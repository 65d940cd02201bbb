---------------------------- MODULE PackTasksProofs ----------------------------
(***************************************************************************)
(* Proofs about the two tasks that share the pack store, for every set of  *)
(* pack names, any number of files and any number of blocks of a pack.     *)
(***************************************************************************)
EXTENDS PackTasks, TLAPS

Requests == [phase : Phases, name : Names, handle : Inodes \cup {None}, part : 0 .. Parts]
Sessions == [name : Names, handle : Inodes, part : 0 .. Parts]
Readers == [file : Inodes \cup {None}, name : Names]
Files == [Inodes -> [Blocks -> Writers \cup {"hole"}]]

------------------------------------------------------------------------------
(* Lemmas about the operators. *)

(* The files of the packs installed at boot exist and differ. *)
LEMMA BootPlaces ==
    ASSUME NEW installed \in SUBSET Names
    PROVE  /\ PlacedAtBoot(installed) \in [Names -> Inodes \cup {None}]
           /\ \A n \in Names : PlacedAtBoot(installed)[n] # None <=> n \in installed
           /\ IsInjective(Restrict(PlacedAtBoot(installed), installed))
<1> DEFINE Fits(f) == /\ \A n \in Names : f[n] # None <=> n \in installed
                      /\ IsInjective(Restrict(f, installed))
<1>1. PICK place \in [Names -> Inodes] : IsInjective(place)
    BY TasksAssumption
<1> DEFINE f == [n \in Names |-> IF n \in installed THEN place[n] ELSE None]
<1>2. f \in [Names -> Inodes \cup {None}]
    OBVIOUS
<1>3. \A n \in Names : f[n] # None <=> n \in installed
    BY TasksAssumption
<1>4. IsInjective(Restrict(f, installed))
    BY <1>1 DEF IsInjective, Restrict
<1>5. \E g \in [Names -> Inodes \cup {None}] : Fits(g)
    BY <1>2, <1>3, <1>4
<1> HIDE DEF f
<1> QED BY <1>5 DEF PlacedAtBoot

LEMMA StagedType ==
    ASSUME TypeOK, NEW i \in Inodes, StagingOpens(i)
    PROVE  temp' \in Inodes \cup {None} /\ data' \in Files
<1>1. temp' \in Inodes \cup {None}
    BY DEF StagingOpens
<1>2. data' = [data EXCEPT ![i] = Blank] /\ Blank \in [Blocks -> Writers \cup {"hole"}]
    BY DEF StagingOpens, Blank
<1> QED BY <1>1, <1>2 DEF TypeOK, Files

LEMMA UnlinkedType ==
    ASSUME StagingUnlinked
    PROVE  temp' \in {temp, None}
BY DEF StagingUnlinked

LEMMA SwapType ==
    ASSUME TypeOK, NEW n, SwapIn(n)
    PROVE  temp' \in Inodes \cup {None} /\ packs' \in [Names -> Inodes \cup {None}]
<1>1. temp \in Inodes \cup {None} /\ packs \in [Names -> Inodes \cup {None}]
    BY DEF TypeOK
<1> QED BY <1>1, UnlinkedType DEF SwapIn

LEMMA ReaderType ==
    ASSUME TypeOK, NEW n \in Names, NEW m \in Names
    PROVE  /\ Released(reader, n) \in Readers
           /\ ReaderOf(m) \in Readers
           /\ Released(ReaderOf(m), n) \in Readers
BY TasksAssumption DEF TypeOK, Released, ReaderOf, BuiltinReader, Readers

LEMMA RemoveType ==
    ASSUME TypeOK, NEW n \in Names, RemovePack(n)
    PROVE  /\ reader' \in Readers
           /\ packs' \in [Names -> Inodes \cup {None}]
           /\ UNCHANGED <<temp, data>>
<1>1. packs' \in [Names -> Inodes \cup {None}]
    BY DEF TypeOK, RemovePack
<1> QED BY <1>1, ReaderType DEF RemovePack

LEMMA AbortType ==
    ASSUME TypeOK, AbortSession
    PROVE  temp' \in {temp, None} /\ session' = NoSession /\ overlay' = FALSE
BY UnlinkedType DEF AbortSession, OverlayCleared

LEMMA AbandonType ==
    ASSUME TypeOK, Abandon
    PROVE  temp' \in {temp, None} /\ http' = NoRequest
BY UnlinkedType DEF Abandon

(* The first block of a new request. *)
LEMMA StartType ==
    ASSUME NEW phase \in Phases, NEW n \in Names, NEW i \in Inodes \cup {None},
           StartRequest(phase, n, i)
    PROVE  http' \in Requests
BY TasksAssumption DEF StartRequest, Requests

LEMMA ActiveRequest == TypeOK /\ http.phase # "idle" => http \in Requests
BY DEF TypeOK, NoRequest, Requests

LEMMA ActiveSession == TypeOK /\ session # NoSession => session \in Sessions
BY DEF TypeOK, Sessions

------------------------------------------------------------------------------
(* Types. *)

LEMMA TypeInitial == Init => TypeOK
<1> SUFFICES ASSUME Init PROVE TypeOK
    OBVIOUS
<1>1. packs \in [Names -> Inodes \cup {None}]
    BY BootPlaces DEF Init
<1>2. data \in Files
    BY DEF Init, Files, Blank, Writers
<1>3. reader \in Readers
    BY TasksAssumption DEF Init, BuiltinReader, Readers
<1> QED BY <1>1, <1>2, <1>3 DEF Init, TypeOK, Files, Readers

LEMMA RequestStartsTyped ==
    ASSUME TypeOK, NEW n \in Names, HttpRead(n) \/ HttpDelete(n) \/ HttpUpload(n) \/ HttpInstall(n)
    PROVE  TypeOK'
<1>1. CASE HttpRead(n)
    <2>1. http' \in Requests
        BY <1>1, StartType DEF HttpRead, Phases
    <2>2. reader' \in Readers
        BY <1>1, ReaderType DEF HttpRead
    <2> QED BY <1>1, <2>1, <2>2 DEF HttpRead, TypeOK, Requests, Readers, ble, volume
<1>2. CASE HttpDelete(n)
    BY <1>2, RemoveType DEF HttpDelete, TypeOK, Readers, ble
<1>3. CASE HttpUpload(n)
    <2>1. reader' \in Readers
        BY <1>3, ReaderType DEF HttpUpload
    <2>2. CASE \E i \in Inodes : StagingOpens(i) /\ StartRequest("upload", n, i)
        <3>1. temp' \in Inodes \cup {None} /\ data' \in Files /\ http' \in Requests
            BY <2>2, StagedType, StartType DEF Phases
        <3>2. overlay' \in {TRUE, overlay} /\ contended' \in BOOLEAN
            BY <1>3 DEF HttpUpload, TypeOK
        <3> QED BY <1>3, <2>1, <3>1, <3>2
                DEF HttpUpload, TypeOK, Requests, Readers, Files, ble
    <2>3. CASE UNCHANGED <<http, temp, data, overlay, contended>>
        BY <1>3, <2>1, <2>3 DEF HttpUpload, TypeOK, Readers, ble
    <2> QED BY <1>3, <2>2, <2>3 DEF HttpUpload
<1>4. CASE HttpInstall(n)
    <2>1. reader' \in Readers
        BY <1>4, ReaderType, TasksAssumption DEF HttpInstall
    <2>2. CASE \E i \in Inodes : StagingOpens(i) /\ StartRequest("check", n, i)
        <3>1. temp' \in Inodes \cup {None} /\ data' \in Files /\ http' \in Requests
            BY <2>2, StagedType, StartType DEF Phases
        <3>2. contended' \in BOOLEAN
            BY <1>4 DEF HttpInstall, TypeOK
        <3> QED BY <1>4, <2>1, <3>1, <3>2 DEF HttpInstall, TypeOK, Requests, Readers, Files, ble
    <2>3. CASE UNCHANGED <<http, temp, data, contended>>
        BY <1>4, <2>1, <2>3 DEF HttpInstall, TypeOK, Readers, ble
    <2> QED BY <1>4, <2>2, <2>3 DEF HttpInstall
<1> QED BY <1>1, <1>2, <1>3, <1>4

LEMMA RequestStepTyped ==
    ASSUME TypeOK,
           \/ HttpStreamed \/ InstallCheck \/ InstallStop \/ HttpReceive \/ HttpGiveUp
           \/ HttpComplete \/ HttpProbe \/ HttpSwap
    PROVE  TypeOK'
<1>1. CASE HttpStreamed
    BY <1>1 DEF HttpStreamed, TypeOK, ble, volume
<1>2. CASE InstallCheck
    <2>1. http' \in {NoRequest} \cup Requests /\ temp' \in {temp, None}
        <3>1. http \in Requests
            BY <1>2, ActiveRequest DEF InstallCheck
        <3> QED BY <1>2, <3>1, AbandonType DEF InstallCheck, Requests, Phases
    <2> QED BY <1>2, <2>1 DEF InstallCheck, TypeOK, Requests, ble
<1>3. CASE InstallStop
    <2>1. http' \in {NoRequest} \cup Requests /\ temp' \in {temp, None}
        <3>1. http \in Requests
            BY <1>3, ActiveRequest DEF InstallStop
        <3> QED BY <1>3, <3>1, AbandonType DEF InstallStop, Requests, Phases
    <2>2. bleUp' \in {bleUp, FALSE} /\ conn' \in {conn, FALSE}
        BY <1>3 DEF InstallStop
    <2> QED BY <1>3, <2>1, <2>2 DEF InstallStop, TypeOK, Requests
<1>4. CASE HttpReceive
    <2>1. http \in Requests
        BY <1>4, ActiveRequest DEF HttpReceive
    <2>2. http' \in Requests
        BY <1>4, <2>1, TasksAssumption DEF HttpReceive, Remaining, Requests
    <2>3. data' \in Files
        BY <1>4 DEF HttpReceive, TypeOK, Files, Writers
    <2>4. overlay' \in {overlay, TRUE}
        BY <1>4 DEF HttpReceive
    <2> QED BY <1>4, <2>2, <2>3, <2>4 DEF HttpReceive, TypeOK, Requests, Files, ble
<1>5. CASE HttpGiveUp
    <2>1. http' = NoRequest /\ temp' \in {temp, None}
        BY <1>5, AbandonType DEF HttpGiveUp
    <2>2. bleUp' \in {bleUp, TRUE} /\ overlay' = FALSE
        BY <1>5 DEF HttpGiveUp, Resumed, OverlayCleared
    <2> QED BY <1>5, <2>1, <2>2 DEF HttpGiveUp, TypeOK
<1>6. CASE HttpComplete
    <2>1. http \in Requests
        BY <1>6, ActiveRequest DEF HttpComplete
    <2>2. http' \in Requests
        BY <1>6, <2>1 DEF HttpComplete, Requests, Phases
    <2>3. bleUp' \in {bleUp, TRUE} /\ overlay' \in {overlay, FALSE}
        BY <1>6 DEF HttpComplete, Resumed, OverlayCleared
    <2> QED BY <1>6, <2>2, <2>3 DEF HttpComplete, TypeOK, Requests, volume
<1>7. CASE HttpProbe
    <2>1. http \in Requests
        BY <1>7, ActiveRequest DEF HttpProbe
    <2>2. http' \in {NoRequest} \cup Requests /\ temp' \in {temp, None}
        BY <1>7, <2>1, AbandonType DEF HttpProbe, Requests, Phases
    <2>3. overlay' \in {overlay, FALSE}
        BY <1>7 DEF HttpProbe, OverlayCleared
    <2> QED BY <1>7, <2>2, <2>3 DEF HttpProbe, TypeOK, Requests, ble
<1>8. CASE HttpSwap
    <2>1. temp' \in Inodes \cup {None} /\ packs' \in [Names -> Inodes \cup {None}]
        BY <1>8, SwapType DEF HttpSwap
    <2> QED BY <1>8, <2>1 DEF HttpSwap, OverlayCleared, TypeOK, ble
<1> QED BY <1>1, <1>2, <1>3, <1>4, <1>5, <1>6, <1>7, <1>8

LEMMA ExecuteTyped ==
    ASSUME TypeOK, Execute
    PROVE  TypeOK'
<1>1. UNCHANGED <<http, conn, bleUp>> /\ command' = None
    BY DEF Execute
<1>2. CASE command.op = "begin" /\ Begin(command.name)
    <2>0. contended' \in BOOLEAN
        BY <1>2 DEF Begin, TypeOK
    <2>1. command.name \in Names
        BY <1>2 DEF Execute, TypeOK, Commands
    <2>2. CASE UNCHANGED <<session, volume, reader, overlay>>
        BY <1>1, <2>0, <2>2 DEF TypeOK, volume
    <2>3. CASE ~ UNCHANGED <<session, volume, reader, overlay>>
        <3>1. reader' \in Readers /\ UNCHANGED packs
            BY <1>2, <2>1, <2>3, ReaderType DEF Begin
        <3>2. CASE \E i \in Inodes : /\ StagingOpens(i)
                                     /\ session' = [name |-> command.name, handle |-> i, part |-> 0]
            <4>1. temp' \in Inodes \cup {None} /\ data' \in Files
                BY <3>2, StagedType
            <4>2. session' \in Sessions
                BY <2>1, <3>2, TasksAssumption DEF Sessions
            <4>3. overlay' \in {overlay, TRUE, FALSE}
                BY <1>2, <2>3 DEF Begin, OverlayCleared
            <4> QED BY <1>1, <2>0, <3>1, <4>1, <4>2, <4>3 DEF TypeOK, Sessions, Readers, Files
        <3>3. CASE UNCHANGED <<session, temp, data>> /\ OverlayCleared
            BY <1>1, <2>0, <3>1, <3>3 DEF TypeOK, Readers, OverlayCleared
        <3> QED BY <1>2, <2>3, <3>2, <3>3 DEF Begin
    <2> QED BY <2>2, <2>3
<1>3. CASE command.op = "commit" /\ Commit /\ UNCHANGED contended
    <2>1. /\ temp' \in Inodes \cup {None}
          /\ packs' \in [Names -> Inodes \cup {None}]
          /\ session' = NoSession
          /\ overlay' = FALSE
          /\ UNCHANGED <<data, reader>>
        <3>1. temp \in Inodes \cup {None} /\ packs \in [Names -> Inodes \cup {None}]
            BY DEF TypeOK
        <3> QED BY <1>3, <3>1, AbortType, SwapType, UnlinkedType DEF Commit, OverlayCleared
    <2> QED BY <1>1, <1>3, <2>1 DEF TypeOK
<1>4. CASE AbortSession /\ UNCHANGED <<packs, data, reader, contended>>
    BY <1>1, <1>4, AbortType DEF TypeOK
<1>5. CASE /\ command.op = "delete"
           /\ RemovePack(command.name)
           /\ UNCHANGED <<session, overlay, contended>>
    <2>1. command.name \in Names
        BY <1>5 DEF Execute, TypeOK, Commands
    <2> QED BY <1>1, <1>5, <2>1, RemoveType DEF TypeOK, Readers
<1>6. CASE reader' = ReaderOf(Builtin) /\ UNCHANGED <<session, volume, overlay, contended>>
    BY <1>1, <1>6, ReaderType, TasksAssumption DEF TypeOK, Readers, volume
<1> QED BY <1>2, <1>3, <1>4, <1>5, <1>6 DEF Execute

LEMMA HostStepTyped ==
    ASSUME TypeOK,
           Connect \/ Disconnect \/ TimeOut \/ WriteData \/ \E c \in Commands : SendCommand(c)
    PROVE  TypeOK'
<1>1. CASE Connect
    BY <1>1 DEF Connect, TypeOK, volume
<1>2. CASE Disconnect
    BY <1>2, AbortType DEF Disconnect, DisconnectAborts, TypeOK
<1>3. CASE TimeOut
    BY <1>3 DEF TimeOut, TypeOK, volume
<1>4. CASE WriteData
    <2>1. session \in Sessions
        BY <1>4, ActiveSession DEF WriteData
    <2>2. CASE AbortSession /\ UNCHANGED data
        BY <1>4, <2>2, AbortType DEF WriteData, TypeOK
    <2>3. CASE /\ data' = [data EXCEPT ![session.handle][session.part + 1] = "ble"]
               /\ session' = [session EXCEPT !.part = @ + 1]
               /\ overlay' = TRUE
               /\ UNCHANGED temp
        <3>1. session' \in Sessions
            BY <1>4, <2>1, <2>3, TasksAssumption DEF WriteData, Sessions
        <3>2. data' \in Files
            BY <2>3 DEF TypeOK, Files, Writers
        <3> QED BY <1>4, <2>3, <3>1, <3>2 DEF WriteData, TypeOK, Sessions, Files
    <2> QED BY <1>4, <2>2, <2>3 DEF WriteData
<1>5. CASE \E c \in Commands : SendCommand(c)
    BY <1>5 DEF SendCommand, TypeOK, volume
<1> QED BY <1>1, <1>2, <1>3, <1>4, <1>5

LEMMA TypeKept == TypeOK /\ [Next]_vars => TypeOK'
<1> SUFFICES ASSUME TypeOK, [Next]_vars PROVE TypeOK'
    OBVIOUS
<1>1. CASE HttpNext
    BY <1>1, RequestStartsTyped, RequestStepTyped DEF HttpNext
<1>2. CASE BleNext
    BY <1>2, ExecuteTyped, HostStepTyped DEF BleNext
<1>3. CASE UNCHANGED vars
    BY <1>3 DEF vars, ble, volume, TypeOK
<1> QED BY <1>1, <1>2, <1>3 DEF Next

(* The variables of the two tasks keep their types: what web_server.c      *)
(* keeps of a request, s_upload of ble_provisioning.c and the volume.      *)
THEOREM TasksTypeCorrect == Spec => []TypeOK
BY TypeInitial, TypeKept, PTL DEF Spec
------------------------------------------------------------------------------
(* A session and its client. *)

(* BLE is stopped only under no session and no command: from the check of  *)
(* s_conn on, the archive lock keeps BEGIN out, and nimble_port_stop()     *)
(* waits for the callback.                                                 *)
ClientInv ==
    /\ SessionHasClient
    /\ command # None => conn /\ bleUp
    /\ http.phase = "stop" => session = NoSession

LEMMA ClientHttpKeeps == TypeOK /\ ClientInv /\ HttpNext => ClientInv'
<1> SUFFICES ASSUME TypeOK, ClientInv, HttpNext PROVE ClientInv'
    OBVIOUS
<1>1. CASE \E n \in Names : HttpRead(n) \/ HttpDelete(n) \/ HttpUpload(n) \/ HttpInstall(n)
    BY <1>1 DEF HttpRead, HttpDelete, HttpUpload, HttpInstall, StartRequest, ble,
                ClientInv, SessionHasClient
<1>2. CASE InstallCheck
    BY <1>2 DEF InstallCheck, ClientConnected, Abandon, NoRequest, ble, ClientInv, SessionHasClient
<1>3. CASE InstallStop
    <2>1. http \in Requests
        BY <1>3, ActiveRequest DEF InstallStop
    <2>2. http'.phase # "stop"
        BY <1>3, <2>1 DEF InstallStop, Abandon, NoRequest, Requests
    <2> QED BY <1>3, <2>2 DEF InstallStop, ClientInv, SessionHasClient
<1>4. CASE HttpReceive \/ HttpProbe \/ HttpSwap \/ HttpStreamed
    <2>1. http'.phase # "stop"
        <3>1. http \in Requests /\ http.phase # "stop"
            BY <1>4, ActiveRequest DEF HttpReceive, HttpProbe, HttpSwap, HttpStreamed
        <3>2. \/ http' = [http EXCEPT !.part = @ + 1]
              \/ http' = [http EXCEPT !.phase = "swap"]
              \/ http' = NoRequest
            BY <1>4 DEF HttpReceive, HttpProbe, HttpSwap, HttpStreamed, Abandon
        <3> QED BY <3>1, <3>2 DEF NoRequest, Requests
    <2> QED BY <1>4, <2>1
            DEF HttpReceive, HttpProbe, HttpSwap, HttpStreamed, ble, ClientInv, SessionHasClient
<1>5. CASE HttpGiveUp \/ HttpComplete
    <2>1. http'.phase # "stop"
        <3>1. http \in Requests
            BY <1>5, ActiveRequest DEF HttpGiveUp, HttpComplete
        <3>2. \/ http' = [http EXCEPT !.phase = "probe", !.handle = None]
              \/ http' = NoRequest
            BY <1>5 DEF HttpGiveUp, HttpComplete, Abandon
        <3>3. CASE http' = [http EXCEPT !.phase = "probe", !.handle = None]
            BY <3>1, <3>3 DEF Requests
        <3>4. CASE http' = NoRequest
            BY <3>4 DEF NoRequest
        <3> QED BY <3>2, <3>3, <3>4
    <2>2. bleUp' \in {bleUp, TRUE}
        BY <1>5 DEF HttpGiveUp, HttpComplete, Resumed
    <2>3. UNCHANGED <<command, session, conn>>
        BY <1>5 DEF HttpGiveUp, HttpComplete
    <2> QED BY <2>1, <2>2, <2>3 DEF ClientInv, SessionHasClient
<1> QED BY <1>1, <1>2, <1>3, <1>4, <1>5 DEF HttpNext

LEMMA ClientBleKeeps == TypeOK /\ ClientInv /\ BleNext => ClientInv'
<1> SUFFICES ASSUME TypeOK, ClientInv, BleNext PROVE ClientInv'
    OBVIOUS
<1>1. CASE Connect \/ TimeOut \/ \E c \in Commands : SendCommand(c)
    BY <1>1 DEF Connect, TimeOut, SendCommand, HostIdle, ClientInv, SessionHasClient
<1>2. CASE Disconnect
    BY <1>2 DEF Disconnect, DisconnectAborts, AbortSession, HostIdle, ClientInv, SessionHasClient
<1>3. CASE WriteData
    BY <1>3 DEF WriteData, AbortSession, HostIdle, ClientInv, SessionHasClient
<1>4. CASE Execute
    <2>1. conn /\ bleUp /\ UNCHANGED <<http, conn, bleUp>> /\ command' = None
        BY <1>4 DEF Execute, ClientInv
    <2>2. http.phase # "stop"
        BY <1>4 DEF Execute, ArchiveLockFree
    <2> QED BY <2>1, <2>2 DEF ClientInv, SessionHasClient
<1> QED BY <1>1, <1>2, <1>3, <1>4 DEF BleNext

LEMMA ClientInvariance == Spec => [](TypeOK /\ ClientInv)
<1>1. Init => ClientInv
    BY DEF Init, ClientInv, SessionHasClient, NoRequest
<1>2. TypeOK /\ ClientInv /\ UNCHANGED vars => ClientInv'
    BY DEF vars, ble, ClientInv, SessionHasClient
<1>3. TypeOK /\ ClientInv /\ [Next]_vars => ClientInv'
    BY <1>2, ClientHttpKeeps, ClientBleKeeps DEF Next
<1> QED BY <1>1, <1>3, TypeInitial, TypeKept, PTL DEF Spec

(* No upload session survives its connection, and BLE is never stopped     *)
(* under one (ble_provisioning.c:222, 397-400, 474).                       *)
THEOREM SessionsHaveClients == Spec => []SessionHasClient
<1>1. TypeOK /\ ClientInv => SessionHasClient
    BY DEF ClientInv
<1> QED BY ClientInvariance, <1>1, PTL

------------------------------------------------------------------------------
(* The transfer screen. *)

LEMMA OverlayKept == TypeOK /\ OverlayMeansTransfer /\ [Next]_vars => OverlayMeansTransfer'
<1> SUFFICES ASSUME TypeOK, OverlayMeansTransfer, [Next]_vars, overlay'
             PROVE  session' # NoSession \/ http'.phase \in {"upload", "load", "probe", "swap"}
    BY DEF OverlayMeansTransfer
<1>1. CASE \E n \in Names : HttpRead(n) \/ HttpDelete(n) \/ HttpUpload(n) \/ HttpInstall(n)
    <2>1. PICK n \in Names : HttpRead(n) \/ HttpDelete(n) \/ HttpUpload(n) \/ HttpInstall(n)
        BY <1>1
    <2>2. http.phase = "idle" /\ session' = session
        BY <2>1 DEF HttpRead, HttpDelete, HttpUpload, HttpInstall, ble
    <2>3. overlay' = overlay \/ http'.phase = "upload"
        <3>1. CASE HttpUpload(n)
            <4>1. CASE \E i \in Inodes : StartRequest("upload", n, i)
                BY <4>1 DEF StartRequest
            <4>2. CASE UNCHANGED <<http, temp, data, overlay, contended>>
                BY <4>2
            <4> QED BY <3>1, <4>1, <4>2 DEF HttpUpload
        <3>2. HttpRead(n) \/ HttpDelete(n) \/ HttpInstall(n) => overlay' = overlay
            <4>1. HttpRead(n) => overlay' = overlay
                BY DEF HttpRead
            <4>2. HttpDelete(n) => overlay' = overlay
                BY DEF HttpDelete
            <4>3. HttpInstall(n) => overlay' = overlay
                BY DEF HttpInstall
            <4> QED BY <4>1, <4>2, <4>3
        <3> QED BY <2>1, <3>1, <3>2
    <2> QED BY <2>2, <2>3 DEF OverlayMeansTransfer
<1>2. CASE HttpStreamed \/ InstallCheck \/ InstallStop
    BY <1>2 DEF HttpStreamed, InstallCheck, InstallStop, ble, OverlayMeansTransfer
<1>3. CASE HttpReceive \/ HttpComplete
    BY <1>3, ActiveRequest DEF HttpReceive, HttpComplete, Requests
<1>4. CASE HttpGiveUp \/ HttpSwap
    BY <1>4 DEF HttpGiveUp, HttpSwap, OverlayCleared
<1>5. CASE HttpProbe
    <2>1. http \in Requests
        BY <1>5, ActiveRequest DEF HttpProbe
    <2> QED BY <1>5, <2>1 DEF HttpProbe, OverlayCleared, Requests
<1>6. CASE Connect \/ TimeOut \/ \E c \in Commands : SendCommand(c)
    BY <1>6 DEF Connect, TimeOut, SendCommand, OverlayMeansTransfer
<1>7. CASE Disconnect
    BY <1>7, AbortType DEF Disconnect, DisconnectAborts
<1>8. CASE WriteData
    <2>1. session \in Sessions
        BY <1>8, ActiveSession DEF WriteData
    <2>2. ~ AbortSession
        BY AbortType
    <2>3. session' \in [name : Names, handle : Inodes, part : Nat]
        BY <1>8, <2>1, <2>2, TasksAssumption DEF WriteData, Sessions
    <2> QED BY <2>3, TasksAssumption DEF NoSession
<1>9. CASE Execute
    <2>1. CASE Begin(command.name)
        <3>1. CASE UNCHANGED <<session, volume, reader, overlay, contended>>
            BY <1>9, <3>1 DEF Execute, OverlayMeansTransfer
        <3>2. CASE \E i \in Inodes :
                       session' = [name |-> command.name, handle |-> i, part |-> 0]
            BY <3>2, TasksAssumption DEF NoSession
        <3> QED BY <2>1, <3>1, <3>2 DEF Begin, OverlayCleared
    <2>2. CASE Commit \/ AbortSession
        BY <2>2, AbortType DEF Commit, OverlayCleared
    <2>3. CASE UNCHANGED <<session, overlay>>
        BY <1>9, <2>3 DEF Execute, OverlayMeansTransfer
    <2> QED BY <1>9, <2>1, <2>2, <2>3 DEF Execute
<1>10. CASE UNCHANGED vars
    BY <1>10 DEF vars, ble, OverlayMeansTransfer
<1> QED BY <1>1, <1>2, <1>3, <1>4, <1>5, <1>6, <1>7, <1>8, <1>9, <1>10
        DEF Next, HttpNext, BleNext

(* Whichever way each transfer of either task ends, the transfer screen    *)
(* goes with the last of them (app_main.c:83, boot_button.c:94).           *)
THEOREM OverlaysMeanTransfers == Spec => []OverlayMeansTransfer
<1>1. Init => OverlayMeansTransfer
    BY DEF Init, OverlayMeansTransfer
<1> QED BY <1>1, TypeInitial, TypeKept, OverlayKept, PTL DEF Spec

------------------------------------------------------------------------------
(* The archive lock. *)

(* While a handler streams a library, nobody switches the active archive:  *)
(* the other requests wait for the task, and the commands for the lock     *)
(* (docs/ARCHITECTURE.md:87-88).                                           *)
THEOREM StreamsUndisturbed == Spec => StreamUndisturbed
<1>1. [Next]_vars => [http.phase = "stream" /\ http'.phase = "stream" => UNCHANGED reader]_vars
    <2> SUFFICES ASSUME Next, http.phase = "stream" PROVE UNCHANGED reader
        OBVIOUS
    <2>1. CASE HttpNext
        BY <2>1 DEF HttpNext, HttpRead, HttpDelete, HttpUpload, HttpInstall, HttpStreamed,
                    InstallCheck, InstallStop, HttpReceive, HttpGiveUp, HttpComplete,
                    HttpProbe, HttpSwap
    <2>2. CASE BleNext
        BY <2>2 DEF BleNext, Connect, Disconnect, Execute, ArchiveLockFree, TimeOut,
                    WriteData, SendCommand
    <2> QED BY <2>1, <2>2 DEF Next
<1> QED BY <1>1, PTL DEF Spec, StreamUndisturbed
------------------------------------------------------------------------------
(* One slot for both tasks: where the staging file is, and whose it is. *)

Staging == http.phase \in {"upload", "check", "stop", "load"}
Installing == http.phase \in {"probe", "swap"}

(* A file is at one path: the staging file is no pack, and neither is the  *)
(* file a web upload still has open, since nobody else installs under the  *)
(* archive lock.  A session's file may be one.                             *)
PlacesInv ==
    /\ \A m, n \in Names : packs[m] # None /\ packs[m] = packs[n] => m = n
    /\ temp # None => \A n \in Names : packs[n] # temp
    /\ Staging => http.handle # None /\ \A n \in Names : packs[n] # http.handle
    /\ ~ Staging => http.handle = None

(* A file that an upload opened has lost the old pack that was in it.      *)
Renewed(i) == \A b \in Blocks : data[i][b] # "old"
RenewedInv ==
    /\ temp # None => Renewed(temp)
    /\ session # NoSession => Renewed(session.handle)
    /\ http.handle # None => Renewed(http.handle)

(* An upload that no other joined has the staging file for itself.         *)
ApartInv ==
    ~ contended =>
        /\ Staging => /\ session = NoSession
                      /\ temp = http.handle
                      /\ \A b \in 1 .. http.part : data[temp][b] = "http"
        /\ Installing => /\ session = NoSession
                         /\ temp # None
                         /\ \A b \in Blocks : data[temp][b] = "http"
        /\ session # NoSession => /\ temp = session.handle
                                  /\ \A b \in 1 .. session.part : data[temp][b] = "ble"

SlotInv == PlacesInv /\ RenewedInv /\ ApartInv

LEMMA SlotInvInitial == Init => SlotInv
<1> SUFFICES ASSUME Init PROVE SlotInv
    OBVIOUS
<1>1. PICK installed \in SUBSET Names : packs = PlacedAtBoot(installed)
    BY DEF Init
<1>2. /\ packs \in [Names -> Inodes \cup {None}]
      /\ \A n \in Names : packs[n] # None <=> n \in installed
      /\ IsInjective(Restrict(packs, installed))
    BY <1>1, BootPlaces
<1>3. \A m, n \in Names : packs[m] # None /\ packs[m] = packs[n] => m = n
    BY <1>2 DEF IsInjective, Restrict
<1>4. /\ http.phase = "idle" /\ http.handle = None
      /\ session = NoSession /\ temp = None
    BY DEF Init, NoRequest
<1> QED BY <1>3, <1>4 DEF Staging, Installing, SlotInv, PlacesInv, RenewedInv, ApartInv

(* Nobody writes an old pack. *)
LEMMA RenewedStays ==
    ASSUME TypeOK, [Next]_vars
    PROVE  \A i \in Inodes : Renewed(i) => \A b \in Blocks : data'[i][b] # "old"
<1> SUFFICES ASSUME NEW i \in Inodes, Renewed(i)
             PROVE  \A b \in Blocks : data'[i][b] # "old"
    OBVIOUS
<1>1. CASE UNCHANGED data
    BY <1>1 DEF Renewed
<1>2. CASE \E j \in Inodes : StagingOpens(j)
    BY <1>2 DEF StagingOpens, Blank, Renewed, TypeOK
<1>3. CASE HttpReceive
    <2>1. data' = [data EXCEPT ![http.handle][http.part + 1] = "http"]
        BY <1>3 DEF HttpReceive
    <2>2. \A b \in Blocks : data'[i][b] \in {data[i][b], "http"}
        BY <2>1 DEF TypeOK
    <2> QED BY <2>2 DEF Renewed
<1>4. CASE WriteData
    <2>1. \/ data' = [data EXCEPT ![session.handle][session.part + 1] = "ble"]
          \/ data' = data
        BY <1>4 DEF WriteData
    <2>2. \A b \in Blocks : data'[i][b] \in {data[i][b], "ble"}
        BY <2>1 DEF TypeOK
    <2> QED BY <2>2 DEF Renewed
<1>5. CASE HttpNext /\ ~ HttpReceive
    <2>1. \/ UNCHANGED data
          \/ \E j \in Inodes : StagingOpens(j)
        BY <1>5 DEF HttpNext, HttpRead, HttpDelete, HttpUpload, HttpInstall, HttpStreamed,
                    InstallCheck, InstallStop, HttpGiveUp, HttpComplete, HttpProbe, HttpSwap,
                    RemovePack, volume
    <2> QED BY <1>1, <1>2, <2>1
<1>6. CASE BleNext /\ ~ WriteData
    <2>1. \/ UNCHANGED data
          \/ \E j \in Inodes : StagingOpens(j)
        BY <1>6 DEF BleNext, Connect, Disconnect, Execute, Begin, Commit, RemovePack, TimeOut,
                    SendCommand, volume
    <2> QED BY <1>1, <1>2, <2>1
<1>7. CASE UNCHANGED vars
    BY <1>1, <1>7 DEF vars, volume
<1> QED BY <1>3, <1>4, <1>5, <1>6, <1>7 DEF Next

(* What opening the staging file does to the invariant's other parts. *)
LEMMA StagingIsFresh ==
    ASSUME TypeOK, SlotInv, NEW i \in Inodes, StagingOpens(i)
    PROVE  /\ temp' = i
           /\ \A n \in Names : packs[n] # i
           /\ \A j \in Inodes : j # i => data'[j] = data[j]
           /\ \A b \in Blocks : data'[i][b] = "hole"
<1>1. \A n \in Names : packs[n] # i
    <2>1. CASE i = temp
        BY <2>1, TasksAssumption DEF SlotInv, PlacesInv
    <2>2. CASE i # temp
        <3>1. i \in FreeInodes
            BY <2>2 DEF StagingOpens
        <3> QED BY <3>1 DEF FreeInodes, Range, TypeOK
    <2> QED BY <2>1, <2>2
<1>2. data' = [data EXCEPT ![i] = Blank] /\ temp' = i
    BY DEF StagingOpens
<1> QED BY <1>1, <1>2 DEF Blank, TypeOK
(* The step leaves the files, the web upload and the session as they are.  *)
LEMMA SlotInvUntouched ==
    ASSUME SlotInv, UNCHANGED <<session, volume, contended>>,
           \/ UNCHANGED http
           \/ /\ ~ Staging /\ ~ Installing
              /\ http'.phase \in {"idle", "stream"} /\ http'.handle = None
    PROVE  SlotInv'
<1>1. UNCHANGED <<session, temp, packs, data, contended>>
    BY DEF volume
<1>2. CASE UNCHANGED http
    BY <1>1, <1>2 DEF SlotInv, PlacesInv, RenewedInv, ApartInv, Renewed, Staging, Installing
<1>3. CASE /\ ~ Staging /\ ~ Installing
           /\ http'.phase \in {"idle", "stream"} /\ http'.handle = None
    <2>1. ~ Staging' /\ ~ Installing'
        BY <1>3 DEF Staging, Installing
    <2> QED BY <1>1, <1>3, <2>1 DEF SlotInv, PlacesInv, RenewedInv, ApartInv, Renewed
<1> QED BY <1>2, <1>3

(* The web upload ends without a pack. *)
LEMMA SlotInvAbandoned ==
    ASSUME SlotInv, Abandon, Staging \/ Installing, UNCHANGED <<session, packs, data, contended>>
    PROVE  SlotInv'
<1>1. temp' \in {temp, None} /\ http'.phase = "idle" /\ http'.handle = None
    BY DEF Abandon, StagingUnlinked, NoRequest
<1>2. ~ Staging' /\ ~ Installing'
    BY <1>1 DEF Staging, Installing
<1>3. PlacesInv' /\ RenewedInv'
    BY <1>1, <1>2 DEF SlotInv, PlacesInv, RenewedInv, Renewed
<1>4. ~ contended => session = NoSession
    BY DEF SlotInv, ApartInv
<1> QED BY <1>2, <1>3, <1>4 DEF SlotInv, ApartInv

(* The session ends without a pack, or there was none. *)
LEMMA SlotInvAborted ==
    ASSUME SlotInv, AbortSession, UNCHANGED <<http, packs, data, contended>>
    PROVE  SlotInv'
<1>1. CASE session = NoSession
    <2>1. UNCHANGED <<session, volume, contended>>
        BY <1>1 DEF AbortSession, volume
    <2> QED BY <2>1, SlotInvUntouched
<1>2. CASE session # NoSession
    <2>1. temp' \in {temp, None} /\ session' = NoSession
        BY <1>2 DEF AbortSession, StagingUnlinked
    <2>2. PlacesInv' /\ RenewedInv'
        BY <2>1 DEF SlotInv, PlacesInv, RenewedInv, Renewed, Staging
    <2>3. ~ contended => ~ Staging /\ ~ Installing
        BY <1>2 DEF SlotInv, ApartInv
    <2>4. ApartInv'
        BY <2>1, <2>3 DEF ApartInv, Staging, Installing
    <2> QED BY <2>2, <2>4 DEF SlotInv
<1> QED BY <1>1, <1>2

(* A pack is removed, or not. *)
LEMMA SlotInvRemoved ==
    ASSUME TypeOK, SlotInv, NEW n \in Names, RemovePack(n), UNCHANGED <<http, session, contended>>
    PROVE  SlotInv'
<1>1. UNCHANGED <<temp, data>> /\ packs' \in {packs, [packs EXCEPT ![n] = None]}
    BY DEF RemovePack
<1>2. \A m \in Names : packs'[m] \in {packs[m], None}
    BY <1>1 DEF TypeOK
<1>3. (Staging' <=> Staging) /\ (Installing' <=> Installing)
    BY DEF Staging, Installing
<1>4. PlacesInv'
    <2>1. Staging => http.handle # None
        BY DEF SlotInv, PlacesInv
    <2> QED BY <1>1, <1>2, <1>3, <2>1 DEF SlotInv, PlacesInv
<1> QED BY <1>1, <1>3, <1>4 DEF SlotInv, RenewedInv, ApartInv, Renewed

(* What was received is installed: the staging file becomes a pack.        *)
LEMMA SlotInvInstalled ==
    ASSUME TypeOK, SlotInv, NEW n \in Names, SwapIn(n), UNCHANGED <<data, contended>>,
           http'.phase \in {"idle", "stream"}, http'.handle = None,
           ~ Staging, session' \in {session, NoSession},
           ~ contended => session' = NoSession
    PROVE  SlotInv'
<1>1. ~ Staging' /\ ~ Installing'
    BY DEF Staging, Installing
<1>2. /\ temp' \in {temp, None}
      /\ \/ packs' = packs
         \/ packs' = [packs EXCEPT ![n] = temp] /\ temp # None /\ temp' = None
    BY DEF SwapIn, StagingUnlinked
<1>3. PlacesInv'
    <2>1. CASE packs' = packs
        BY <1>1, <1>2, <2>1 DEF SlotInv, PlacesInv
    <2>2. CASE packs' = [packs EXCEPT ![n] = temp] /\ temp # None /\ temp' = None
        <3>1. \A m \in Names : packs'[m] = IF m = n THEN temp ELSE packs[m]
            BY <2>2 DEF TypeOK
        <3>2. \A m \in Names : packs[m] # temp
            BY <2>2 DEF SlotInv, PlacesInv
        <3> QED BY <1>1, <2>2, <3>1, <3>2 DEF SlotInv, PlacesInv
    <2> QED BY <1>2, <2>1, <2>2
<1>4. RenewedInv'
    BY <1>2 DEF SlotInv, RenewedInv, Renewed
<1>5. ApartInv'
    BY <1>1 DEF ApartInv
<1> QED BY <1>3, <1>4, <1>5 DEF SlotInv
(* A new upload opens the staging file. *)
LEMMA SlotInvOpens ==
    ASSUME TypeOK, SlotInv, [Next]_vars, NEW i \in Inodes, StagingOpens(i), UNCHANGED packs,
           \/ /\ http'.handle = i /\ http'.part = 0 /\ Staging' /\ UNCHANGED session
              /\ contended' = (session # NoSession)
           \/ /\ ~ Staging /\ ~ Installing /\ UNCHANGED http
              /\ session'.handle = i /\ session'.part = 0
    PROVE  SlotInv'
<1>1. /\ temp' = i
      /\ \A n \in Names : packs[n] # i
      /\ \A b \in Blocks : data'[i][b] = "hole"
    BY StagingIsFresh
<1>2. i # None
    BY TasksAssumption
<1>3. CASE /\ http'.handle = i /\ http'.part = 0 /\ Staging' /\ UNCHANGED session
           /\ contended' = (session # NoSession)
    <2>1. PlacesInv'
        BY <1>1, <1>2, <1>3 DEF SlotInv, PlacesInv
    <2>2. RenewedInv'
        <3>1. \A b \in Blocks : data'[i][b] # "old"
            BY <1>1
        <3>2. session # NoSession => \A b \in Blocks : data'[session.handle][b] # "old"
            <4>1. session # NoSession => session.handle \in Inodes /\ Renewed(session.handle)
                BY ActiveSession DEF SlotInv, RenewedInv, Sessions
            <4> QED BY <4>1, RenewedStays
        <3> QED BY <1>1, <1>3, <3>1, <3>2 DEF RenewedInv, Renewed
    <2>3. ~ Installing'
        BY <1>3 DEF Staging, Installing
    <2>4. ASSUME ~ contended' PROVE session = NoSession
        BY <1>3, <2>4
    <2>5. \A b \in 1 .. http'.part : FALSE
        BY <1>3
    <2>6. ApartInv'
        BY <1>1, <1>3, <2>3, <2>4, <2>5 DEF ApartInv
    <2> QED BY <2>1, <2>2, <2>6 DEF SlotInv
<1>4. CASE /\ ~ Staging /\ ~ Installing /\ UNCHANGED http
           /\ session'.handle = i /\ session'.part = 0
    <2>1. ~ Staging' /\ ~ Installing'
        BY <1>4 DEF Staging, Installing
    <2>2. PlacesInv'
        BY <1>1, <1>4, <2>1 DEF SlotInv, PlacesInv
    <2>3. RenewedInv'
        BY <1>1, <1>4, <2>1, <2>2 DEF RenewedInv, Renewed, PlacesInv
    <2>4. ApartInv'
        BY <1>1, <1>4, <2>1 DEF ApartInv
    <2> QED BY <2>2, <2>3, <2>4 DEF SlotInv
<1> QED BY <1>3, <1>4

LEMMA SlotInvReceives ==
    ASSUME TypeOK, SlotInv, [Next]_vars, HttpReceive
    PROVE  SlotInv'
<1>1. http \in Requests /\ http.phase \in {"upload", "load"} /\ http.part < Parts
    BY ActiveRequest DEF HttpReceive, Remaining
<1>2. http'.phase = http.phase /\ http'.handle = http.handle /\ http'.part = http.part + 1
    BY <1>1 DEF HttpReceive, Requests
<1>3. UNCHANGED <<session, temp, packs, contended>> /\ Staging /\ Staging' /\ ~ Installing'
    BY <1>1, <1>2 DEF HttpReceive, Staging, Installing, ble
<1>4. PlacesInv'
    BY <1>2, <1>3 DEF SlotInv, PlacesInv
<1>5. RenewedInv'
    <2>1. temp # None => \A b \in Blocks : data'[temp][b] # "old"
        <3>1. temp # None => temp \in Inodes /\ Renewed(temp)
            BY DEF SlotInv, RenewedInv, TypeOK
        <3> QED BY <3>1, RenewedStays
    <2>2. session # NoSession => \A b \in Blocks : data'[session.handle][b] # "old"
        <3>1. session # NoSession => session.handle \in Inodes /\ Renewed(session.handle)
            BY ActiveSession DEF SlotInv, RenewedInv, Sessions
        <3> QED BY <3>1, RenewedStays
    <2>3. http.handle # None => \A b \in Blocks : data'[http.handle][b] # "old"
        <3>1. http.handle # None => http.handle \in Inodes /\ Renewed(http.handle)
            BY <1>1 DEF SlotInv, RenewedInv, Requests
        <3> QED BY <3>1, RenewedStays
    <2> QED BY <1>2, <1>3, <2>1, <2>2, <2>3 DEF RenewedInv, Renewed
<1>6. ApartInv'
    <2> SUFFICES ASSUME ~ contended
                 PROVE  /\ session = NoSession /\ temp = http.handle
                        /\ \A b \in 1 .. http.part + 1 : data'[temp][b] = "http"
        BY <1>2, <1>3 DEF ApartInv
    <2>1. /\ session = NoSession /\ temp = http.handle
          /\ \A b \in 1 .. http.part : data[temp][b] = "http"
        BY <1>3 DEF SlotInv, ApartInv
    <2>2. temp \in Inodes
        BY <1>3, <2>1 DEF SlotInv, PlacesInv, TypeOK
    <2>3. http.part \in Nat /\ http.part + 1 \in Blocks
        BY <1>1, TasksAssumption DEF Requests, Blocks
    <2>4. \A b \in Blocks : data'[temp][b] = IF b = http.part + 1 THEN "http" ELSE data[temp][b]
        BY <2>1, <2>2 DEF HttpReceive, TypeOK
    <2>5. \A b \in 1 .. http.part + 1 : b \in Blocks /\ (b # http.part + 1 => b \in 1 .. http.part)
        BY <2>3, TasksAssumption DEF Blocks
    <2> QED BY <2>1, <2>4, <2>5
<1> QED BY <1>4, <1>5, <1>6 DEF SlotInv

LEMMA SlotInvWrites ==
    ASSUME TypeOK, SlotInv, [Next]_vars, WriteData
    PROVE  SlotInv'
<1>1. session # NoSession /\ session \in Sessions /\ session.part < Parts
    BY ActiveSession DEF WriteData
<1>2. UNCHANGED <<http, packs, contended>>
    BY DEF WriteData
<1>3. CASE AbortSession /\ UNCHANGED data
    BY <1>2, <1>3, SlotInvAborted
<1>4. CASE /\ data' = [data EXCEPT ![session.handle][session.part + 1] = "ble"]
           /\ session' = [session EXCEPT !.part = @ + 1]
           /\ UNCHANGED temp
    <2>1. session'.part = session.part + 1 /\ session'.handle = session.handle
        BY <1>1, <1>4 DEF Sessions
    <2>2. (Staging' <=> Staging) /\ (Installing' <=> Installing)
        BY <1>2 DEF Staging, Installing
    <2>3. PlacesInv'
        BY <1>2, <1>4, <2>2 DEF SlotInv, PlacesInv
    <2>4. RenewedInv'
        <3>1. temp # None => \A b \in Blocks : data'[temp][b] # "old"
            <4>1. temp # None => temp \in Inodes /\ Renewed(temp)
                BY DEF SlotInv, RenewedInv, TypeOK
            <4> QED BY <4>1, RenewedStays
        <3>2. \A b \in Blocks : data'[session.handle][b] # "old"
            <4>1. session.handle \in Inodes /\ Renewed(session.handle)
                BY <1>1 DEF SlotInv, RenewedInv, Sessions
            <4> QED BY <4>1, RenewedStays
        <3>3. http.handle # None => \A b \in Blocks : data'[http.handle][b] # "old"
            <4>1. http.handle \in Inodes \cup {None}
                BY DEF TypeOK, NoRequest
            <4>2. http.handle # None => Renewed(http.handle)
                BY DEF SlotInv, RenewedInv
            <4> QED BY <4>1, <4>2, RenewedStays
        <3> QED BY <1>2, <1>4, <2>1, <3>1, <3>2, <3>3 DEF RenewedInv, Renewed
    <2>5. ApartInv'
        <3> SUFFICES ASSUME ~ contended
                     PROVE  /\ ~ Staging /\ ~ Installing
                            /\ temp = session.handle
                            /\ \A b \in 1 .. session.part + 1 : data'[temp][b] = "ble"
            BY <1>2, <1>4, <2>1, <2>2 DEF ApartInv
        <3>1. /\ ~ Staging /\ ~ Installing /\ temp = session.handle
              /\ \A b \in 1 .. session.part : data[temp][b] = "ble"
            BY <1>1 DEF SlotInv, ApartInv
        <3>2. session.part \in Nat /\ session.part + 1 \in Blocks
            BY <1>1, TasksAssumption DEF Sessions, Blocks
        <3>3. \A b \in Blocks : data'[temp][b] = IF b = session.part + 1 THEN "ble" ELSE data[temp][b]
            BY <1>1, <1>4, <3>1 DEF TypeOK, Sessions
        <3>4. \A b \in 1 .. session.part + 1 :
                  b \in Blocks /\ (b # session.part + 1 => b \in 1 .. session.part)
            BY <1>1, <3>2, TasksAssumption DEF Blocks
        <3>5. \A b \in 1 .. session.part + 1 : data'[temp][b] = "ble"
            BY <3>1, <3>3, <3>4
        <3> QED BY <3>1, <3>5
    <2> QED BY <2>3, <2>4, <2>5 DEF SlotInv
<1> QED BY <1>3, <1>4 DEF WriteData

LEMMA SlotInvHttpKeeps ==
    ASSUME TypeOK, SlotInv, HttpNext
    PROVE  SlotInv'
<1>1. ASSUME NEW n \in Names, HttpRead(n) PROVE SlotInv'
    <2>1. /\ UNCHANGED <<session, volume, contended>> /\ http.phase = "idle"
          /\ http'.phase = "stream" /\ http'.handle = None
        BY <1>1 DEF HttpRead, StartRequest, ble
    <2> QED BY <2>1, SlotInvUntouched DEF Staging, Installing
<1>2. ASSUME NEW n \in Names, HttpDelete(n) PROVE SlotInv'
    BY <1>2, SlotInvRemoved DEF HttpDelete, ble
<1>3. ASSUME NEW n \in Names, HttpUpload(n) \/ HttpInstall(n) PROVE SlotInv'
    <2>1. UNCHANGED <<session, packs>>
        BY <1>3 DEF HttpUpload, HttpInstall, ble
    <2>2. CASE UNCHANGED <<http, temp, data, contended>>
        BY <2>1, <2>2, SlotInvUntouched DEF volume
    <2>3. CASE /\ \E i \in Inodes, phase \in {"upload", "check"} :
                      StagingOpens(i) /\ StartRequest(phase, n, i)
               /\ contended' = (session # NoSession)
        <3>1. PICK i \in Inodes, phase \in {"upload", "check"} :
                       StagingOpens(i) /\ StartRequest(phase, n, i)
            BY <2>3
        <3>2. http'.handle = i /\ http'.part = 0 /\ Staging'
            BY <3>1 DEF StartRequest, Staging
        <3> QED BY <2>1, <2>3, <3>1, <3>2, SlotInvOpens DEF Next
    <2> QED BY <1>3, <2>2, <2>3 DEF HttpUpload, HttpInstall
<1>4. CASE HttpStreamed
    <2>1. /\ UNCHANGED <<session, volume, contended>> /\ http.phase = "stream"
          /\ http'.phase = "idle" /\ http'.handle = None
        BY <1>4 DEF HttpStreamed, NoRequest, ble
    <2> QED BY <2>1, SlotInvUntouched DEF Staging, Installing
<1>5. CASE InstallCheck \/ InstallStop
    <2>1. http \in Requests /\ http.phase \in {"check", "stop"}
        BY <1>5, ActiveRequest DEF InstallCheck, InstallStop
    <2>2. UNCHANGED <<session, packs, data, contended>>
        BY <1>5 DEF InstallCheck, InstallStop, ble
    <2>3. CASE Abandon
        BY <2>1, <2>2, <2>3, SlotInvAbandoned DEF Staging
    <2>4. CASE \E p \in {"stop", "load"} : http' = [http EXCEPT !.phase = p] /\ UNCHANGED temp
        <3>1. /\ http'.phase \in {"stop", "load"} /\ http'.part = http.part
              /\ http'.handle = http.handle
            BY <2>1, <2>4 DEF Requests
        <3>2. Staging /\ Staging' /\ ~ Installing'
            BY <2>1, <3>1 DEF Staging, Installing
        <3> QED BY <2>2, <2>4, <3>1, <3>2
                DEF SlotInv, PlacesInv, RenewedInv, ApartInv, Renewed
    <2> QED BY <1>5, <2>3, <2>4 DEF InstallCheck, InstallStop
<1>6. CASE HttpReceive
    BY <1>6, SlotInvReceives DEF Next, HttpNext
<1>7. CASE HttpGiveUp
    BY <1>7, SlotInvAbandoned DEF HttpGiveUp, Staging
<1>8. CASE HttpComplete
    <2>1. /\ http.phase \in {"upload", "load"} /\ http.part = Parts
          /\ http'.phase = "probe" /\ http'.handle = None
          /\ UNCHANGED <<session, temp, packs, data, contended>>
        BY <1>8, ActiveRequest DEF HttpComplete, Requests, volume
    <2>2. Staging /\ ~ Staging' /\ Installing'
        BY <2>1 DEF Staging, Installing
    <2>3. PlacesInv' /\ RenewedInv'
        BY <2>1, <2>2 DEF SlotInv, PlacesInv, RenewedInv, Renewed
    <2>4. ~ contended => /\ session = NoSession /\ temp # None
                         /\ \A b \in Blocks : data[temp][b] = "http"
        BY <2>1, <2>2 DEF SlotInv, PlacesInv, ApartInv, Blocks
    <2> QED BY <2>1, <2>2, <2>3, <2>4 DEF SlotInv, ApartInv
<1>9. CASE HttpProbe
    <2>1. http \in Requests /\ http.phase = "probe" /\ UNCHANGED <<session, packs, data, contended>>
        BY <1>9, ActiveRequest DEF HttpProbe, ble
    <2>2. CASE Abandon
        BY <2>1, <2>2, SlotInvAbandoned DEF Installing
    <2>3. CASE http' = [http EXCEPT !.phase = "swap"] /\ UNCHANGED temp
        <3>1. http'.phase = "swap" /\ http'.handle = http.handle
            BY <2>1, <2>3 DEF Requests
        <3>2. ~ Staging /\ ~ Staging' /\ Installing /\ Installing'
            BY <2>1, <3>1 DEF Staging, Installing
        <3> QED BY <2>1, <2>3, <3>1, <3>2
                DEF SlotInv, PlacesInv, RenewedInv, ApartInv, Renewed
    <2> QED BY <1>9, <2>2, <2>3 DEF HttpProbe
<1>10. CASE HttpSwap
    <2>1. /\ http \in Requests /\ http.phase = "swap" /\ SwapIn(http.name)
          /\ http'.phase = "idle" /\ http'.handle = None
          /\ UNCHANGED <<session, data, contended>>
        BY <1>10, ActiveRequest DEF HttpSwap, NoRequest, ble
    <2>2. http.name \in Names /\ ~ Staging /\ Installing
        BY <2>1 DEF Requests, Staging, Installing
    <2>3. ~ contended => session = NoSession
        BY <2>2 DEF SlotInv, ApartInv
    <2> QED BY <2>1, <2>2, <2>3, SlotInvInstalled
<1> QED BY <1>1, <1>2, <1>3, <1>4, <1>5, <1>6, <1>7, <1>8, <1>9, <1>10 DEF HttpNext

LEMMA SlotInvBleKeeps ==
    ASSUME TypeOK, SlotInv, BleNext
    PROVE  SlotInv'
<1>1. CASE Connect \/ TimeOut \/ \E c \in Commands : SendCommand(c)
    <2>1. UNCHANGED <<http, session, volume, contended>>
        BY <1>1 DEF Connect, TimeOut, SendCommand
    <2> QED BY <2>1, SlotInvUntouched
<1>2. CASE Disconnect
    BY <1>2, SlotInvAborted DEF Disconnect, DisconnectAborts
<1>3. CASE WriteData
    BY <1>3, SlotInvWrites DEF Next, BleNext
<1>4. CASE Execute
    <2>1. /\ UNCHANGED http /\ http.phase = "idle" /\ ~ Staging /\ ~ Installing
          /\ command \in Commands
        BY <1>4 DEF Execute, ArchiveLockFree, Staging, Installing, TypeOK
    <2>2. CASE command.op = "begin" /\ Begin(command.name)
        <3>1. CASE UNCHANGED <<session, volume, contended>>
            BY <2>1, <3>1, SlotInvUntouched
        <3>2. CASE /\ UNCHANGED packs
                   /\ \E i \in Inodes :
                          /\ StagingOpens(i)
                          /\ session' = [name |-> command.name, handle |-> i, part |-> 0]
            <4>1. PICK i \in Inodes :
                          /\ StagingOpens(i)
                          /\ session' = [name |-> command.name, handle |-> i, part |-> 0]
                BY <3>2
            <4>2. session'.handle = i /\ session'.part = 0
                BY <4>1
            <4> QED BY <1>4, <2>1, <3>2, <4>1, <4>2, SlotInvOpens DEF Next, BleNext
        <3> QED BY <2>2, <3>1, <3>2 DEF Begin, volume
    <2>3. CASE Commit /\ UNCHANGED contended
        <3>1. CASE AbortSession /\ UNCHANGED <<packs, data, reader>>
            BY <2>1, <2>3, <3>1, SlotInvAborted
        <3>2. CASE /\ session.part = Parts /\ session' = NoSession /\ UNCHANGED data
                   /\ SwapIn(session.name)
            <4>1. session # NoSession
                BY <3>2, TasksAssumption DEF NoSession
            <4>2. session.name \in Names /\ http.handle = None
                BY <2>1, <4>1, ActiveSession DEF Sessions, SlotInv, PlacesInv
            <4> QED BY <2>1, <2>3, <3>2, <4>2, SlotInvInstalled
        <3>3. CASE /\ session.part = Parts /\ session' = NoSession /\ UNCHANGED <<packs, data>>
                   /\ StagingUnlinked
            <4>1. session # NoSession
                BY <3>3, TasksAssumption DEF NoSession
            <4>2. session.name \in Names /\ http.handle = None
                BY <2>1, <4>1, ActiveSession DEF Sessions, SlotInv, PlacesInv
            <4> QED BY <2>1, <2>3, <3>3, <4>2, SlotInvInstalled DEF SwapIn
        <3> QED BY <2>3, <3>1, <3>2, <3>3 DEF Commit
    <2>4. CASE AbortSession /\ UNCHANGED <<packs, data, reader, contended>>
        BY <2>1, <2>4, SlotInvAborted
    <2>5. CASE /\ command.op = "delete" /\ RemovePack(command.name)
               /\ UNCHANGED <<session, overlay, contended>>
        <3>1. command.name \in Names
            BY <2>1, <2>5 DEF Commands
        <3> QED BY <2>1, <2>5, <3>1, SlotInvRemoved
    <2>6. CASE UNCHANGED <<session, volume, overlay, contended>>
        BY <2>1, <2>6, SlotInvUntouched
    <2> QED BY <1>4, <2>2, <2>3, <2>4, <2>5, <2>6 DEF Execute
<1> QED BY <1>1, <1>2, <1>3, <1>4 DEF BleNext

LEMMA SlotInvKept == TypeOK /\ SlotInv /\ [Next]_vars => SlotInv'
<1>1. SlotInv /\ UNCHANGED vars => SlotInv'
    BY SlotInvUntouched DEF vars, ble
<1> QED BY <1>1, SlotInvHttpKeeps, SlotInvBleKeeps DEF Next
------------------------------------------------------------------------------
(* One slot for both tasks: whose pack is where. *)

Outcomes == {"http", "ble", "mixture"}

LEMMA AuthorIs ==
    ASSUME NEW blocks, NEW w \in Writers, \A b \in Blocks : blocks[b] = w
    PROVE  Author(blocks) = w
<1>1. 1 \in Blocks
    BY TasksAssumption DEF Blocks
<1>2. \A v \in Writers : (\A b \in Blocks : blocks[b] = v) => v = w
    BY <1>1
<1>3. \E v \in Writers : \A b \in Blocks : blocks[b] = v
    OBVIOUS
<1> DEFINE author == CHOOSE v \in Writers : \A b \in Blocks : blocks[b] = v
<1>4. author \in Writers /\ \A b \in Blocks : blocks[b] = author
    BY <1>3
<1>5. author = w
    <2> HIDE DEF author
    <2> QED BY <1>2, <1>4
<1> QED BY <1>3, <1>5 DEF Author

(* A renewed file is a client's, or a mixture. *)
LEMMA RenewedAuthor ==
    ASSUME NEW blocks, \A b \in Blocks : blocks[b] # "old"
    PROVE  Author(blocks) \in Outcomes
<1>1. 1 \in Blocks
    BY TasksAssumption DEF Blocks
<1>2. CASE \E w \in Writers : \A b \in Blocks : blocks[b] = w
    <2>1. PICK w \in Writers : \A b \in Blocks : blocks[b] = w
        BY <1>2
    <2>2. w # "old"
        BY <1>1, <2>1
    <2>3. Author(blocks) = w
        BY <2>1, AuthorIs
    <2> QED BY <2>2, <2>3 DEF Writers, Outcomes
<1>3. CASE ~ \E w \in Writers : \A b \in Blocks : blocks[b] = w
    BY <1>3 DEF Author, Outcomes
<1> QED BY <1>2, <1>3

(* The library as the slot sees it, when packs stay, come, change and go.  *)
LEMMA LibraryStays ==
    ASSUME packs' = packs, \A n \in Names : packs[n] # None => data'[packs[n]] = data[packs[n]]
    PROVE  InstalledBy' = InstalledBy
BY DEF InstalledBy

LEMMA LibraryChanges ==
    ASSUME NEW n \in Names, NEW who,
           (IF packs'[n] = None THEN None ELSE Author(data'[packs'[n]])) = who,
           \A m \in Names \ {n} :
               packs'[m] = packs[m] /\ (packs[m] # None => data'[packs[m]] = data[packs[m]])
    PROVE  InstalledBy' = [InstalledBy EXCEPT ![n] = who]
<1> DEFINE At(m) == IF packs[m] = None THEN None ELSE Author(data[packs[m]])
<1> DEFINE Then(m) == IF packs'[m] = None THEN None ELSE Author(data'[packs'[m]])
<1>1. ASSUME NEW m \in Names PROVE Then(m) = IF m = n THEN who ELSE At(m)
    <2>1. CASE m = n
        BY <2>1
    <2>2. CASE m # n
        <3>1. packs'[m] = packs[m] /\ (packs[m] # None => data'[packs[m]] = data[packs[m]])
            BY <2>2
        <3> QED BY <2>2, <3>1
    <2> QED BY <2>1, <2>2
<1>2. InstalledBy' = [m \in Names |-> Then(m)]
    BY DEF InstalledBy
<1>3. InstalledBy = [m \in Names |-> At(m)]
    BY DEF InstalledBy
<1> HIDE DEF At, Then
<1>4. InstalledBy' = [m \in Names |-> IF m = n THEN who ELSE At(m)]
    BY <1>1, <1>2
<1> QED BY <1>3, <1>4

LEMMA LibraryGains ==
    ASSUME TypeOK, NEW n \in Names, temp # None, data' = data, packs' = [packs EXCEPT ![n] = temp]
    PROVE  InstalledBy' = [InstalledBy EXCEPT ![n] = Author(data[temp])]
<1>1. packs'[n] = temp /\ \A m \in Names \ {n} : packs'[m] = packs[m]
    BY DEF TypeOK
<1> QED BY <1>1, LibraryChanges

(* The uploads as the slot sees them. *)
WebUpload == [name |-> http.name, by |-> "http"]
BleUpload == [name |-> session.name, by |-> "ble"]

LEMMA UploadsAre ==
    ASSUME TypeOK
    PROVE  /\ WebUploads = IF Staging \/ Installing THEN {WebUpload} ELSE {}
           /\ BleUploads = IF session = NoSession THEN {} ELSE {BleUpload}
           /\ WebUpload \notin BleUploads
           /\ BleUpload \notin WebUploads
<1>1. http.phase \in {"idle", "stream"} <=> ~ (Staging \/ Installing)
    BY DEF TypeOK, NoRequest, Phases, Staging, Installing
<1>2. WebUpload # BleUpload
    <2>1. WebUpload.by = "http" /\ BleUpload.by = "ble"
        BY DEF WebUpload, BleUpload
    <2> QED BY <2>1
<1> QED BY <1>1, <1>2 DEF WebUploads, BleUploads, WebUpload, BleUpload
(* What the slot sees of steps that leave its uploads alone.               *)
LEMMA NothingSeen ==
    ASSUME InstalledBy' = InstalledBy, UploadsInProgress' = UploadsInProgress,
           contended' = contended, WrittenInto' = WrittenInto
    PROVE  [Slot!Next]_(Slot!svars)
BY DEF Slot!svars

LEMMA SameUploads ==
    ASSUME session' = NoSession <=> session = NoSession,
           session'.name = session.name, session'.handle = session.handle,
           \/ http' = http
           \/ /\ http'.name = http.name
              /\ http.phase \notin {"idle", "stream"} /\ http'.phase \notin {"idle", "stream"}
           \/ http.phase \in {"idle", "stream"} /\ http'.phase \in {"idle", "stream"}
    PROVE  /\ UploadsInProgress' = UploadsInProgress
           /\ packs' = packs => WrittenInto' = WrittenInto
<1>1. WebUploads' = WebUploads
    BY DEF WebUploads
<1>2. BleUploads' = BleUploads
    BY DEF BleUploads
<1>3. packs' = packs => WrittenInto' = WrittenInto
    BY DEF WrittenInto
<1> QED BY <1>1, <1>2, <1>3 DEF UploadsInProgress

LEMMA VolumeUnseen ==
    ASSUME UNCHANGED <<session, packs, data, contended>>,
           \/ http' = http
           \/ /\ http'.name = http.name
              /\ http.phase \notin {"idle", "stream"} /\ http'.phase \notin {"idle", "stream"}
           \/ http.phase \in {"idle", "stream"} /\ http'.phase \in {"idle", "stream"}
    PROVE  [Slot!Next]_(Slot!svars)
BY SameUploads, LibraryStays, NothingSeen

(* An upload begins: it opens the staging file. *)
LEMMA UploadBegins ==
    ASSUME TypeOK, SlotInv, NEW i \in Inodes, StagingOpens(i), packs' = packs,
           ~ Staging, ~ Installing, NEW n \in Names,
           \/ /\ http'.name = n /\ http'.phase \in {"upload", "check"} /\ UNCHANGED session
              /\ contended' = (session # NoSession)
           \/ /\ session = NoSession /\ session' # NoSession /\ session'.name = n
              /\ session'.handle = i
              /\ UNCHANGED http /\ contended' = FALSE
    PROVE  [Slot!Next]_(Slot!svars)
<1>1. /\ \A m \in Names : packs[m] # i
      /\ \A j \in Inodes : j # i => data'[j] = data[j]
    BY StagingIsFresh
<1>2. InstalledBy' = InstalledBy
    BY <1>1, LibraryStays DEF TypeOK
<1>3. UploadsInProgress = BleUploads /\ (BleUploads = {} <=> session = NoSession)
    BY UploadsAre DEF UploadsInProgress
<1>4. CASE /\ http'.name = n /\ http'.phase \in {"upload", "check"} /\ UNCHANGED session
           /\ contended' = (session # NoSession)
    <2>1. BleUploads' = BleUploads /\ WrittenInto' = WrittenInto
        BY <1>4 DEF BleUploads, WrittenInto
    <2>2. WebUploads' = {[name |-> n, by |-> "http"]}
        BY <1>4 DEF WebUploads
    <2>3. UploadsInProgress' = UploadsInProgress \cup {[name |-> n, by |-> "http"]}
        BY <1>3, <2>1, <2>2 DEF UploadsInProgress
    <2>4. \A u \in UploadsInProgress : u.by # "http"
        BY <1>3 DEF BleUploads
    <2>5. contended' = (UploadsInProgress # {})
        BY <1>3, <1>4
    <2>6. Slot!Begin(n, "http")
        BY <1>2, <2>1, <2>3, <2>4, <2>5 DEF Slot!Begin
    <2> QED BY <2>6 DEF Slot!Next
<1>5. CASE /\ session = NoSession /\ session' # NoSession /\ session'.name = n
           /\ session'.handle = i
           /\ UNCHANGED http /\ contended' = FALSE
    <2>1. UploadsInProgress = {}
        BY <1>3, <1>5
    <2>2. BleUploads' = {[name |-> n, by |-> "ble"]}
        BY <1>5 DEF BleUploads
    <2>3. WebUploads' = {}
        BY <1>5, UploadsAre DEF WebUploads
    <2>4. UploadsInProgress' = UploadsInProgress \cup {[name |-> n, by |-> "ble"]}
        BY <2>1, <2>2, <2>3 DEF UploadsInProgress
    <2>5. WrittenInto = {} /\ WrittenInto' = {}
        BY <1>1, <1>5 DEF WrittenInto
    <2>6. Slot!Begin(n, "ble")
        BY <1>2, <1>5, <2>1, <2>4, <2>5 DEF Slot!Begin
    <2> QED BY <2>6 DEF Slot!Next
<1> QED BY <1>4, <1>5

(* An upload ends without a pack. *)
LEMMA WebUploadDrops ==
    ASSUME TypeOK, Staging \/ Installing, http' = NoRequest,
           UNCHANGED <<session, packs, data, contended>>
    PROVE  [Slot!Next]_(Slot!svars)
<1>1. InstalledBy' = InstalledBy
    BY LibraryStays
<1>2. WebUploads' = {} /\ BleUploads' = BleUploads /\ WrittenInto' = WrittenInto
    BY DEF NoRequest, WebUploads, BleUploads, WrittenInto
<1>3. WebUpload \in UploadsInProgress /\ UploadsInProgress' = UploadsInProgress \ {WebUpload}
    BY <1>2, UploadsAre DEF UploadsInProgress
<1>4. UploadsInProgress' = {} => WrittenInto' = {}
    <2>1. UploadsInProgress' = {} => session = NoSession
        BY <1>2, UploadsAre DEF UploadsInProgress
    <2> QED BY <1>2, <2>1 DEF WrittenInto
<1>5. Slot!Drop(WebUpload)
    BY <1>1, <1>2, <1>3, <1>4 DEF Slot!Drop
<1> QED BY <1>3, <1>5 DEF Slot!Next

LEMMA BleUploadDrops ==
    ASSUME TypeOK, session # NoSession, session' = NoSession,
           UNCHANGED <<http, packs, data, contended>>
    PROVE  [Slot!Next]_(Slot!svars)
<1>1. InstalledBy' = InstalledBy
    BY LibraryStays
<1>2. WebUploads' = WebUploads /\ BleUploads' = {} /\ WrittenInto' = {}
    BY DEF WebUploads, BleUploads, WrittenInto
<1>3. BleUpload \in UploadsInProgress /\ UploadsInProgress' = UploadsInProgress \ {BleUpload}
    BY <1>2, UploadsAre DEF UploadsInProgress
<1>4. Slot!Drop(BleUpload)
    BY <1>1, <1>2, <1>3 DEF Slot!Drop
<1> QED BY <1>3, <1>4 DEF Slot!Next

LEMMA SessionAborts ==
    ASSUME TypeOK, AbortSession, UNCHANGED <<http, packs, data, contended>>
    PROVE  [Slot!Next]_(Slot!svars)
<1>1. CASE session = NoSession
    BY <1>1, VolumeUnseen DEF AbortSession
<1>2. CASE session # NoSession
    BY <1>2, BleUploadDrops DEF AbortSession
<1> QED BY <1>1, <1>2

(* An upload ends with a pack. *)
LEMMA WebUploadFinishes ==
    ASSUME TypeOK, SlotInv, http.phase = "swap", temp # None, http' = NoRequest,
           packs' = [packs EXCEPT ![http.name] = temp], UNCHANGED <<session, data, contended>>
    PROVE  [Slot!Next]_(Slot!svars)
<1> DEFINE who == Author(data[temp])
<1>1. http \in Requests /\ http.name \in Names /\ Installing /\ ~ Staging
    BY ActiveRequest DEF Requests, Installing, Staging
<1>2. InstalledBy' = [InstalledBy EXCEPT ![http.name] = who]
    BY <1>1, LibraryGains
<1>3. who \in Outcomes
    BY RenewedAuthor DEF SlotInv, RenewedInv, Renewed
<1>4. ~ contended => session = NoSession /\ who = "http"
    <2>1. ~ contended => session = NoSession /\ \A b \in Blocks : data[temp][b] = "http"
        BY <1>1 DEF SlotInv, ApartInv
    <2>2. "http" \in Writers
        BY DEF Writers
    <2> QED BY <2>1, <2>2, AuthorIs
<1>5. WebUploads' = {} /\ BleUploads' = BleUploads
    BY DEF NoRequest, WebUploads, BleUploads
<1>6. WebUpload \in UploadsInProgress /\ UploadsInProgress' = UploadsInProgress \ {WebUpload}
    BY <1>1, <1>5, UploadsAre DEF UploadsInProgress
<1>7. session = NoSession => WrittenInto' = {}
    BY DEF WrittenInto
<1>8. UploadsInProgress' = {} => WrittenInto' = {}
    <2>1. UploadsInProgress' = {} => session = NoSession
        BY <1>5, UploadsAre DEF UploadsInProgress
    <2> QED BY <1>7, <2>1
<1>9. WrittenInto' \subseteq (WrittenInto \ {http.name})
                             \cup (IF contended THEN {http.name} ELSE {})
    <2>1. WrittenInto' \ {http.name} \subseteq WrittenInto
        BY DEF WrittenInto, TypeOK
    <2>2. CASE contended
        BY <2>1, <2>2
    <2>3. CASE ~ contended
        BY <1>4, <1>7, <2>3
    <2> QED BY <2>2, <2>3
<1> HIDE DEF who
<1>10. \E w \in (IF contended THEN {"http", "ble"} \cup {"mixture"} ELSE {WebUpload.by}) :
           InstalledBy' = [InstalledBy EXCEPT ![WebUpload.name] = w]
    BY <1>2, <1>3, <1>4 DEF Outcomes, WebUpload
<1>11. WebUpload.name = http.name
    BY DEF WebUpload
<1>12. Slot!Finish(WebUpload)
    BY <1>6, <1>8, <1>9, <1>10, <1>11 DEF Slot!Finish, Slot!Outcomes
<1> QED BY <1>6, <1>12 DEF Slot!Next

LEMMA BleUploadFinishes ==
    ASSUME TypeOK, SlotInv, session.part = Parts, temp # None, session' = NoSession,
           http.phase = "idle",
           packs' = [packs EXCEPT ![session.name] = temp], UNCHANGED <<http, data, contended>>
    PROVE  [Slot!Next]_(Slot!svars)
<1> DEFINE who == Author(data[temp])
<1>1. session # NoSession
    BY TasksAssumption DEF NoSession
<1>2. session.name \in Names
    BY <1>1, ActiveSession DEF Sessions
<1>3. InstalledBy' = [InstalledBy EXCEPT ![session.name] = who]
    BY <1>2, LibraryGains
<1>4. who \in Outcomes
    BY RenewedAuthor DEF SlotInv, RenewedInv, Renewed
<1>5. ~ contended => who = "ble"
    <2>1. ~ contended => \A b \in Blocks : data[temp][b] = "ble"
        BY <1>1 DEF SlotInv, ApartInv, Blocks
    <2>2. "ble" \in Writers
        BY DEF Writers
    <2> QED BY <2>1, <2>2, AuthorIs
<1>6. WebUploads' = WebUploads /\ BleUploads' = {} /\ WrittenInto' = {}
    BY DEF WebUploads, BleUploads, WrittenInto
<1>7. BleUpload \in UploadsInProgress /\ UploadsInProgress' = UploadsInProgress \ {BleUpload}
    BY <1>1, <1>6, UploadsAre DEF UploadsInProgress
<1> HIDE DEF who
<1>8. \E w \in (IF contended THEN {"http", "ble"} \cup {"mixture"} ELSE {BleUpload.by}) :
          InstalledBy' = [InstalledBy EXCEPT ![BleUpload.name] = w]
    BY <1>3, <1>4, <1>5 DEF Outcomes, BleUpload
<1>9. Slot!Finish(BleUpload)
    BY <1>6, <1>7, <1>8 DEF Slot!Finish, Slot!Outcomes
<1> QED BY <1>7, <1>9 DEF Slot!Next

LEMMA PackRemoved ==
    ASSUME TypeOK, NEW n \in Names, RemovePack(n), UNCHANGED <<http, session, contended>>
    PROVE  [Slot!Next]_(Slot!svars)
<1>1. data' = data /\ packs' \in {packs, [packs EXCEPT ![n] = None]}
    BY DEF RemovePack
<1>2. CASE packs' = packs
    BY <1>1, <1>2, VolumeUnseen
<1>3. CASE packs' = [packs EXCEPT ![n] = None]
    <2>1. packs'[n] = None /\ \A m \in Names \ {n} : packs'[m] = packs[m]
        BY <1>3 DEF TypeOK
    <2>2. InstalledBy' = [InstalledBy EXCEPT ![n] = None]
        BY <1>1, <2>1, LibraryChanges
    <2>3. UploadsInProgress' = UploadsInProgress
        BY SameUploads
    <2>4. session # NoSession => session.handle # None
        BY ActiveSession, TasksAssumption DEF Sessions
    <2>5. WrittenInto' = WrittenInto \ {n}
        BY <2>1, <2>4 DEF WrittenInto
    <2>6. Slot!Remove(n)
        BY <2>2, <2>3, <2>5 DEF Slot!Remove
    <2> QED BY <2>6 DEF Slot!Next
<1> QED BY <1>1, <1>2, <1>3

(* A block written through a session's handle may land in a pack. *)
LEMMA BlockWritten ==
    ASSUME TypeOK, SlotInv, WriteData, [Next]_vars,
           data' = [data EXCEPT ![session.handle][session.part + 1] = "ble"],
           session' = [session EXCEPT !.part = @ + 1]
    PROVE  [Slot!Next]_(Slot!svars)
<1>1. session # NoSession /\ session \in Sessions /\ UNCHANGED <<http, packs, contended>>
    BY ActiveSession DEF WriteData
<1>2. session'.name = session.name /\ session'.handle = session.handle
    BY <1>1 DEF Sessions
<1>3. session' # NoSession
    BY <1>1, <1>2, TasksAssumption DEF NoSession, Sessions
<1>4. UploadsInProgress' = UploadsInProgress /\ WrittenInto' = WrittenInto
    BY <1>1, <1>2, <1>3, SameUploads
<1>5. \A j \in Inodes : j # session.handle => data'[j] = data[j]
    BY DEF TypeOK
<1>6. CASE \A n \in Names : packs[n] # session.handle
    <2>1. InstalledBy' = InstalledBy
        BY <1>1, <1>5, <1>6, LibraryStays DEF TypeOK
    <2> QED BY <1>1, <1>4, <2>1, NothingSeen
<1>7. CASE \E n \in Names : packs[n] = session.handle
    <2>1. PICK n \in Names : packs[n] = session.handle
        BY <1>7
    <2>2. session.handle \in Inodes /\ session.handle # None
        BY <1>1, TasksAssumption DEF Sessions
    <2>3. \A m \in Names \ {n} : packs[m] # session.handle
        BY <2>1, <2>2 DEF SlotInv, PlacesInv
    <2>4. \A m \in Names \ {n} :
              packs'[m] = packs[m] /\ (packs[m] # None => data'[packs[m]] = data[packs[m]])
        BY <1>1, <1>5, <2>3 DEF TypeOK
    <2> DEFINE who == Author(data'[session.handle])
    <2>5. who \in Outcomes
        <3>1. Renewed(session.handle)
            BY <1>1 DEF SlotInv, RenewedInv
        <3>2. \A b \in Blocks : data'[session.handle][b] # "old"
            BY <2>2, <3>1, RenewedStays
        <3> QED BY <3>2, RenewedAuthor
    <2>6. (IF packs'[n] = None THEN None ELSE Author(data'[packs'[n]])) = who
        BY <1>1, <2>1, <2>2
    <2> HIDE DEF who
    <2>7. InstalledBy' = [InstalledBy EXCEPT ![n] = who]
        BY <2>4, <2>6, LibraryChanges
    <2>8. n \in WrittenInto
        BY <1>1, <2>1 DEF WrittenInto
    <2>9. Slot!Spoil(n)
        BY <1>1, <1>4, <2>5, <2>7, <2>8 DEF Slot!Spoil, Outcomes
    <2> QED BY <2>9 DEF Slot!Next
<1> QED BY <1>6, <1>7
LEMMA HttpSlotStep ==
    ASSUME TypeOK, SlotInv, HttpNext
    PROVE  [Slot!Next]_(Slot!svars)
<1>1. ASSUME NEW n \in Names, HttpRead(n) PROVE [Slot!Next]_(Slot!svars)
    <2>1. /\ http.phase = "idle" /\ http'.phase = "stream"
          /\ UNCHANGED <<session, packs, data, contended>>
        BY <1>1 DEF HttpRead, StartRequest, ble, volume
    <2> QED BY <2>1, VolumeUnseen
<1>2. ASSUME NEW n \in Names, HttpDelete(n) PROVE [Slot!Next]_(Slot!svars)
    BY <1>2, PackRemoved DEF HttpDelete, ble
<1>3. ASSUME NEW n \in Names, HttpUpload(n) \/ HttpInstall(n) PROVE [Slot!Next]_(Slot!svars)
    <2>1. http.phase = "idle" /\ UNCHANGED <<session, packs>> /\ ~ Staging /\ ~ Installing
        BY <1>3 DEF HttpUpload, HttpInstall, ble, Staging, Installing
    <2>2. CASE UNCHANGED <<http, temp, data, contended>>
        BY <2>1, <2>2, VolumeUnseen
    <2>3. CASE /\ \E i \in Inodes, phase \in {"upload", "check"} :
                      StagingOpens(i) /\ StartRequest(phase, n, i)
               /\ contended' = (session # NoSession)
        <3>1. PICK i \in Inodes, phase \in {"upload", "check"} :
                       StagingOpens(i) /\ StartRequest(phase, n, i)
            BY <2>3
        <3>2. http'.name = n /\ http'.phase \in {"upload", "check"}
            BY <3>1 DEF StartRequest
        <3> QED BY <2>1, <2>3, <3>1, <3>2, UploadBegins
    <2> QED BY <1>3, <2>2, <2>3 DEF HttpUpload, HttpInstall
<1>4. CASE HttpStreamed
    <2>1. /\ http.phase = "stream" /\ http'.phase = "idle"
          /\ UNCHANGED <<session, packs, data, contended>>
        BY <1>4 DEF HttpStreamed, NoRequest, ble, volume
    <2> QED BY <2>1, VolumeUnseen
<1>5. CASE InstallCheck \/ InstallStop
    <2>1. http \in Requests /\ http.phase \in {"check", "stop"} /\ Staging
        BY <1>5, ActiveRequest DEF InstallCheck, InstallStop, Staging
    <2>2. UNCHANGED <<session, packs, data, contended>>
        BY <1>5 DEF InstallCheck, InstallStop, ble
    <2>3. CASE http' = NoRequest
        BY <2>1, <2>2, <2>3, WebUploadDrops
    <2>4. CASE \E p \in {"stop", "load"} : http' = [http EXCEPT !.phase = p]
        <3>1. http'.phase \in {"stop", "load"} /\ http'.name = http.name
            BY <2>1, <2>4 DEF Requests
        <3> QED BY <2>1, <2>2, <3>1, VolumeUnseen
    <2> QED BY <1>5, <2>3, <2>4 DEF InstallCheck, InstallStop, Abandon
<1>6. CASE HttpReceive
    <2>1. http \in Requests /\ http.phase \in {"upload", "load"} /\ Staging
        BY <1>6, ActiveRequest DEF HttpReceive, Staging
    <2>2. /\ http'.phase = http.phase /\ http'.name = http.name
          /\ UNCHANGED <<session, packs, contended>>
        BY <1>6, <2>1 DEF HttpReceive, Requests, ble
    <2>3. \A j \in Inodes : j # http.handle => data'[j] = data[j]
        BY <1>6 DEF HttpReceive, TypeOK
    <2>4. \A n \in Names : packs[n] # http.handle
        BY <2>1 DEF SlotInv, PlacesInv
    <2>5. InstalledBy' = InstalledBy
        BY <2>2, <2>3, <2>4, LibraryStays DEF TypeOK
    <2>6. UploadsInProgress' = UploadsInProgress /\ WrittenInto' = WrittenInto
        BY <2>1, <2>2, SameUploads
    <2> QED BY <2>2, <2>5, <2>6, NothingSeen
<1>7. CASE HttpGiveUp
    BY <1>7, WebUploadDrops DEF HttpGiveUp, Abandon, Staging
<1>8. CASE HttpComplete
    <2>1. /\ http.phase \in {"upload", "load"} /\ http'.phase = "probe" /\ http'.name = http.name
          /\ UNCHANGED <<session, packs, data, contended>>
        BY <1>8, ActiveRequest DEF HttpComplete, Requests, volume
    <2> QED BY <2>1, VolumeUnseen
<1>9. CASE HttpProbe
    <2>1. http.phase = "probe" /\ Installing /\ UNCHANGED <<session, packs, data, contended>>
        BY <1>9 DEF HttpProbe, Installing, ble
    <2>2. CASE http' = [http EXCEPT !.phase = "swap"]
        <3>1. http'.phase = "swap" /\ http'.name = http.name
            BY <2>1, <2>2, ActiveRequest DEF Requests
        <3> QED BY <2>1, <3>1, VolumeUnseen
    <2>3. CASE http' = NoRequest
        BY <2>1, <2>3, WebUploadDrops
    <2> QED BY <1>9, <2>2, <2>3 DEF HttpProbe, Abandon
<1>10. CASE HttpSwap
    <2>1. /\ http.phase = "swap" /\ http' = NoRequest /\ SwapIn(http.name) /\ Installing
          /\ UNCHANGED <<session, data, contended>>
        BY <1>10 DEF HttpSwap, Installing, ble
    <2>2. CASE packs' = packs
        BY <2>1, <2>2, WebUploadDrops
    <2>3. CASE temp # None /\ packs' = [packs EXCEPT ![http.name] = temp]
        BY <2>1, <2>3, WebUploadFinishes
    <2> QED BY <2>1, <2>2, <2>3 DEF SwapIn
<1> QED BY <1>1, <1>2, <1>3, <1>4, <1>5, <1>6, <1>7, <1>8, <1>9, <1>10 DEF HttpNext

LEMMA BleSlotStep ==
    ASSUME TypeOK, SlotInv, BleNext
    PROVE  [Slot!Next]_(Slot!svars)
<1>1. CASE Connect \/ TimeOut \/ \E c \in Commands : SendCommand(c)
    <2>1. UNCHANGED <<http, session, packs, data, contended>>
        BY <1>1 DEF Connect, TimeOut, SendCommand, volume
    <2> QED BY <2>1, VolumeUnseen
<1>2. CASE Disconnect
    BY <1>2, SessionAborts DEF Disconnect, DisconnectAborts
<1>3. CASE WriteData
    <2>1. CASE AbortSession /\ UNCHANGED data
        BY <1>3, <2>1, SessionAborts DEF WriteData
    <2>2. CASE /\ data' = [data EXCEPT ![session.handle][session.part + 1] = "ble"]
               /\ session' = [session EXCEPT !.part = @ + 1]
        BY <1>3, <2>2, BlockWritten DEF Next, BleNext
    <2> QED BY <1>3, <2>1, <2>2 DEF WriteData
<1>4. CASE Execute
    <2>1. /\ UNCHANGED http /\ http.phase = "idle" /\ ~ Staging /\ ~ Installing
          /\ command \in Commands
        BY <1>4 DEF Execute, ArchiveLockFree, Staging, Installing, TypeOK
    <2>2. CASE command.op = "begin" /\ Begin(command.name)
        <3>1. CASE UNCHANGED <<session, packs, data, contended>>
            BY <2>1, <3>1, VolumeUnseen
        <3>2. CASE /\ session = NoSession /\ UNCHANGED packs /\ contended' = FALSE
                   /\ \E i \in Inodes :
                          /\ StagingOpens(i)
                          /\ session' = [name |-> command.name, handle |-> i, part |-> 0]
            <4>1. PICK i \in Inodes :
                          /\ StagingOpens(i)
                          /\ session' = [name |-> command.name, handle |-> i, part |-> 0]
                BY <3>2
            <4>2. command.name \in Names
                BY <2>1, <2>2 DEF Commands
            <4>3. session'.handle = i /\ session'.name = command.name
                BY <4>1
            <4>4. session' # NoSession
                BY <4>3, TasksAssumption DEF NoSession
            <4> QED BY <2>1, <3>2, <4>1, <4>2, <4>3, <4>4, UploadBegins
        <3> QED BY <2>2, <3>1, <3>2 DEF Begin, SessionFree, volume
    <2>3. CASE Commit /\ UNCHANGED contended
        <3>1. CASE AbortSession /\ UNCHANGED <<packs, data, reader>>
            BY <2>1, <2>3, <3>1, SessionAborts
        <3>2. CASE session.part = Parts /\ session' = NoSession /\ UNCHANGED <<packs, data>>
            <4>1. session # NoSession
                BY <3>2, TasksAssumption DEF NoSession
            <4> QED BY <2>1, <2>3, <3>2, <4>1, BleUploadDrops
        <3>3. CASE /\ session.part = Parts /\ session' = NoSession /\ data' = data
                   /\ temp # None /\ packs' = [packs EXCEPT ![session.name] = temp]
            BY <2>1, <2>3, <3>3, BleUploadFinishes
        <3> QED BY <2>3, <3>1, <3>2, <3>3 DEF Commit, SwapIn
    <2>4. CASE AbortSession /\ UNCHANGED <<packs, data, reader, contended>>
        BY <2>1, <2>4, SessionAborts
    <2>5. CASE /\ command.op = "delete" /\ RemovePack(command.name)
               /\ UNCHANGED <<session, overlay, contended>>
        <3>1. command.name \in Names
            BY <2>1, <2>5 DEF Commands
        <3> QED BY <2>1, <2>5, <3>1, PackRemoved
    <2>6. CASE UNCHANGED <<session, volume, overlay, contended>>
        BY <2>1, <2>6, VolumeUnseen DEF volume
    <2> QED BY <1>4, <2>2, <2>3, <2>4, <2>5, <2>6 DEF Execute
<1> QED BY <1>1, <1>2, <1>3, <1>4 DEF BleNext

LEMMA SlotInitial == Init => Slot!Init
<1> SUFFICES ASSUME Init PROVE Slot!Init
    OBVIOUS
<1>1. packs \in [Names -> Inodes \cup {None}]
    BY BootPlaces DEF Init
<1>2. ASSUME NEW n \in Names, packs[n] # None PROVE Author(data[packs[n]]) = "old"
    <2>1. packs[n] \in Inodes /\ packs[n] \in Range(packs)
        BY <1>1, <1>2 DEF Range
    <2>2. data[packs[n]] = [b \in Blocks |-> "old"]
        BY <2>1 DEF Init
    <2> QED BY <2>2, AuthorIs DEF Writers
<1>3. InstalledBy \in [Names -> {"old", None}]
    BY <1>2 DEF InstalledBy
<1>4. UploadsInProgress = {} /\ WrittenInto = {} /\ contended = FALSE
    BY DEF Init, NoRequest, UploadsInProgress, WebUploads, BleUploads, WrittenInto
<1> QED BY <1>3, <1>4 DEF Slot!Init

(* The two tasks implement the upload slot, however their steps interleave *)
(* and whichever calls on the volume fail: an upload that no other joined  *)
(* ends with its client's whole pack under the name it was begun with, or  *)
(* without one, and uploads that did overlap spoil no other name           *)
(* (pack_store.c:366-420, ble_provisioning.c:219-292, web_server.c:1219).  *)
THEOREM UploadsShareOneSlot == Spec => ImplementsSlot
<1>1. TypeOK /\ SlotInv /\ [Next]_vars => [Slot!Next]_(Slot!svars)
    <2>1. UNCHANGED vars => UNCHANGED <<http, session, packs, data, contended>>
        BY DEF vars, ble, volume
    <2> QED BY <2>1, VolumeUnseen, HttpSlotStep, BleSlotStep DEF Next
<1> QED BY <1>1, SlotInvInitial, SlotInvKept, TypeInitial, TypeKept, SlotInitial, PTL
        DEF Spec, ImplementsSlot, Slot!Spec
===============================================================================
