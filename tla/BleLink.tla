------------------------------ MODULE BleLink ------------------------------
(***************************************************************************)
(* The Bluetooth link of ble_provisioning.c: NimBLE brought up at boot and *)
(* around transfers, the advertising that makes it findable, and the       *)
(* questions a client asks over it.  bring_up() and bring_down() run in    *)
(* the httpd task, every callback in the NimBLE host task, one at a time.  *)
(* PackTasks models the uploads and the wait for the archive lock.         *)
(*                                                                         *)
(* The stack (nimble_port_*(), ble_gap_*()) and the client are external:   *)
(* any call may fail, the controller may reset, a connection may fail.     *)
(***************************************************************************)
EXTENDS Naturals, Sequences, FiniteSets

CONSTANTS
    Directories,   \* the orders the volume can list its packs in
    Guide,         \* the library in flash
    MaxSwaps,      \* bound: packs installed or removed
    MaxFailures    \* bound: calls that fail, resets

Known == {Guide} \cup UNION {{d[i] : i \in DOMAIN d} : d \in Directories}

(* pack_store_remove(): the rest of the volume keeps its order. *)
Without(d, p) == SelectSeq(d, LAMBDA q : q # p)

(* A directory lists no file twice, and scan_metadata() skips a copy of    *)
(* the library in flash (pack_store.c:164).                                *)
ASSUME LinkAssumption ==
    /\ IsFiniteSet(Known)
    /\ \A d \in Directories :
           /\ d \in Seq(Known \ {Guide})
           /\ \A i, j \in DOMAIN d : d[i] = d[j] => i = j
           /\ \A p \in Known : Without(d, p) \in Directories
    /\ MaxSwaps \in Nat
    /\ MaxFailures \in Nat

VARIABLES
    port,          \* the NimBLE port: off, ready, running, halted
    s_ble_up,
    s_stopping,
    sync_cb,       \* ble_hs_cfg.sync_cb is on_sync
    synced,        \* the host and the controller are in step
    advertising,
    s_conn,        \* a client is connected
    transfer,      \* the httpd task: how far a transfer's suspend is
    trouble,       \* which calls failed since they last succeeded
    listed,        \* pack_store_list_all()
    s_response,    \* the answer a client reads, and is notified of
    notify,        \* a notification is due
    client,        \* the client's enumeration: the count, the libraries, and
                   \* whether the volume kept still and could be read
    swaps, failures

hostVars == <<port, s_ble_up, s_stopping, sync_cb, synced, advertising, s_conn, transfer, trouble>>
answerVars == <<listed, s_response, notify, client, swaps>>
linkVars == <<hostVars, answerVars, failures>>

Answer(op, status, index, value) == [op |-> op, status |-> status, index |-> index, value |-> value]
NoAnswer == Answer("none", "ok", 0, Guide)
NotAsking == [count |-> 0, got |-> <<>>, steady |-> FALSE]
MostKnown == Cardinality(Known)

LinkTypeOK ==
    /\ port \in {"off", "ready", "running", "halted"}
    /\ {s_ble_up, s_stopping, sync_cb, synced, advertising, s_conn, notify} \subseteq BOOLEAN
    /\ transfer \in {"none", "checked", "marked", "halted", "loading"}
    /\ trouble \subseteq {"init", "stop", "advertise"}
    /\ listed \in Directories
    /\ s_response \in [op : {"none", "info", "packAt", "delete", "other"},
                       status : {"ok", "badCommand", "badArgument", "ioError", "notFound"},
                       index : 0 .. MostKnown, value : Known]
    /\ client.count \in 0 .. MostKnown /\ client.steady \in BOOLEAN
    /\ client.got \in Seq(Known) /\ Len(client.got) <= client.count
    /\ swaps \in 0 .. MaxSwaps /\ failures \in 0 .. MaxFailures

------------------------------------------------------------------------------
(* External: a call that may fail, at most MaxFailures times. *)
Fails(what) ==
    /\ failures < MaxFailures
    /\ failures' = failures + 1
    /\ trouble' = trouble \cup {what}
Succeeds(what) == trouble' = trouble \ {what} /\ UNCHANGED failures

(* advertise(): three calls of the stack in turn; nothing tries again. *)
Advertise ==
    \/ /\ s_stopping
       /\ advertising' = FALSE
       /\ UNCHANGED <<trouble, failures>>
    \/ /\ ~ s_stopping
       /\ \/ advertising' = TRUE /\ Succeeds("advertise")
          \/ advertising' = FALSE /\ Fails("advertise")

HostRuns == port = "running"

(* on_sync(), if it is still registered. *)
Sync ==
    /\ HostRuns /\ ~ synced
    /\ synced' = TRUE
    /\ IF sync_cb THEN Advertise ELSE UNCHANGED <<advertising, trouble, failures>>
    /\ UNCHANGED <<port, s_ble_up, s_stopping, sync_cb, s_conn, transfer, answerVars>>

(* The controller resets: connections and advertising end, and the calls   *)
(* to advertise again fail until it is in step.                            *)
Reset ==
    /\ HostRuns /\ synced
    /\ failures < MaxFailures /\ failures' = failures + 1
    /\ synced' = FALSE /\ advertising' = FALSE /\ s_conn' = FALSE
    /\ notify' = FALSE /\ client' = NotAsking
    /\ UNCHANGED <<port, s_ble_up, s_stopping, sync_cb, transfer, trouble, listed, s_response, swaps>>

(* gap_event() *)
FailedConnectIgnored == advertising' = FALSE /\ UNCHANGED <<trouble, failures>>
FailedConnect == Advertise

Connect ==
    /\ HostRuns /\ synced /\ advertising
    /\ \/ /\ s_conn' = TRUE
          /\ advertising' = FALSE
          /\ UNCHANGED <<trouble, failures>>
       \/ FailedConnect /\ UNCHANGED s_conn
    /\ UNCHANGED <<port, s_ble_up, s_stopping, sync_cb, synced, transfer, answerVars>>

Disconnect ==
    /\ HostRuns /\ synced /\ s_conn
    /\ s_conn' = FALSE
    /\ Advertise
    /\ notify' = FALSE /\ client' = NotAsking
    /\ UNCHANGED <<port, s_ble_up, s_stopping, sync_cb, synced, transfer, listed, s_response, swaps>>

AdvertisingComplete ==
    /\ HostRuns /\ synced /\ advertising
    /\ Advertise
    /\ UNCHANGED <<port, s_ble_up, s_stopping, sync_cb, synced, s_conn, transfer, answerVars>>

------------------------------------------------------------------------------
(* bring_down(): the connection is checked, the host told, then stopped,   *)
(* and the port released.  A transfer holds the archive lock throughout.   *)

Suspend ==
    /\ transfer = "none"
    /\ \/ ~ s_ble_up /\ transfer' = "loading"
       \/ s_ble_up /\ ~ s_conn /\ transfer' = "checked"
    /\ UNCHANGED <<port, s_ble_up, s_stopping, sync_cb, synced, advertising, s_conn, trouble,
                   answerVars, failures>>

MarkStopping ==
    /\ transfer = "checked"
    /\ sync_cb' = FALSE /\ s_stopping' = TRUE
    /\ transfer' = "marked"
    /\ UNCHANGED <<port, s_ble_up, synced, advertising, s_conn, trouble, answerVars, failures>>

(* nimble_port_stop(): it fails at once when the host is not running, and  *)
(* otherwise may.  A client that slipped in is disconnected.               *)
StopHost ==
    /\ transfer = "marked"
    /\ \/ /\ HostRuns
          /\ port' = "halted" /\ transfer' = "halted"
          /\ synced' = FALSE /\ advertising' = FALSE /\ s_conn' = FALSE
          /\ notify' = FALSE /\ client' = NotAsking
          /\ UNCHANGED <<s_stopping, trouble, failures>>
       \/ /\ s_stopping' = FALSE /\ transfer' = "none"
          /\ IF HostRuns THEN Fails("stop")
             ELSE trouble' = trouble \cup {"stop"} /\ UNCHANGED failures
          /\ UNCHANGED <<port, synced, advertising, s_conn, notify, client>>
    /\ UNCHANGED <<s_ble_up, sync_cb, listed, s_response, swaps>>

(* nimble_port_deinit() *)
ReleasePort ==
    /\ transfer = "halted"
    /\ s_stopping' = FALSE
    /\ \/ /\ port' = "off" /\ s_ble_up' = FALSE /\ transfer' = "loading"
          /\ UNCHANGED <<trouble, failures>>
       \/ Fails("stop") /\ transfer' = "none" /\ UNCHANGED <<port, s_ble_up>>
    /\ UNCHANGED <<sync_cb, synced, advertising, s_conn, answerVars>>

(* bring_up(), at boot and when a transfer has ended. *)
BringUp ==
    \/ /\ port = "off"
       /\ port' = "running" /\ s_ble_up' = TRUE /\ sync_cb' = TRUE
       /\ trouble' = {} /\ UNCHANGED failures
    \/ /\ port = "off"                              \* no memory
       /\ Fails("init") /\ UNCHANGED <<port, s_ble_up, sync_cb>>
    \/ /\ port = "off"                              \* the services are refused
       /\ Fails("init") /\ port' = "ready" /\ UNCHANGED <<s_ble_up, sync_cb>>
    \/ /\ port = "ready"                            \* initialised already
       /\ trouble' = trouble \cup {"init"}
       /\ UNCHANGED <<port, s_ble_up, sync_cb, failures>>

Resume ==
    /\ transfer = "loading"
    /\ transfer' = "none"
    /\ BringUp
    /\ UNCHANGED <<s_stopping, synced, advertising, s_conn, answerVars>>

------------------------------------------------------------------------------
(* control_access().  Whoever holds the archive lock for two seconds makes *)
(* it answer PW_BLE_IO_ERROR, a transfer always.  The answer is complete   *)
(* before the notification set_response() asked for is sent.               *)

Respond(answer) == s_response' = answer /\ notify' = TRUE
MayAsk == HostRuns /\ synced /\ s_conn /\ ~ notify
LinkKept == UNCHANGED <<hostVars, failures>>

TimesOut(op) ==
    /\ MayAsk
    /\ Respond(Answer(op, "ioError", 0, Guide))
    /\ LinkKept /\ UNCHANGED <<listed, client, swaps>>

BadRequest(op) ==
    /\ MayAsk /\ transfer = "none"
    /\ Respond(Answer(op, IF op = "other" THEN "badCommand" ELSE "badArgument", 0, Guide))
    /\ LinkKept /\ UNCHANGED <<listed, client, swaps>>

(* respond_info(): a volume that cannot be read counts as an empty one.    *)
Info ==
    /\ MayAsk /\ transfer = "none"
    /\ \/ /\ Respond(Answer("info", "ok", Len(listed) + 1, Guide))
          /\ client' = [NotAsking EXCEPT !.steady = TRUE]
       \/ /\ Respond(Answer("info", "ok", 1, Guide))
          /\ client' = NotAsking
    /\ LinkKept /\ UNCHANGED <<listed, swaps>>

(* respond_pack_at(): the built-in library first, then the volume's packs. *)
InListByOne(i) == i < Len(listed)
InList(i) == i <= Len(listed)

PackAt(i) ==
    /\ MayAsk /\ transfer = "none"
    /\ \/ /\ i = 0
          /\ Respond(Answer("packAt", "ok", 0, Guide))
          /\ UNCHANGED client
       \/ /\ i > 0
          /\ Respond(IF InList(i) THEN Answer("packAt", "ok", i, listed[i])
                     ELSE Answer("packAt", "notFound", i, Guide))
          /\ UNCHANGED client
       \/ /\ i > 0                                  \* the volume cannot be read
          /\ Respond(Answer("packAt", "notFound", i, Guide))
          /\ client' = [client EXCEPT !.steady = FALSE]
    /\ LinkKept /\ UNCHANGED <<listed, swaps>>

(* delete_pack() *)
Delete(p) ==
    /\ MayAsk /\ transfer = "none"
    /\ IF \E i \in DOMAIN listed : listed[i] = p
       THEN /\ swaps < MaxSwaps /\ swaps' = swaps + 1
            /\ listed' = Without(listed, p)
            /\ Respond(Answer("delete", "ok", 0, Guide))
            /\ client' = [client EXCEPT !.steady = FALSE]
       ELSE /\ Respond(Answer("delete", "notFound", 0, Guide))
            /\ UNCHANGED <<listed, client, swaps>>
    /\ LinkKept

(* The web server installs or removes a pack between two commands. *)
VolumeChanges ==
    /\ swaps < MaxSwaps /\ swaps' = swaps + 1
    /\ listed' \in Directories \ {listed}
    /\ client' = [client EXCEPT !.steady = FALSE]
    /\ LinkKept /\ UNCHANGED <<s_response, notify>>

(* External: the client reads response_access() when it is notified, and   *)
(* keeps what answers its question.                                        *)
Kept(c, a) ==
    IF a.status # "ok" THEN c
    ELSE IF a.op = "info" THEN [c EXCEPT !.count = a.index, !.got = <<>>]
    ELSE IF a.op = "packAt" /\ a.index = Len(c.got) /\ Len(c.got) < c.count
         THEN [c EXCEPT !.got = Append(@, a.value)]
    ELSE c

ReadResponse ==
    /\ HostRuns /\ synced /\ s_conn /\ notify
    /\ notify' = FALSE
    /\ client' = Kept(client, s_response)
    /\ LinkKept /\ UNCHANGED <<listed, s_response, swaps>>

------------------------------------------------------------------------------
HostStep ==
    \/ Sync \/ Reset \/ Connect \/ Disconnect \/ AdvertisingComplete
    \/ \E op \in {"info", "packAt", "delete"} : TimesOut(op)
    \/ \E op \in {"packAt", "delete", "other"} : BadRequest(op)
    \/ Info \/ PackAt(Len(client.got)) \/ ReadResponse
    \/ \E p \in Known \ {Guide} : Delete(p)

HttpStep == Suspend \/ MarkStopping \/ StopHost \/ ReleasePort \/ Resume \/ VolumeChanges

LinkNext == HostStep \/ HttpStep

(* ble_provisioning_init() at boot, which restarts when it fails. *)
LinkInit ==
    /\ port = "running" /\ s_ble_up = TRUE /\ s_stopping = FALSE /\ sync_cb = TRUE
    /\ synced = FALSE /\ advertising = FALSE /\ s_conn = FALSE
    /\ transfer = "none" /\ trouble = {}
    /\ listed \in Directories
    /\ s_response = NoAnswer /\ notify = FALSE /\ client = NotAsking
    /\ swaps = 0 /\ failures = 0

LinkSpec == LinkInit /\ [][LinkNext]_linkVars

------------------------------------------------------------------------------
(* Properties *)

(* Bluetooth is up whenever no transfer holds it down, and a host that     *)
(* runs in step with its controller is advertising or has its client:      *)
(* nothing but a call of the stack that failed, and has not succeeded      *)
(* since, makes the device one a phone cannot find ("bring it back before  *)
(* the response ends", web_server.c:1847; ble_provisioning.c:391-441,      *)
(* 451-492).                                                               *)
BackAfterTransfer ==
    transfer = "none" /\ trouble \cap {"init", "stop"} = {} => s_ble_up /\ HostRuns
FindableOrTaken ==
    HostRuns /\ synced /\ ~ s_stopping /\ trouble = {} => advertising \/ s_conn
BleFindable == BackAfterTransfer /\ FindableOrTaken

(* A client that asks for the count and then for each library gets the     *)
(* built-in one and every installed pack once, and is told of none missing *)
(* before the count is reached, however often a command is answered with   *)
(* an error because a handler holds the lock, and whatever an earlier      *)
(* client was answered; as long as nobody installs or removes a pack and   *)
(* the volume can be read (ble_provisioning.c:178-217, 306-309).           *)
Whole == <<Guide>> \o listed
ListingIsWhole ==
    client.steady =>
        /\ client.got = SubSeq(Whole, 1, Len(client.got))
        /\ client.count > 0 => client.count = Len(Whole)
        /\ s_response.op = "packAt" /\ s_response.status = "notFound" /\ notify =>
               s_response.index >= client.count
==============================================================================
