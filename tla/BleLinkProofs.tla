----------------------------- MODULE BleLinkProofs -----------------------------
(***************************************************************************)
(* Proofs about the Bluetooth link, for every set of packs a volume can    *)
(* hold, any number of installs and removals and any number of failing     *)
(* calls of the stack.                                                     *)
(***************************************************************************)
EXTENDS BleLink, FiniteSetTheorems, SequenceTheorems, TLAPS

Statuses == {"ok", "badCommand", "badArgument", "ioError", "notFound"}
Questions == {"none", "info", "packAt", "delete", "other"}
Answers == [op : Questions, status : Statuses, index : 0 .. MostKnown, value : Known]

(* What the client has been told so far. *)
ClientTyped(c) ==
    /\ c \in [count : 0 .. MostKnown, got : Seq(Known), steady : BOOLEAN]
    /\ Len(c.got) <= c.count

------------------------------------------------------------------------------
(* Bringing Bluetooth up and down. *)

(* How far the httpd task is, against what it has done to the port; and    *)
(* what it takes for on_sync() not to be registered.                       *)
PortInv ==
    /\ port \in {"off", "ready", "running", "halted"}
    /\ s_ble_up <=> port \in {"running", "halted"}
    /\ transfer \in {"none", "checked", "marked", "halted", "loading"}
    /\ transfer \in {"checked", "marked", "halted"} => s_ble_up
    /\ transfer = "halted" => port = "halted"
    /\ port = "halted" => transfer = "halted" \/ "stop" \in trouble
    /\ port \in {"off", "ready"} => transfer = "loading" \/ "init" \in trouble
    /\ HostRuns /\ ~ sync_cb => s_stopping \/ "stop" \in trouble
    /\ ~ HostRuns => ~ synced
    /\ FindableOrTaken

(* Advertise changes only what it says, and leaves the host findable       *)
(* unless it is about to stop.                                             *)
LEMMA AdvertiseLeaves ==
    ASSUME Advertise
    PROVE  /\ \A what \in {"init", "stop"} : what \in trouble => what \in trouble'
           /\ advertising' \in {TRUE, FALSE}
           /\ advertising' \/ s_stopping \/ trouble' # {}
BY DEF Advertise, Fails, Succeeds

LEMMA PortHostKeeps ==
    ASSUME PortInv, HostStep
    PROVE  PortInv'
<1>1. CASE Sync
    <2>1. UNCHANGED <<port, s_ble_up, s_stopping, sync_cb, s_conn, transfer>> /\ HostRuns
        BY <1>1 DEF Sync
    <2>2. /\ \A what \in {"init", "stop"} : what \in trouble => what \in trouble'
          /\ ~ advertising' => ~ sync_cb \/ s_stopping \/ trouble' # {}
        BY <1>1, AdvertiseLeaves DEF Sync
    <2> QED BY <2>1, <2>2 DEF PortInv, HostRuns, FindableOrTaken
<1>2. CASE Reset
    BY <1>2 DEF Reset, PortInv, HostRuns, FindableOrTaken
<1>3. CASE Connect \/ Disconnect \/ AdvertisingComplete
    <2>1. UNCHANGED <<port, s_ble_up, s_stopping, sync_cb, synced, transfer>>
        BY <1>3 DEF Connect, Disconnect, AdvertisingComplete
    <2>2. \/ s_conn' = TRUE /\ UNCHANGED trouble
          \/ Advertise
        BY <1>3 DEF Connect, FailedConnect, Disconnect, AdvertisingComplete
    <2>3. /\ \A what \in {"init", "stop"} : what \in trouble => what \in trouble'
          /\ s_conn' \/ advertising' \/ s_stopping \/ trouble' # {}
        BY <2>2, AdvertiseLeaves
    <2> QED BY <2>1, <2>3 DEF PortInv, HostRuns, FindableOrTaken
<1>4. CASE UNCHANGED hostVars
    BY <1>4 DEF hostVars, PortInv, HostRuns, FindableOrTaken
<1>5. CASE \/ \E op \in Questions : TimesOut(op) \/ BadRequest(op)
           \/ Info \/ PackAt(Len(client.got)) \/ ReadResponse
           \/ \E p \in Known \ {Guide} : Delete(p)
    <2>1. UNCHANGED hostVars
        BY <1>5 DEF TimesOut, BadRequest, Info, PackAt, ReadResponse, Delete, LinkKept
    <2> QED BY <1>4, <2>1
<1> QED BY <1>1, <1>2, <1>3, <1>5 DEF HostStep, Questions

LEMMA PortHttpKeeps ==
    ASSUME PortInv, HttpStep
    PROVE  PortInv'
<1>1. CASE Suspend
    BY <1>1 DEF Suspend, PortInv, HostRuns, FindableOrTaken
<1>2. CASE MarkStopping
    BY <1>2 DEF MarkStopping, PortInv, HostRuns, FindableOrTaken
<1>3. CASE StopHost
    <2>1. CASE /\ HostRuns
               /\ port' = "halted" /\ transfer' = "halted"
               /\ synced' = FALSE /\ advertising' = FALSE /\ s_conn' = FALSE
               /\ UNCHANGED <<s_stopping, trouble>>
        BY <1>3, <2>1 DEF StopHost, PortInv, HostRuns, FindableOrTaken
    <2>2. CASE /\ s_stopping' = FALSE /\ transfer' = "none"
               /\ trouble' = trouble \cup {"stop"}
               /\ UNCHANGED <<port, synced, advertising, s_conn>>
        BY <1>3, <2>2 DEF StopHost, PortInv, HostRuns, FindableOrTaken
    <2> QED BY <1>3, <2>1, <2>2 DEF StopHost, Fails
<1>4. CASE ReleasePort
    <2>1. transfer = "halted" /\ port = "halted" /\ s_ble_up /\ ~ synced
        BY <1>4 DEF ReleasePort, PortInv, HostRuns
    <2>2. \/ /\ port' = "off" /\ s_ble_up' = FALSE /\ transfer' = "loading"
             /\ UNCHANGED trouble
          \/ /\ trouble' = trouble \cup {"stop"} /\ transfer' = "none"
             /\ UNCHANGED <<port, s_ble_up>>
        BY <1>4 DEF ReleasePort, Fails
    <2> QED BY <1>4, <2>1, <2>2 DEF ReleasePort, PortInv, HostRuns, FindableOrTaken
<1>5. CASE Resume
    <2>1. port \in {"off", "ready"} /\ ~ s_ble_up /\ ~ synced
        BY <1>5 DEF Resume, BringUp, PortInv, HostRuns
    <2>2. \/ port' = "running" /\ s_ble_up' = TRUE /\ sync_cb' = TRUE
          \/ /\ port' \in {"off", "ready"} /\ UNCHANGED <<s_ble_up, sync_cb>>
             /\ trouble' = trouble \cup {"init"}
        BY <1>5 DEF Resume, BringUp, Fails
    <2> QED BY <1>5, <2>1, <2>2 DEF Resume, PortInv, HostRuns, FindableOrTaken
<1>6. CASE VolumeChanges
    BY <1>6 DEF VolumeChanges, LinkKept, hostVars, PortInv, HostRuns, FindableOrTaken
<1> QED BY <1>1, <1>2, <1>3, <1>4, <1>5, <1>6 DEF HttpStep

LEMMA PortInvariance == LinkSpec => []PortInv
<1>1. LinkInit => PortInv
    BY DEF LinkInit, PortInv, HostRuns, FindableOrTaken
<1>2. PortInv /\ [LinkNext]_linkVars => PortInv'
    <2>1. PortInv /\ UNCHANGED linkVars => PortInv'
        BY DEF linkVars, hostVars, PortInv, HostRuns, FindableOrTaken
    <2> QED BY <2>1, PortHostKeeps, PortHttpKeeps DEF LinkNext
<1> QED BY <1>1, <1>2, PTL DEF LinkSpec

(* Bluetooth is back when a transfer has ended, and a host in step with    *)
(* its controller advertises or has its client: only a failed call, not    *)
(* made good since, makes the device one a phone cannot find, however      *)
(* often calls fail (ble_provisioning.c:391-441, 451-492).                 *)
THEOREM DeviceFindable == LinkSpec => []BleFindable
<1>1. PortInv => BleFindable
    BY DEF PortInv, BleFindable, BackAfterTransfer, HostRuns
<1> QED BY PortInvariance, <1>1, PTL

------------------------------------------------------------------------------
(* The enumeration. *)

(* A listing and the library in flash are no more than what is known. *)
LEMMA ListingBound ==
    ASSUME NEW d \in Directories
    PROVE  /\ MostKnown \in Nat
           /\ d \in Seq(Known)
           /\ Len(d) + 1 <= MostKnown
           /\ Guide \in Known
<1>1. IsFiniteSet(Known) /\ Guide \in Known
    BY LinkAssumption DEF Known
<1>2. /\ IsFiniteSet(Known \ {Guide})
      /\ Cardinality(Known \ {Guide}) = MostKnown - 1
    BY <1>1, FS_RemoveElement DEF MostKnown
<1>3. d \in Seq(Known \ {Guide}) /\ d \in Injection(1 .. Len(d), Known \ {Guide})
    BY LinkAssumption DEF Injection, IsInjective
<1>4. Cardinality(1 .. Len(d)) <= Cardinality(Known \ {Guide})
    BY <1>2, <1>3, FS_Injection
<1>5. Cardinality(1 .. Len(d)) = Len(d)
    BY <1>3, FS_Interval
<1>6. MostKnown \in Nat
    BY <1>1, FS_CardinalityType DEF MostKnown
<1> QED BY <1>1, <1>2, <1>3, <1>4, <1>5, <1>6

(* What an answer that waits to be read says of the volume, and what the   *)
(* client has: as long as its enumeration is undisturbed.                  *)
AnswerHolds ==
    notify /\ client.steady /\ s_response.status = "ok" =>
        /\ s_response.op = "info" => s_response.index = Len(Whole)
        /\ s_response.op = "packAt" => /\ s_response.index < Len(Whole)
                                       /\ s_response.value = Whole[s_response.index + 1]

ListingTypeOK ==
    /\ listed \in Directories
    /\ s_response \in Answers
    /\ ClientTyped(client)

ListingInv == ListingTypeOK /\ AnswerHolds /\ ListingIsWhole

LEMMA WholeIs ==
    ASSUME listed \in Directories
    PROVE  /\ Whole \in Seq(Known)
           /\ Len(Whole) = Len(listed) + 1
           /\ Len(Whole) \in 1 .. MostKnown
           /\ Whole[1] = Guide
           /\ \A i \in 1 .. Len(listed) : Whole[i + 1] = listed[i]
<1>1. listed \in Seq(Known) /\ Guide \in Known /\ Len(listed) + 1 <= MostKnown /\ MostKnown \in Nat
    BY ListingBound
<1>2. <<Guide>> \in Seq(Known) /\ Len(<<Guide>>) = 1 /\ <<Guide>>[1] = Guide
    BY <1>1
<1> DEFINE w == <<Guide>> \o listed
<1>3. w \in Seq(Known) /\ Len(w) = Len(listed) + 1
    BY <1>1, <1>2
<1>4. w[1] = Guide
    BY <1>1, <1>2
<1>5. \A i \in 1 .. Len(listed) : w[i + 1] = listed[i]
    BY <1>1, <1>2
<1>6. Len(listed) \in Nat
    BY <1>1
<1> HIDE DEF w
<1>7. Len(w) \in 1 .. MostKnown
    BY <1>1, <1>3, <1>6
<1> QED BY <1>3, <1>4, <1>5, <1>7 DEF Whole, w

LEMMA NotAskingTyped == ClientTyped(NotAsking) /\ ClientTyped([NotAsking EXCEPT !.steady = TRUE])
<1>1. MostKnown \in Nat
    BY LinkAssumption, FS_CardinalityType DEF MostKnown
<1>2. <<>> \in Seq(Known) /\ Len(<<>>) = 0
    BY EmptySeq
<1>3. NotAsking \in [count : 0 .. MostKnown, got : Seq(Known), steady : BOOLEAN]
    BY <1>1, <1>2 DEF NotAsking
<1>4. [NotAsking EXCEPT !.steady = TRUE] \in [count : 0 .. MostKnown, got : Seq(Known), steady : BOOLEAN]
    BY <1>3
<1>5. /\ NotAsking.got = <<>> /\ NotAsking.count = 0
      /\ [NotAsking EXCEPT !.steady = TRUE].got = <<>>
      /\ [NotAsking EXCEPT !.steady = TRUE].count = 0
    BY DEF NotAsking
<1> QED BY <1>2, <1>3, <1>4, <1>5 DEF ClientTyped
(* A connection that has ended takes its question and its answer along. *)
LEMMA AnswerDropped ==
    ASSUME ListingInv, UNCHANGED <<listed, s_response>>, notify' = FALSE, client' = NotAsking
    PROVE  ListingInv'
<1>1. client'.steady = FALSE
    BY DEF NotAsking
<1> QED BY <1>1, NotAskingTyped
        DEF ListingInv, ListingTypeOK, AnswerHolds, ListingIsWhole, ClientTyped, Answers,
            Questions, Statuses

LEMMA AnswersStand == ListingInv /\ UNCHANGED <<listed, s_response, notify, client>> => ListingInv'
BY DEF ListingInv, ListingTypeOK, AnswerHolds, ListingIsWhole, ClientTyped, Answers,
       Questions, Statuses, Whole

(* A command refused for its form or for want of the lock. *)
LEMMA RefusalKeeps ==
    ASSUME ListingInv, NEW op \in Questions, NEW status \in {"ioError", "badCommand", "badArgument"},
           Respond(Answer(op, status, 0, Guide)), UNCHANGED <<listed, client>>
    PROVE  ListingInv'
<1>1. Answer(op, status, 0, Guide) \in Answers
    BY WholeIs, ListingBound DEF ListingInv, ListingTypeOK, Answer, Answers, Statuses
<1>2. s_response'.status = status
    BY DEF Respond, Answer
<1> QED BY <1>1, <1>2
        DEF Respond, ListingInv, ListingTypeOK, AnswerHolds, ListingIsWhole, ClientTyped, Answers,
            Questions, Statuses, Whole

LEMMA InfoKeeps ==
    ASSUME ListingInv, Info
    PROVE  ListingInv'
<1>1. listed \in Directories /\ listed' = listed /\ notify' = TRUE
    BY DEF Info, Respond, ListingInv, ListingTypeOK
<1>2. ClientTyped(client') /\ client'.got = <<>> /\ client'.count = 0
    <2>1. client' = NotAsking \/ client' = [NotAsking EXCEPT !.steady = TRUE]
        BY DEF Info
    <2>2. ClientTyped(client')
        BY <2>1, NotAskingTyped
    <2> QED BY <2>1, <2>2 DEF NotAsking
<1>3. s_response' = Answer("info", "ok", Len(listed) + 1, Guide) \/ ~ client'.steady
    BY DEF Info, Respond, NotAsking
<1>4. s_response' \in Answers /\ s_response'.op = "info"
    BY <1>1, WholeIs, ListingBound
    DEF Info, Respond, Answer, Answers, Questions, Statuses
<1>5. AnswerHolds'
    BY <1>1, <1>3, <1>4, WholeIs DEF AnswerHolds, Answer, Whole
<1>6. ListingIsWhole'
    <2>1. <<>> = SubSeq(Whole, 1, 0)
        BY <1>1, WholeIs
    <2>2. Whole' = Whole
        BY <1>1 DEF Whole
    <2> QED BY <1>2, <1>4, <2>1, <2>2 DEF ListingIsWhole
<1> QED BY <1>1, <1>2, <1>4, <1>5, <1>6 DEF ListingInv, ListingTypeOK, Answers, ClientTyped,
           Questions, Statuses

LEMMA PackAtKeeps ==
    ASSUME ListingInv, NEW i, i = Len(client.got), PackAt(i)
    PROVE  ListingInv'
<1>1. /\ listed \in Directories /\ UNCHANGED listed /\ notify' = TRUE /\ Whole' = Whole
      /\ ClientTyped(client)
    BY DEF PackAt, Respond, ListingInv, ListingTypeOK, Whole
<1>2. i \in 0 .. MostKnown /\ i <= client.count /\ client.count \in 0 .. MostKnown
    <2>1. client.count \in 0 .. MostKnown /\ Len(client.got) <= client.count
        BY <1>1 DEF ClientTyped
    <2>2. Len(client.got) \in Nat
        BY <1>1 DEF ClientTyped
    <2>3. MostKnown \in Nat
        BY <1>1, ListingBound
    <2> QED BY <2>1, <2>2, <2>3
<1>3. CASE client' = [client EXCEPT !.steady = FALSE] /\ s_response' = Answer("packAt", "notFound", i, Guide)
    <2>1. ClientTyped(client') /\ ~ client'.steady
        BY <1>1, <1>3 DEF ClientTyped
    <2>2. s_response' \in Answers
        BY <1>1, <1>2, <1>3, ListingBound DEF Answer, Answers, Questions, Statuses
    <2> QED BY <1>1, <2>1, <2>2
            DEF ListingInv, ListingTypeOK, AnswerHolds, ListingIsWhole, ClientTyped, Answers,
                Questions, Statuses
<1>4. CASE UNCHANGED client /\ i = 0 /\ s_response' = Answer("packAt", "ok", 0, Guide)
    <2>1. s_response' \in Answers
        BY <1>1, <1>4, ListingBound DEF Answer, Answers, Questions, Statuses
    <2>2. AnswerHolds'
        BY <1>1, <1>4, WholeIs DEF Answer, AnswerHolds
    <2>3. ListingIsWhole'
        BY <1>1, <1>4 DEF Answer, ListingInv, ListingIsWhole
    <2> QED BY <1>1, <1>4, <2>1, <2>2, <2>3 DEF ListingInv, ListingTypeOK, ClientTyped, Answers,
                Questions, Statuses
<1>5. CASE UNCHANGED client /\ i > 0 /\ InList(i) /\ s_response' = Answer("packAt", "ok", i, listed[i])
    <2>1. i \in 1 .. Len(listed) /\ listed \in Seq(Known)
        BY <1>1, <1>2, <1>5, ListingBound DEF InList
    <2>2. s_response' \in Answers
        BY <1>2, <1>5, <2>1 DEF Answer, Answers, Questions, Statuses
    <2>3. AnswerHolds'
        <3>1. i < Len(Whole) /\ listed[i] = Whole[i + 1]
            BY <1>1, <2>1, WholeIs
        <3> QED BY <1>1, <1>5, <3>1 DEF Answer, AnswerHolds
    <2>4. ListingIsWhole'
        BY <1>1, <1>5 DEF Answer, ListingInv, ListingIsWhole
    <2> QED BY <1>1, <1>5, <2>2, <2>3, <2>4 DEF ListingInv, ListingTypeOK, ClientTyped, Answers,
                Questions, Statuses
<1>6. CASE UNCHANGED client /\ i > 0 /\ ~ InList(i) /\ s_response' = Answer("packAt", "notFound", i, Guide)
    <2>1. s_response' \in Answers
        BY <1>1, <1>2, <1>6, ListingBound DEF Answer, Answers, Questions, Statuses
    <2>2. AnswerHolds'
        BY <1>6 DEF Answer, AnswerHolds
    <2>3. ListingIsWhole'
        <3>1. client.steady => i >= client.count
            BY <1>1, <1>2, <1>6, WholeIs DEF InList, ListingInv, ListingIsWhole
        <3> QED BY <1>1, <1>6, <3>1 DEF Answer, ListingInv, ListingIsWhole
    <2> QED BY <1>1, <1>6, <2>1, <2>2, <2>3 DEF ListingInv, ListingTypeOK, ClientTyped, Answers,
                Questions, Statuses
<1> QED BY <1>3, <1>4, <1>5, <1>6 DEF PackAt, Respond

LEMMA DeleteKeeps ==
    ASSUME ListingInv, NEW p \in Known \ {Guide}, Delete(p)
    PROVE  ListingInv'
<1>1. listed \in Directories /\ ClientTyped(client)
    BY DEF ListingInv, ListingTypeOK
<1>2. /\ notify' = TRUE
      /\ \E status \in {"ok", "notFound"} : s_response' = Answer("delete", status, 0, Guide)
    BY DEF Delete, Respond
<1>3. s_response' \in Answers /\ s_response'.op = "delete"
    BY <1>1, <1>2, ListingBound DEF Answer, Answers, Questions, Statuses
<1>4. CASE UNCHANGED <<listed, client>>
    BY <1>2, <1>3, <1>4 DEF ListingInv, ListingTypeOK, AnswerHolds, ListingIsWhole, Whole, ClientTyped, Answers,
       Questions, Statuses
<1>5. CASE listed' = Without(listed, p) /\ client' = [client EXCEPT !.steady = FALSE]
    <2>1. listed' \in Directories
        BY <1>1, <1>5, LinkAssumption
    <2>2. ClientTyped(client') /\ ~ client'.steady
        BY <1>1, <1>5 DEF ClientTyped
    <2> QED BY <1>2, <1>3, <2>1, <2>2
            DEF ListingInv, ListingTypeOK, AnswerHolds, ListingIsWhole, ClientTyped, Answers,
            Questions, Statuses
<1> QED BY <1>4, <1>5 DEF Delete

LEMMA VolumeChangesKeeps ==
    ASSUME ListingInv, VolumeChanges
    PROVE  ListingInv'
<1>1. ClientTyped(client') /\ ~ client'.steady
    BY DEF VolumeChanges, ListingInv, ListingTypeOK, ClientTyped
<1> QED BY <1>1 DEF VolumeChanges, ListingInv, ListingTypeOK, AnswerHolds, ListingIsWhole, ClientTyped, Answers,
            Questions, Statuses

(* What the client keeps of an answer is the next library of the listing. *)
LEMMA ReadResponseKeeps ==
    ASSUME ListingInv, ReadResponse
    PROVE  ListingInv'
<1>1. /\ listed \in Directories /\ s_response \in Answers /\ ClientTyped(client)
      /\ UNCHANGED <<listed, s_response>> /\ notify /\ notify' = FALSE
      /\ client' = Kept(client, s_response) /\ Whole' = Whole
    BY DEF ReadResponse, ListingInv, ListingTypeOK, Whole
<1>2. CASE client' = client
    BY <1>1, <1>2 DEF ListingInv, ListingTypeOK, AnswerHolds, ListingIsWhole
<1>3. CASE /\ s_response.op = "info" /\ s_response.status = "ok"
           /\ client' = [client EXCEPT !.count = s_response.index, !.got = <<>>]
    <2>1. ClientTyped(client')
        <3>1. <<>> \in Seq(Known) /\ Len(<<>>) = 0
            BY EmptySeq
        <3>2. s_response.index \in 0 .. MostKnown
            BY <1>1 DEF Answers
        <3>3. client \in [count : 0 .. MostKnown, got : Seq(Known), steady : BOOLEAN]
            BY <1>1 DEF ClientTyped
        <3>4. client' \in [count : 0 .. MostKnown, got : Seq(Known), steady : BOOLEAN]
            BY <1>3, <3>1, <3>2, <3>3
        <3>5. client'.got = <<>> /\ client'.count = s_response.index
            BY <1>3, <3>3
        <3> QED BY <3>1, <3>2, <3>4, <3>5 DEF ClientTyped
    <2>2. client'.steady => /\ client.steady
                            /\ client'.count = Len(Whole)
                            /\ client'.got = <<>>
        BY <1>1, <1>3 DEF ListingInv, AnswerHolds, ClientTyped
    <2>3. <<>> = SubSeq(Whole, 1, 0)
        BY <1>1, WholeIs
    <2>4. ListingIsWhole'
        BY <1>1, <2>2, <2>3 DEF ListingIsWhole
    <2> QED BY <1>1, <2>1, <2>4 DEF ListingInv, ListingTypeOK, AnswerHolds, ClientTyped, Answers,
                Questions, Statuses
<1>4. CASE /\ s_response.op = "packAt" /\ s_response.status = "ok"
           /\ s_response.index = Len(client.got) /\ Len(client.got) < client.count
           /\ client' = [client EXCEPT !.got = Append(client.got, s_response.value)]
    <2> DEFINE n == Len(client.got)
    <2>1. client.got \in Seq(Known) /\ s_response.value \in Known /\ n \in Nat
        BY <1>1 DEF ClientTyped, Answers
    <2>2. /\ client'.got = Append(client.got, s_response.value)
          /\ client'.count = client.count /\ client'.steady = client.steady
        BY <1>1, <1>4 DEF ClientTyped
    <2>3. ClientTyped(client')
        BY <1>1, <1>4, <2>1 DEF ClientTyped
    <2>4. ASSUME client.steady PROVE client'.got = SubSeq(Whole, 1, Len(client'.got))
        <3>1. n < Len(Whole) /\ s_response.value = Whole[n + 1]
            BY <1>1, <1>4, <2>4 DEF ListingInv, AnswerHolds
        <3>2. client.got = SubSeq(Whole, 1, n)
            BY <2>4 DEF ListingInv, ListingIsWhole
        <3>3. Whole \in Seq(Known)
            BY <1>1, WholeIs
        <3>4. Append(SubSeq(Whole, 1, n), Whole[n + 1]) = SubSeq(Whole, 1, n + 1)
            <4> HIDE DEF n
            <4> DEFINE a == Append(SubSeq(Whole, 1, n), Whole[n + 1])
            <4>1. a \in Seq(Known) /\ Len(a) = n + 1
                BY <2>1, <3>1, <3>3
            <4>2. SubSeq(Whole, 1, n + 1) \in Seq(Known) /\ Len(SubSeq(Whole, 1, n + 1)) = n + 1
                BY <2>1, <3>1, <3>3
            <4>3. \A i \in 1 .. n + 1 : a[i] = SubSeq(Whole, 1, n + 1)[i]
                BY <2>1, <3>1, <3>3
            <4> HIDE DEF a
            <4>4. a = SubSeq(Whole, 1, n + 1)
                BY <4>1, <4>2, <4>3, SeqEqual
            <4> QED BY <4>4 DEF a
        <3>5. Len(client'.got) = n + 1
            BY <2>1, <2>2
        <3> QED BY <2>2, <3>1, <3>2, <3>4, <3>5
    <2>5. ListingIsWhole'
        BY <1>1, <2>2, <2>4 DEF ListingInv, ListingIsWhole
    <2> QED BY <1>1, <2>3, <2>5 DEF ListingInv, ListingTypeOK, AnswerHolds, ClientTyped, Answers,
                Questions, Statuses
<1> QED BY <1>1, <1>2, <1>3, <1>4 DEF Kept

LEMMA ListingKept == ListingInv /\ [LinkNext]_linkVars => ListingInv'
<1> SUFFICES ASSUME ListingInv, [LinkNext]_linkVars PROVE ListingInv'
    OBVIOUS
<1>1. CASE HostStep
    <2>1. CASE Sync \/ Connect \/ AdvertisingComplete
        BY <2>1, AnswersStand DEF Sync, Connect, AdvertisingComplete, answerVars
    <2>2. CASE Reset \/ Disconnect
        BY <2>2, AnswerDropped DEF Reset, Disconnect
    <2>3. CASE \E op \in {"info", "packAt", "delete"} : TimesOut(op)
        BY <2>3, RefusalKeeps DEF TimesOut, Questions
    <2>4. CASE \E op \in {"packAt", "delete", "other"} : BadRequest(op)
        BY <2>4, RefusalKeeps DEF BadRequest, Questions
    <2>5. CASE Info \/ PackAt(Len(client.got)) \/ ReadResponse
        BY <2>5, InfoKeeps, PackAtKeeps, ReadResponseKeeps
    <2>6. CASE \E p \in Known \ {Guide} : Delete(p)
        BY <2>6, DeleteKeeps
    <2> QED BY <1>1, <2>1, <2>2, <2>3, <2>4, <2>5, <2>6 DEF HostStep
<1>2. CASE HttpStep
    <2>1. CASE Suspend \/ MarkStopping \/ ReleasePort \/ Resume
        BY <2>1, AnswersStand DEF Suspend, MarkStopping, ReleasePort, Resume, answerVars
    <2>2. CASE StopHost
        BY <2>2, AnswersStand, AnswerDropped DEF StopHost
    <2>3. CASE VolumeChanges
        BY <2>3, VolumeChangesKeeps
    <2> QED BY <1>2, <2>1, <2>2, <2>3 DEF HttpStep
<1>3. CASE UNCHANGED linkVars
    BY <1>3, AnswersStand DEF linkVars, answerVars
<1> QED BY <1>1, <1>2, <1>3 DEF LinkNext

LEMMA ListingInvariance == LinkSpec => []ListingInv
<1>1. LinkInit => ListingInv
    <2> SUFFICES ASSUME LinkInit PROVE ListingInv
        OBVIOUS
    <2>1. listed \in Directories /\ ~ notify /\ client = NotAsking
        BY DEF LinkInit
    <2>2. ClientTyped(client) /\ ~ client.steady
        BY <2>1, NotAskingTyped DEF NotAsking
    <2>3. s_response \in Answers
        BY <2>1, WholeIs, ListingBound DEF LinkInit, NoAnswer, Answer, Answers, Questions, Statuses
    <2> QED BY <2>1, <2>2, <2>3 DEF ListingInv, ListingTypeOK, AnswerHolds, ListingIsWhole
<1> QED BY <1>1, ListingKept, PTL DEF LinkSpec

(* A client that enumerates the libraries of a volume that keeps still     *)
(* gets the built-in one and every installed pack once, through refused    *)
(* commands and answers left by an earlier client, for every volume        *)
(* (ble_provisioning.c:178-217, 306-309).                                  *)
THEOREM ListingsAreWhole == LinkSpec => []ListingIsWhole
<1>1. ListingInv => ListingIsWhole
    BY DEF ListingInv
<1> QED BY ListingInvariance, <1>1, PTL
------------------------------------------------------------------------------
(* Types: the flags and counters that the invariants above leave out. *)

FlagsTyped ==
    /\ {s_ble_up, s_stopping, sync_cb, synced, advertising, s_conn, notify} \subseteq BOOLEAN
    /\ trouble \subseteq {"init", "stop", "advertise"}
    /\ swaps \in 0 .. MaxSwaps
    /\ failures \in 0 .. MaxFailures

LEMMA CallsTyped ==
    ASSUME FlagsTyped,
           \/ Advertise
           \/ \E what \in {"init", "stop", "advertise"} : Fails(what) \/ Succeeds(what)
           \/ UNCHANGED <<trouble, failures>>
    PROVE  trouble' \subseteq {"init", "stop", "advertise"} /\ failures' \in 0 .. MaxFailures
<1>1. trouble' \subseteq {"init", "stop", "advertise"}
    BY DEF FlagsTyped, Advertise, Fails, Succeeds
<1>2. failures' \in 0 .. MaxFailures
    BY LinkAssumption DEF FlagsTyped, Advertise, Fails, Succeeds
<1> QED BY <1>1, <1>2

LEMMA FlagsKept == FlagsTyped /\ [LinkNext]_linkVars => FlagsTyped'
<1> SUFFICES ASSUME FlagsTyped, [LinkNext]_linkVars PROVE FlagsTyped'
    OBVIOUS
<1>1. CASE Sync \/ Connect \/ Disconnect \/ AdvertisingComplete
    <2>1. \/ Advertise
          \/ advertising' \in {advertising, FALSE} /\ UNCHANGED <<trouble, failures>>
        <3>1. CASE Sync
            BY <3>1 DEF Sync
        <3>2. CASE Connect
            BY <3>2 DEF Connect, FailedConnect
        <3>3. CASE Disconnect \/ AdvertisingComplete
            BY <3>3 DEF Disconnect, AdvertisingComplete
        <3> QED BY <1>1, <3>1, <3>2, <3>3
    <2>2. advertising' \in {advertising, TRUE, FALSE}
        BY <2>1, AdvertiseLeaves
    <2>3. s_conn' \in {s_conn, TRUE, FALSE} /\ synced' \in {synced, TRUE} /\ notify' \in {notify, FALSE}
        BY <1>1 DEF Sync, Connect, FailedConnect, Disconnect, AdvertisingComplete, answerVars
    <2>4. UNCHANGED <<s_ble_up, s_stopping, sync_cb, swaps>>
        BY <1>1 DEF Sync, Connect, Disconnect, AdvertisingComplete, answerVars
    <2> QED BY <2>1, <2>2, <2>3, <2>4, CallsTyped DEF FlagsTyped
<1>2. CASE Reset
    <2>1. failures' \in 0 .. MaxFailures
        BY <1>2, LinkAssumption DEF Reset, FlagsTyped
    <2> QED BY <1>2, <2>1 DEF Reset, FlagsTyped
<1>3. CASE \/ \E op \in Questions : TimesOut(op) \/ BadRequest(op)
           \/ Info \/ PackAt(Len(client.got)) \/ ReadResponse
           \/ \E p \in Known \ {Guide} : Delete(p)
           \/ VolumeChanges
    <2>1. notify' \in {notify, TRUE, FALSE} /\ UNCHANGED <<hostVars, failures>>
        BY <1>3 DEF TimesOut, BadRequest, Info, PackAt, ReadResponse, Delete, VolumeChanges,
                    Respond, LinkKept
    <2>2. swaps' \in 0 .. MaxSwaps
        <3>1. swaps' = swaps \/ (swaps < MaxSwaps /\ swaps' = swaps + 1)
            <4>1. \A op : TimesOut(op) \/ BadRequest(op) => swaps' = swaps
                BY DEF TimesOut, BadRequest
            <4>2. Info \/ PackAt(Len(client.got)) \/ ReadResponse => swaps' = swaps
                BY DEF Info, PackAt, ReadResponse
            <4>3. \A p : Delete(p) => swaps' = swaps \/ (swaps < MaxSwaps /\ swaps' = swaps + 1)
                BY DEF Delete
            <4>4. VolumeChanges => swaps < MaxSwaps /\ swaps' = swaps + 1
                BY DEF VolumeChanges
            <4> QED BY <1>3, <4>1, <4>2, <4>3, <4>4
        <3> QED BY <3>1, LinkAssumption DEF FlagsTyped
    <2> QED BY <2>1, <2>2 DEF FlagsTyped, hostVars
<1>4. CASE Suspend \/ MarkStopping
    BY <1>4 DEF Suspend, MarkStopping, FlagsTyped, answerVars
<1>5. CASE StopHost
    <2>1. /\ s_stopping' \in {s_stopping, FALSE} /\ notify' \in {notify, FALSE}
          /\ synced' \in {synced, FALSE} /\ advertising' \in {advertising, FALSE}
          /\ s_conn' \in {s_conn, FALSE} /\ UNCHANGED <<s_ble_up, sync_cb, swaps>>
        BY <1>5 DEF StopHost
    <2>2. \/ Fails("stop")
          \/ trouble' \in {trouble, trouble \cup {"stop"}} /\ UNCHANGED failures
        BY <1>5 DEF StopHost
    <2>3. trouble' \subseteq {"init", "stop", "advertise"} /\ failures' \in 0 .. MaxFailures
        BY <2>2, CallsTyped DEF FlagsTyped
    <2> QED BY <2>1, <2>3 DEF FlagsTyped
<1>6. CASE ReleasePort
    <2>1. /\ s_stopping' = FALSE /\ s_ble_up' \in {s_ble_up, FALSE}
          /\ UNCHANGED <<sync_cb, synced, advertising, s_conn, notify, swaps>>
        BY <1>6 DEF ReleasePort, answerVars
    <2>2. trouble' \subseteq {"init", "stop", "advertise"} /\ failures' \in 0 .. MaxFailures
        BY <1>6, CallsTyped DEF ReleasePort
    <2> QED BY <2>1, <2>2 DEF FlagsTyped
<1>7. CASE Resume
    <2>1. /\ s_ble_up' \in {s_ble_up, TRUE} /\ sync_cb' \in {sync_cb, TRUE}
          /\ UNCHANGED <<s_stopping, synced, advertising, s_conn, notify, swaps>>
        BY <1>7 DEF Resume, BringUp, answerVars
    <2>2. \/ Fails("init")
          \/ trouble' \in {{}, trouble \cup {"init"}} /\ UNCHANGED failures
        BY <1>7 DEF Resume, BringUp
    <2>3. trouble' \subseteq {"init", "stop", "advertise"} /\ failures' \in 0 .. MaxFailures
        BY <2>2, CallsTyped DEF FlagsTyped
    <2> QED BY <2>1, <2>3 DEF FlagsTyped
<1>8. CASE UNCHANGED linkVars
    BY <1>8 DEF linkVars, hostVars, answerVars, FlagsTyped
<1> QED BY <1>1, <1>2, <1>3, <1>4, <1>5, <1>6, <1>7, <1>8
        DEF LinkNext, HostStep, HttpStep, Questions

(* The variables of the link keep their types: the static state of         *)
(* ble_provisioning.c and what the client keeps.                           *)
THEOREM LinkTypeCorrect == LinkSpec => []LinkTypeOK
<1>1. LinkInit => FlagsTyped
    <2> SUFFICES ASSUME LinkInit PROVE FlagsTyped
        OBVIOUS
    <2>1. {s_ble_up, s_stopping, sync_cb, synced, advertising, s_conn, notify} \subseteq BOOLEAN
        BY DEF LinkInit
    <2>2. swaps \in 0 .. MaxSwaps /\ failures \in 0 .. MaxFailures /\ trouble = {}
        BY LinkAssumption DEF LinkInit
    <2> QED BY <2>1, <2>2 DEF FlagsTyped
<1>2. PortInv /\ ListingInv /\ FlagsTyped => LinkTypeOK
    <2> SUFFICES ASSUME PortInv, ListingInv, FlagsTyped PROVE LinkTypeOK
        OBVIOUS
    <2>1. /\ client.count \in 0 .. MostKnown /\ client.steady \in BOOLEAN
          /\ client.got \in Seq(Known) /\ Len(client.got) <= client.count
        BY DEF ListingInv, ListingTypeOK, ClientTyped
    <2> QED BY <2>1 DEF PortInv, ListingInv, ListingTypeOK, FlagsTyped, LinkTypeOK, Answers,
                        Questions, Statuses
<1> QED BY <1>1, <1>2, PortInvariance, ListingInvariance, FlagsKept, PTL DEF LinkSpec
==============================================================================
