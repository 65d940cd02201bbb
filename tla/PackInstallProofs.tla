--------------------------- MODULE PackInstallProofs ---------------------------
(***************************************************************************)
(* Proofs about the device-side install, for every number of bodies the    *)
(* server publishes and every length of them, every limit on the size and  *)
(* every number of timeouts and reconnections.                             *)
(***************************************************************************)
EXTENDS PackInstall, SequenceTheorems, TLAPS

Phases == {"idle", "open", "read", "reopen", "verify", "drain", "finish", "done"}

------------------------------------------------------------------------------
(* The bytes. *)

LEMMA LongestBody ==
    /\ MaxLength \in Nat
    /\ \A v \in Versions : Length[v] \in Nat /\ 0 < Length[v] /\ Length[v] <= MaxLength
<1> DEFINE lengths == {Length[v] : v \in Versions}
           IsMax(n) == \A v \in Versions : Length[v] <= n
<1>1. \A v \in Versions : Length[v] \in Nat /\ 0 < Length[v]
    <2> SUFFICES ASSUME NEW v \in Versions PROVE Length[v] \in Nat /\ 0 < Length[v]
        OBVIOUS
    <2>1. Length \in [Versions -> Nat \ {0}]
        BY InstallAssumption
    <2>2. Length[v] \in Nat /\ Length[v] # 0
        BY <2>1
    <2> QED BY <2>2
<1>2. \E n \in lengths : IsMax(n)
    <2>1. PICK longest \in Versions : \A v \in Versions : Length[v] <= Length[longest]
        BY InstallAssumption
    <2>2. Length[longest] \in lengths /\ IsMax(Length[longest])
        BY <2>1
    <2> QED BY <2>2
<1>3. MaxLength \in lengths /\ IsMax(MaxLength)
    <2>1. MaxLength = CHOOSE n \in lengths : IsMax(n)
        BY DEF MaxLength
    <2> HIDE DEF IsMax, lengths
    <2> QED BY <1>2, <2>1
<1> QED BY <1>1, <1>3

(* What the handler counts: the staging file has as many blocks as were    *)
(* counted, no connection is read past its body, and a download that is    *)
(* going on is below the length it expects or, when it expects none, is    *)
(* the first connection's.                                                 *)
BytesInv ==
    /\ phase \in Phases
    /\ curated \in BOOLEAN
    /\ published \in Versions
    /\ conn \in [body : Versions, at : Nat] /\ conn.at <= Length[conn.body]
    /\ total \in {Length[v] : v \in Versions} \cup {Unknown}
    /\ received \in 0 .. MaxLength + 1
    /\ file \in Seq(Versions \X (1 .. MaxLength)) /\ Len(file) = received
    /\ phase \in {"read", "reopen"} =>
          /\ curated => total = Length[Catalogued]
          /\ total # Unknown => received <= total
          /\ ~ curated => received = conn.at
    /\ phase = "open" => received = 0 /\ file = <<>>
    /\ phase = "reopen" => total # Unknown /\ received < total

LEMMA BytesInitial == Init => BytesInv
<1> SUFFICES ASSUME Init PROVE BytesInv
    OBVIOUS
<1>1. 1 \in Versions /\ MaxLength \in Nat /\ Length[1] \in Nat /\ <<>> \in Seq(Versions \X (1 .. MaxLength))
    BY InstallAssumption, LongestBody
<1>2. conn \in [body : Versions, at : Nat] /\ conn.at = 0 /\ conn.body = 1
    BY <1>1 DEF Init
<1>3. conn.at <= Length[conn.body] /\ received \in 0 .. MaxLength + 1 /\ received = 0
    BY <1>1, <1>2 DEF Init
<1>4. file \in Seq(Versions \X (1 .. MaxLength)) /\ Len(file) = 0
    BY <1>1 DEF Init
<1> QED BY <1>1, <1>2, <1>3, <1>4 DEF Init, BytesInv, Phases

LEMMA ReadBlockBytes == ASSUME BytesInv, ReadBlock PROVE BytesInv'
<1> DEFINE block == <<conn.body, conn.at + 1>>
           Blocks == Versions \X (1 .. MaxLength)
<1>1. /\ conn.body \in Versions /\ conn.at \in Nat /\ conn.at < Length[conn.body]
      /\ Length[conn.body] \in Nat /\ Length[conn.body] <= MaxLength /\ MaxLength \in Nat
      /\ \A v \in Versions : Length[v] \in Nat /\ 0 < Length[v] /\ Length[v] <= MaxLength
      /\ Catalogued \in Versions /\ received \in Nat
    <2>1. conn.body \in Versions /\ conn.at \in Nat /\ conn.at <= Length[conn.body] /\ received \in Nat
        BY LongestBody DEF BytesInv
    <2>2. conn.at # Length[conn.body]
        BY DEF ReadBlock, Complete
    <2>3. Length[conn.body] \in Nat
        BY <2>1, LongestBody
    <2>4. conn.at < Length[conn.body]
        BY <2>1, <2>2, <2>3
    <2>5. Catalogued \in Versions
        BY InstallAssumption
    <2> QED BY <2>1, <2>4, <2>5, LongestBody
<1>2. conn' = [body |-> conn.body, at |-> conn.at + 1]
    BY DEF BytesInv, ReadBlock
<1>3. conn' \in [body : Versions, at : Nat] /\ conn'.at = conn.at + 1 /\ conn'.at <= Length[conn'.body]
    BY <1>1, <1>2
<1>4. UNCHANGED <<curated, published, total>>
    BY DEF ReadBlock
<1>5. received <= MaxLength
    <2>1. CASE total = Unknown
        <3>1. ~ curated
            BY <1>1, <2>1 DEF BytesInv, ReadBlock, Unknown
        <3>2. received = conn.at
            BY <3>1 DEF BytesInv, ReadBlock
        <3> QED BY <1>1, <3>2
    <2>2. CASE total # Unknown
        BY <1>1, <2>2 DEF BytesInv, ReadBlock
    <2> QED BY <2>1, <2>2
<1>6. CASE file' = Append(file, block) /\ received' = received + 1
    <2>1. block \in Blocks
        BY <1>1
    <2>2. file' \in Seq(Blocks) /\ Len(file') = received'
        BY <1>6, <2>1 DEF BytesInv
    <2>3. phase' \in {"read", "drain"} /\ (phase' = "read" => ~ TooLong)
        BY <1>6 DEF ReadBlock, Fail
    <2>4. phase' = "read" /\ total # Unknown => received' <= total
        BY <1>1, <1>6, <2>3 DEF TooLong, BytesInv, Unknown
    <2> QED BY <1>1, <1>3, <1>4, <1>5, <1>6, <2>2, <2>3, <2>4 DEF BytesInv, Phases, ReadBlock
<1>7. CASE UNCHANGED <<file, received>> /\ phase' = "drain"
    BY <1>3, <1>4, <1>7 DEF BytesInv, Phases
<1> QED BY <1>6, <1>7 DEF ReadBlock, Fail

LEMMA ReopenBytes == ASSUME BytesInv, Reopen PROVE BytesInv'
<1>1. /\ \A v \in Versions : Length[v] \in Nat /\ 0 < Length[v] /\ Length[v] <= MaxLength
      /\ Catalogued \in Versions /\ published \in Versions /\ received \in Nat
      /\ MaxLength \in Nat
      /\ total \in Nat /\ received < total
    BY LongestBody, InstallAssumption DEF BytesInv, Reopen, Unknown
<1>2. UNCHANGED <<curated, published, total>>
    BY DEF Reopen
<1>3. CASE Resume /\ phase' = "read"
    <2>1. total = Length[published] /\ curated /\ UNCHANGED <<file, received>>
        BY <1>1, <1>3 DEF Resume
    <2>2. conn' \in [body : Versions, at : Nat] /\ conn'.at = received /\ conn'.body = published
        BY <1>1, <1>3 DEF Resume
    <2> QED BY <1>1, <1>2, <1>3, <2>1, <2>2 DEF BytesInv, Phases, Reopen
<1>4. CASE Restart /\ phase' = "read"
    <2>1. conn' \in [body : Versions, at : Nat] /\ conn'.at = 0 /\ conn'.body = published
        BY <1>1, <1>4 DEF Restart
    <2>2. file' = <<>> /\ received' = 0 /\ file' \in Seq(Versions \X (1 .. MaxLength))
        BY <1>4 DEF Restart, RestartFromZero
    <2> QED BY <1>1, <1>2, <1>4, <2>1, <2>2 DEF BytesInv, Phases, Reopen
<1>5. CASE phase' = "drain" /\ UNCHANGED <<conn, file, received>>
    BY <1>2, <1>5 DEF BytesInv, Phases
<1> QED BY <1>3, <1>4, <1>5 DEF Reopen, Fail

LEMMA OpenBytes == ASSUME BytesInv, Open PROVE BytesInv'
<1>1. /\ \A v \in Versions : Length[v] \in Nat /\ 0 < Length[v] /\ Length[v] <= MaxLength
      /\ Catalogued \in Versions /\ published \in Versions
      /\ received = 0 /\ MaxLength \in Nat
    BY LongestBody, InstallAssumption DEF BytesInv, Open
<1>2. UNCHANGED <<curated, published, received, file>>
    BY DEF Open
<1>3. phase' \in {"read", "drain"}
    BY DEF Open, Fail
<1>4. CASE /\ \E len \in Announced(published) : total' = IF curated THEN Expected ELSE len
           /\ conn' = [body |-> published, at |-> 0]
    <2>1. total' \in {Length[v] : v \in Versions} \cup {Unknown} /\ (curated => total' = Length[Catalogued])
        BY <1>1, <1>4 DEF Announced, Expected
    <2>2. conn' \in [body : Versions, at : Nat] /\ conn'.at = 0 /\ conn'.body = published
        BY <1>1, <1>4
    <2>3. total' # Unknown => total' \in Nat
        BY <1>1, <2>1
    <2> QED BY <1>1, <1>2, <1>3, <2>1, <2>2, <2>3 DEF BytesInv, Phases
<1>5. CASE UNCHANGED <<total, conn>> /\ phase' = "drain"
    BY <1>2, <1>5 DEF BytesInv, Phases
<1> QED BY <1>4, <1>5 DEF Open, Fail

LEMMA BytesKept == BytesInv /\ [Next]_vars => BytesInv'
<1> SUFFICES ASSUME BytesInv, [Next]_vars PROVE BytesInv'
    OBVIOUS
<1>1. CASE UNCHANGED vars
    BY <1>1 DEF vars, download, BytesInv
<1>2. CASE \E c \in BOOLEAN : Start(c)
    <2>1. <<>> \in Seq(Versions \X (1 .. MaxLength)) /\ MaxLength \in Nat
        BY LongestBody
    <2> QED BY <1>2, <2>1 DEF Start, BytesInv, Phases
<1>3. CASE Publish
    BY <1>3 DEF Publish, BytesInv
<1>4. CASE ReadTimesOut
    BY <1>4 DEF ReadTimesOut, BytesInv, download
<1>5. CASE ReadBreaks
    <2>1. /\ UNCHANGED download /\ phase' \in {"reopen", "drain"} /\ phase = "read"
          /\ phase' = "reopen" => total > received /\ received > 0
        BY <1>5 DEF ReadBreaks, Fail, MayReconnect
    <2>2. \A v \in Versions : Length[v] \in Nat
        BY LongestBody
    <2> QED BY <2>1, <2>2 DEF BytesInv, Phases, download, Unknown
<1>6. CASE ReadEnds \/ Drain \/ NextRequest
    <2>1. UNCHANGED download /\ phase' \in {"verify", "drain", "finish", "idle"}
        BY <1>6 DEF ReadEnds, Fail, Drain, NextRequest
    <2> QED BY <2>1 DEF BytesInv, Phases, download
<1>7. CASE Verify \/ Finish
    <2>1. UNCHANGED <<curated, published, conn, total, received, file>> /\ phase' \in {"drain", "done"}
        BY <1>7 DEF Verify, Finish, Fail
    <2> QED BY <2>1 DEF BytesInv, Phases
<1> QED BY <1>1, <1>2, <1>3, <1>4, <1>5, <1>6, <1>7, ReadBlockBytes, ReopenBytes, OpenBytes
        DEF Next, Handler

LEMMA BytesInvariance == Spec => []BytesInv
BY BytesInitial, BytesKept, PTL DEF Spec
------------------------------------------------------------------------------
(* The retries. *)

(* Every connection may be silent for ReadTimeouts read timeouts, so the   *)
(* silence of a download is bounded by its connections.                    *)
RetriesInv ==
    /\ timeouts \in 0 .. ReadTimeouts
    /\ reconnects \in 0 .. Reconnects
    /\ silence \in Nat
    /\ phase = "open" => timeouts = 0 /\ silence = 0
    /\ phase = "read" => timeouts < ReadTimeouts /\ silence <= reconnects * ReadTimeouts + timeouts
    /\ phase = "reopen" => silence <= reconnects * ReadTimeouts
    /\ silence <= ReadTimeouts * (Reconnects + 1)

LEMMA Quota ==
    ASSUME NEW n \in 0 .. Reconnects
    PROVE  /\ n * ReadTimeouts \in Nat
           /\ (n + 1) * ReadTimeouts = n * ReadTimeouts + ReadTimeouts
           /\ n * ReadTimeouts + ReadTimeouts <= ReadTimeouts * (Reconnects + 1)
<1>1. ReadTimeouts \in Nat /\ Reconnects \in Nat /\ n \in Nat /\ n <= Reconnects
    BY InstallAssumption
<1>2. \A a, b, r \in Nat : a <= b => a * r + r <= r * (b + 1)
    OBVIOUS
<1> QED BY <1>1, <1>2

LEMMA RetriesInitial == Init => RetriesInv
<1> SUFFICES ASSUME Init PROVE RetriesInv
    OBVIOUS
<1>1. ReadTimeouts \in Nat /\ 0 < ReadTimeouts /\ Reconnects \in Nat
    BY InstallAssumption
<1>2. ReadTimeouts * (Reconnects + 1) \in Nat
    BY <1>1
<1> QED BY <1>1, <1>2 DEF Init, RetriesInv

LEMMA RetriesKept == RetriesInv /\ [Next]_vars => RetriesInv'
<1> SUFFICES ASSUME RetriesInv, [Next]_vars PROVE RetriesInv'
    OBVIOUS
<1>1. /\ ReadTimeouts \in Nat /\ 0 < ReadTimeouts /\ Reconnects \in Nat
      /\ timeouts \in Nat /\ silence \in Nat /\ reconnects \in 0 .. Reconnects
    BY InstallAssumption DEF RetriesInv
<1> DEFINE quota == reconnects * ReadTimeouts
           all == ReadTimeouts * (Reconnects + 1)
<1>2. /\ quota \in Nat /\ all \in Nat /\ quota + ReadTimeouts <= all
      /\ (reconnects + 1) * ReadTimeouts = quota + ReadTimeouts
    BY <1>1, Quota
<1>3. /\ timeouts \in 0 .. ReadTimeouts /\ silence <= all
      /\ phase = "open" => timeouts = 0 /\ silence = 0
      /\ phase = "read" => timeouts < ReadTimeouts /\ silence <= quota + timeouts
      /\ phase = "reopen" => silence <= quota
    BY DEF RetriesInv
<1> SUFFICES /\ timeouts' \in 0 .. ReadTimeouts /\ reconnects' \in 0 .. Reconnects
             /\ silence' \in Nat /\ silence' <= all
             /\ phase' = "open" => timeouts' = 0 /\ silence' = 0
             /\ phase' = "read" => timeouts' < ReadTimeouts
                                   /\ silence' <= reconnects' * ReadTimeouts + timeouts'
             /\ phase' = "reopen" => silence' <= reconnects' * ReadTimeouts
    BY DEF RetriesInv
<1>4. CASE UNCHANGED retries /\ (phase' = phase \/ phase' \notin {"open", "read", "reopen"})
    BY <1>1, <1>3, <1>4 DEF retries
<1>5. CASE UNCHANGED vars \/ Publish
    BY <1>4, <1>5 DEF vars, Publish
<1>6. CASE \E c \in BOOLEAN : Start(c)
    <2>1. timeouts' = 0 /\ reconnects' = 0 /\ silence' = 0 /\ phase' = "open"
        BY <1>6 DEF Start
    <2> QED BY <1>1, <1>2, <2>1
<1>7. CASE Open
    <2>1. UNCHANGED retries /\ phase = "open" /\ phase' \in {"read", "drain"}
        BY <1>7 DEF Open, Fail
    <2> QED BY <1>1, <1>2, <1>3, <2>1 DEF retries
<1>8. CASE ReadBlock
    <2>1. timeouts' = 0 /\ silence' = 0 /\ reconnects' = reconnects /\ phase' \in {"read", "drain"}
        BY <1>8 DEF ReadBlock, Fail
    <2> QED BY <1>1, <1>2, <2>1
<1>9. CASE ReadTimesOut
    <2>1. /\ timeouts' = timeouts + 1 /\ silence' = silence + 1 /\ UNCHANGED <<phase, reconnects>>
          /\ phase = "read" /\ timeouts + 1 < ReadTimeouts
        BY <1>9 DEF ReadTimesOut
    <2> QED BY <1>1, <1>2, <1>3, <2>1
<1>10. CASE ReadBreaks
    <2>1. /\ phase = "read"
          /\ \/ timeouts + 1 = ReadTimeouts /\ timeouts' = ReadTimeouts /\ silence' = silence + 1
             \/ UNCHANGED <<timeouts, silence>>
        BY <1>10 DEF ReadBreaks
    <2>2. timeouts' \in 0 .. ReadTimeouts /\ silence' \in Nat /\ silence' <= quota + ReadTimeouts
        BY <1>1, <1>2, <1>3, <2>1
    <2>3. \/ phase' = "reopen" /\ reconnects' = reconnects + 1 /\ reconnects < Reconnects
          \/ phase' = "drain" /\ reconnects' = reconnects
        BY <1>10 DEF ReadBreaks, MayReconnect, Fail
    <2> QED BY <1>1, <1>2, <2>2, <2>3
<1>11. CASE Reopen
    <2>1. /\ phase = "reopen" /\ UNCHANGED <<reconnects, silence>>
          /\ \/ phase' = "read" /\ timeouts' = 0
             \/ phase' = "drain" /\ timeouts' = timeouts
        BY <1>11 DEF Reopen, Fail
    <2> QED BY <1>1, <1>2, <1>3, <2>1
<1>12. CASE ReadEnds \/ Verify \/ Drain \/ Finish \/ NextRequest
    <2>1. UNCHANGED retries /\ phase' \in {"verify", "drain", "finish", "done", "idle"}
        BY <1>12 DEF ReadEnds, Verify, Drain, Finish, NextRequest, Fail, retries
    <2> QED BY <1>4, <2>1
<1> QED BY <1>5, <1>6, <1>7, <1>8, <1>9, <1>10, <1>11, <1>12 DEF Next, Handler

------------------------------------------------------------------------------
(* The rest of the types, and the theorem. *)

RestTyped ==
    /\ handle \in {"open", "closed", "leaked"}
    /\ outcome \in {"none", "OK", "ERR"}
    /\ frame \in {"none", "whole", "tail"}
    /\ failed \in BOOLEAN
    /\ wire \in {"framed", "midframe", "torn"}

LEMMA FlushedTyped ==
    ASSUME NEW f \in {"none", "whole", "tail"}, NEW w \in {"framed", "midframe", "torn"},
           NEW p \in Flushed(f, w)
    PROVE  /\ p.frame \in {"none", "whole", "tail"}
           /\ p.failed \in BOOLEAN
           /\ p.wire \in {"framed", "midframe", "torn"}
<1>1. p.frame \in {f, "none", "tail"} /\ p.wire \in {w, "torn", "framed", "midframe"}
    BY DEF Flushed
<1>2. p.failed = TRUE \/ p.failed = FALSE
    BY DEF Flushed
<1> QED BY <1>1, <1>2

LEMMA ProgressTyped ==
    ASSUME RestTyped, SendProgress \/ DrainProgress \/ UNCHANGED progress
    PROVE  /\ frame' \in {"none", "whole", "tail"}
           /\ failed' \in BOOLEAN
           /\ wire' \in {"framed", "midframe", "torn"}
<1>1. CASE UNCHANGED progress
    BY <1>1 DEF progress, RestTyped
<1>2. CASE \E p \in Flushed(frame, wire) : BecomesProgress(p)
    <2>1. PICK p \in Flushed(frame, wire) : BecomesProgress(p)
        BY <1>2
    <2>2. p.frame \in {"none", "whole", "tail"} /\ p.failed \in BOOLEAN /\ p.wire \in {"framed", "midframe", "torn"}
        BY FlushedTyped DEF RestTyped
    <2> QED BY <2>1, <2>2 DEF BecomesProgress, RestTyped
<1>3. CASE \E p \in Flushed(frame, wire) : \E q \in Flushed("whole", p.wire) : BecomesProgress(q)
    <2>1. PICK p \in Flushed(frame, wire) : \E q \in Flushed("whole", p.wire) : BecomesProgress(q)
        BY <1>3
    <2>2. PICK q \in Flushed("whole", p.wire) : BecomesProgress(q)
        BY <2>1
    <2>3. p.wire \in {"framed", "midframe", "torn"}
        BY FlushedTyped DEF RestTyped
    <2>4. q.frame \in {"none", "whole", "tail"} /\ q.failed \in BOOLEAN /\ q.wire \in {"framed", "midframe", "torn"}
        BY <2>3, FlushedTyped
    <2> QED BY <2>2, <2>4 DEF BecomesProgress, RestTyped
<1> QED BY <1>1, <1>2, <1>3 DEF SendProgress, DrainProgress

(* What each action does to the progress stream.                           *)
LEMMA ProgressSteps ==
    ASSUME Next
    PROVE  \/ \E c \in BOOLEAN : Start(c)
           \/ Finish
           \/ UNCHANGED progress \/ SendProgress
           \/ Drain /\ DrainProgress
BY DEF Next, Handler, Publish, Open, ReadBlock, ReadTimesOut, ReadBreaks, Reopen, Resume, Restart,
       ReadEnds, Verify, Drain, NextRequest

LEMMA RestKept == RestTyped /\ [Next]_vars => RestTyped'
<1> SUFFICES ASSUME RestTyped, [Next]_vars PROVE RestTyped'
    OBVIOUS
<1>1. CASE UNCHANGED vars
    BY <1>1 DEF vars, download, progress, RestTyped
<1>2. CASE Next
    <2>1. handle' \in {handle, "open", "closed", "leaked"} /\ outcome' \in {outcome, "none", "OK", "ERR"}
        BY <1>2 DEF Next, Handler, Start, Publish, Open, ReadBlock, ReadTimesOut, ReadBreaks, Reopen,
                    ReadEnds, Verify, Drain, Finish, NextRequest, Fail, download
    <2>2. /\ frame' \in {"none", "whole", "tail"} /\ failed' \in BOOLEAN
          /\ wire' \in {"framed", "midframe", "torn"}
        <3>1. CASE \E c \in BOOLEAN : Start(c)
            BY <3>1 DEF Start
        <3>2. CASE Finish
            BY <3>2 DEF Finish, RestTyped
        <3> QED BY <1>2, <3>1, <3>2, ProgressSteps, ProgressTyped
    <2> QED BY <2>1, <2>2 DEF RestTyped
<1> QED BY <1>1, <1>2

(* The variables of an install keep their types: its counters of bytes,    *)
(* timeouts and reconnections (web_server.c:1767-2147) are bounded by the  *)
(* bodies and the limits, for every number and length of bodies.           *)
THEOREM InstallTypeCorrect == Spec => []TypeOK
<1>1. Init => RestTyped
    BY DEF Init, RestTyped
<1>2. BytesInv /\ RetriesInv /\ RestTyped => TypeOK
    <2> SUFFICES ASSUME BytesInv, RetriesInv, RestTyped PROVE TypeOK
        OBVIOUS
    <2>1. conn \in [body : Versions, at : 0 .. MaxLength]
        <3>1. conn.at \in Nat /\ conn.at <= Length[conn.body] /\ conn.body \in Versions
            BY DEF BytesInv
        <3>2. Length[conn.body] \in Nat /\ Length[conn.body] <= MaxLength /\ MaxLength \in Nat
            BY <3>1, LongestBody
        <3>3. conn.at \in 0 .. MaxLength
            BY <3>1, <3>2
        <3> QED BY <3>3 DEF BytesInv
    <2>2. total \in 0 .. MaxLength \cup {Unknown}
        BY LongestBody DEF BytesInv
    <2>3. Len(file) <= MaxLength + 1
        BY LongestBody DEF BytesInv
    <2>4. silence \in 0 .. ReadTimeouts * (Reconnects + 1)
        BY InstallAssumption DEF RetriesInv
    <2> QED BY <2>1, <2>2, <2>3, <2>4 DEF TypeOK, BytesInv, RetriesInv, RestTyped, Phases
<1> QED BY BytesInvariance, RetriesInitial, RetriesKept, RestKept, <1>1, <1>2, PTL DEF Spec

------------------------------------------------------------------------------
(* The progress stream. *)

(* The browser is in the middle of a frame only while its tail is still to *)
(* be sent, and the result line is written when nothing is.                *)
WireInv ==
    /\ wire # "torn"
    /\ wire = "midframe" => frame = "tail"
    /\ phase = "finish" => failed \/ wire = "framed"

LEMMA FlushedWhole ==
    ASSUME NEW f \in {"none", "whole", "tail"}, NEW w \in {"framed", "midframe"},
           w = "midframe" => f = "tail", NEW p \in Flushed(f, w)
    PROVE  /\ p.wire \in {"framed", "midframe"}
           /\ p.wire = "midframe" => p.frame = "tail"
BY DEF Flushed

LEMMA WireKept == RestTyped /\ WireInv /\ [Next]_vars => WireInv'
<1> SUFFICES ASSUME RestTyped, WireInv, [Next]_vars PROVE WireInv'
    OBVIOUS
<1>1. frame \in {"none", "whole", "tail"} /\ wire \in {"framed", "midframe"} /\ (wire = "midframe" => frame = "tail")
    BY DEF RestTyped, WireInv
<1>2. CASE UNCHANGED vars
    BY <1>2 DEF vars, progress, WireInv
<1>3. CASE \E c \in BOOLEAN : Start(c)
    BY <1>3 DEF Start, WireInv
<1>4. CASE Finish
    BY <1>4 DEF Finish, WireInv
<1>5. CASE Drain /\ DrainProgress
    <2>1. CASE failed
        BY <1>5, <2>1 DEF DrainProgress, progress, WireInv
    <2>2. CASE ~ failed
        <3>1. PICK p \in Flushed(frame, wire) : (p.failed \/ p.frame = "none") /\ BecomesProgress(p)
            BY <1>5, <2>2 DEF DrainProgress
        <3>2. p.wire \in {"framed", "midframe"} /\ (p.wire = "midframe" => p.frame = "tail")
            BY <1>1, FlushedWhole
        <3> QED BY <3>1, <3>2 DEF BecomesProgress, WireInv
    <2> QED BY <2>1, <2>2
<1>6. CASE Next /\ ~ Finish /\ (UNCHANGED progress \/ SendProgress) /\ ~ Drain
    <2>1. phase' = "finish" => phase = "finish" /\ UNCHANGED progress
        BY <1>6 DEF Next, Handler, Start, Publish, Open, ReadBlock, ReadTimesOut, ReadBreaks, Reopen,
                    ReadEnds, Verify, NextRequest, Fail
    <2>2. CASE UNCHANGED progress
        BY <2>1, <2>2 DEF progress, WireInv
    <2>3. CASE SendProgress /\ phase' # "finish"
        <3>1. CASE failed
            BY <2>3, <3>1 DEF SendProgress, progress, WireInv
        <3>2. CASE ~ failed
            <4>1. PICK p \in Flushed(frame, wire) :
                      IF Busy(p) THEN BecomesProgress(p)
                      ELSE \E q \in Flushed("whole", p.wire) : BecomesProgress(q)
                BY <2>3, <3>2 DEF SendProgress
            <4>2. p.wire \in {"framed", "midframe"} /\ (p.wire = "midframe" => p.frame = "tail")
                BY <1>1, FlushedWhole
            <4>3. CASE Busy(p)
                BY <2>3, <4>1, <4>2, <4>3 DEF BecomesProgress, WireInv
            <4>4. CASE ~ Busy(p)
                <5>1. PICK q \in Flushed("whole", p.wire) : BecomesProgress(q)
                    BY <4>1, <4>4
                <5>2. p.wire = "framed"
                    BY <4>2, <4>4 DEF Busy
                <5>3. q.wire \in {"framed", "midframe"} /\ (q.wire = "midframe" => q.frame = "tail")
                    BY <5>2, FlushedWhole
                <5> QED BY <2>3, <5>1, <5>3 DEF BecomesProgress, WireInv
            <4> QED BY <4>3, <4>4
        <3> QED BY <3>1, <3>2
    <2> QED BY <1>6, <2>1, <2>2, <2>3
<1>7. Drain => DrainProgress
    BY DEF Drain
<1> QED BY <1>2, <1>3, <1>4, <1>5, <1>6, <1>7, ProgressSteps

(* However the socket takes the progress stream, the browser gets whole    *)
(* frames and a result it can read (web_server.c:1723-1765).               *)
THEOREM ProgressIsFramed == Spec => []WireNeverTorn
<1>1. Init => RestTyped /\ WireInv
    BY DEF Init, RestTyped, WireInv
<1>2. WireInv => WireNeverTorn
    BY DEF WireInv, WireNeverTorn
<1> QED BY RestKept, WireKept, <1>1, <1>2, PTL DEF Spec

------------------------------------------------------------------------------
(* What is handed over. *)

OneBody == \E v \in Versions : file = Body(v) /\ (curated => v = Catalogued)

(* Without a catalogued hash only one connection may have filled the file; *)
(* what passed the count or the hash is a whole body.                      *)
HandOverInv ==
    /\ phase = "read" /\ ~ curated => \A i \in 1 .. conn.at : file[i] = <<conn.body, i>>
    /\ phase = "verify" => curated
    /\ phase \in {"drain", "finish"} /\ outcome # "ERR" => OneBody

LEMMA WholeBody ==
    ASSUME BytesInv, conn.at = Length[conn.body], received = conn.at,
           \A i \in 1 .. conn.at : file[i] = <<conn.body, i>>
    PROVE  file = Body(conn.body)
<1>1. conn.body \in Versions /\ conn.at \in Nat /\ Len(file) = conn.at
      /\ file \in Seq(Versions \X (1 .. MaxLength))
    BY DEF BytesInv
<1>2. file = [i \in 1 .. Len(file) |-> file[i]]
    BY <1>1
<1> QED BY <1>1, <1>2 DEF Body

LEMMA HandOverKept == BytesInv /\ HandOverInv /\ [Next]_vars => HandOverInv'
<1> SUFFICES ASSUME BytesInv, HandOverInv, [Next]_vars PROVE HandOverInv'
    OBVIOUS
<1>1. CASE UNCHANGED <<phase, curated, conn, file, outcome>>
    BY <1>1 DEF HandOverInv, OneBody
<1>2. CASE phase' \in {"idle", "open", "reopen", "done"} \/ (phase' = "drain" /\ outcome' = "ERR")
    BY <1>2 DEF HandOverInv
<1>3. CASE UNCHANGED vars \/ Publish \/ ReadTimesOut
    BY <1>1, <1>3 DEF vars, Publish, ReadTimesOut, download
<1>4. CASE (\E c \in BOOLEAN : Start(c)) \/ ReadBreaks \/ Finish \/ NextRequest
    BY <1>2, <1>4 DEF Start, ReadBreaks, Finish, NextRequest, Fail
<1>5. CASE Open
    <2>1. CASE phase' = "read"
        <3>1. conn' = [body |-> published, at |-> 0]
            BY <1>5, <2>1 DEF Open, Fail
        <3>2. 1 .. conn'.at = {}
            BY <3>1
        <3> QED BY <2>1, <3>2 DEF HandOverInv
    <2> QED BY <1>2, <1>5, <2>1 DEF Open, Fail
<1>6. CASE ReadBlock
    <2>1. CASE phase' = "read" /\ ~ curated' /\ file' = Append(file, <<conn.body, conn.at + 1>>)
        <3>1. ~ curated /\ phase = "read" /\ conn' = [body |-> conn.body, at |-> conn.at + 1]
            BY <1>6, <2>1 DEF ReadBlock, BytesInv
        <3>2. /\ conn.at \in Nat /\ file \in Seq(Versions \X (1 .. MaxLength)) /\ Len(file) = conn.at
              /\ \A i \in 1 .. conn.at : file[i] = <<conn.body, i>>
            BY <3>1 DEF BytesInv, HandOverInv
        <3>3. conn'.body = conn.body /\ conn'.at = conn.at + 1
            BY <3>1
        <3>4. \A i \in 1 .. conn.at + 1 : file'[i] = <<conn.body, i>>
            <4> SUFFICES ASSUME NEW i \in 1 .. conn.at + 1 PROVE file'[i] = <<conn.body, i>>
                OBVIOUS
            <4>1. CASE i = conn.at + 1
                BY <2>1, <3>2, <4>1
            <4>2. CASE i \in 1 .. conn.at
                BY <2>1, <3>2, <4>2
            <4> QED BY <3>2, <4>1, <4>2
        <3> QED BY <2>1, <3>3, <3>4 DEF HandOverInv
    <2>2. CASE phase' = "read" /\ curated'
        BY <2>2 DEF HandOverInv
    <2> QED BY <1>2, <1>6, <2>1, <2>2 DEF ReadBlock, Fail
<1>7. CASE Reopen
    <2>1. CASE phase' = "read" /\ ~ curated'
        <3>1. conn' = [body |-> published, at |-> 0]
            BY <1>7, <2>1 DEF Reopen, Resume, Restart, Fail
        <3>2. 1 .. conn'.at = {}
            BY <3>1
        <3> QED BY <2>1, <3>2 DEF HandOverInv
    <2>2. CASE phase' = "read" /\ curated'
        BY <2>2 DEF HandOverInv
    <2> QED BY <1>2, <1>7, <2>1, <2>2 DEF Reopen, Fail
<1>8. CASE ReadEnds
    <2>1. CASE phase' = "verify"
        BY <1>8, <2>1 DEF ReadEnds, Fail, download, HandOverInv
    <2>2. CASE phase' = "drain" /\ ~ curated
        <3>1. file = Body(conn.body) /\ conn.body \in Versions
            BY <1>8, <2>2, WholeBody DEF ReadEnds, Complete, HandOverInv, BytesInv
        <3>2. UNCHANGED <<file, curated>>
            BY <1>8 DEF ReadEnds, download
        <3> QED BY <2>2, <3>1, <3>2 DEF HandOverInv, OneBody
    <2> QED BY <1>2, <1>8, <2>1, <2>2 DEF ReadEnds, Fail
<1>9. CASE Verify
    <2>1. CASE HashMatches /\ phase' = "drain"
        <3>1. file = Body(Catalogued) /\ Catalogued \in Versions /\ UNCHANGED <<file, curated>>
            BY <1>9, <2>1, InstallAssumption DEF Verify, HashMatches
        <3> QED BY <2>1, <3>1 DEF HandOverInv, OneBody
    <2> QED BY <1>2, <1>9, <2>1 DEF Verify, Fail
<1>10. CASE Drain
    BY <1>10 DEF Drain, download, HandOverInv, OneBody
<1> QED BY <1>3, <1>4, <1>5, <1>6, <1>7, <1>8, <1>9, <1>10 DEF Next, Handler

(* What is handed to pack_store_finish_upload() is one complete body, and  *)
(* the catalogued one for a catalogued URL, through every interruption,    *)
(* resumption, restart and republication (web_server.c:1947).              *)
THEOREM InstalledFileIsOneBody == Spec => []HandedOverIsOneBody
<1>1. Init => HandOverInv
    BY DEF Init, HandOverInv
<1>2. HandOverInv => HandedOverIsOneBody
    BY DEF HandOverInv, HandedOverIsOneBody, OneBody
<1> QED BY BytesInitial, BytesKept, HandOverKept, <1>1, <1>2, PTL DEF Spec
================================================================================
