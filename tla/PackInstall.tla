----------------------------- MODULE PackInstall -----------------------------
(***************************************************************************)
(* handle_pack_install() of web_server.c: the device downloads a pack over *)
(* its own uplink into the staging file, through read timeouts, broken     *)
(* connections, resumed and restarted bodies, checks the hash when the     *)
(* catalogue has one, and streams its progress to the browser in chunks    *)
(* that must not block the download.  The pack server may publish another  *)
(* version of the pack at any moment.                                      *)
(*                                                                         *)
(* What pack_store_finish_upload() does with the file is PackStore; BLE    *)
(* and the archive lock are PackTasks.  Blocks stand for the 1 KiB reads.  *)
(***************************************************************************)
EXTENDS Integers, Sequences

CONSTANTS
    Versions,       \* bodies the server publishes under the URL, in order
    Length,         \* their lengths in blocks
    Catalogued,     \* the version whose size and SHA-256 the catalogue lists
    Installable,    \* blocks pack_store_installable_bytes() and the cap allow
    ReadTimeouts,   \* 3: the read timeout that gives a connection up
    Reconnects      \* 3

Unknown == -1       \* no Content-Length

ASSUME InstallAssumption ==
    /\ 1 \in Versions /\ Versions \subseteq Nat
    /\ Length \in [Versions -> Nat \ {0}]
    /\ \E longest \in Versions : \A v \in Versions : Length[v] <= Length[longest]
    /\ Catalogued \in Versions
    /\ Installable \in Nat
    /\ ReadTimeouts \in Nat \ {0}
    /\ Reconnects \in Nat

VARIABLES
    phase,       \* where the handler is
    curated,     \* the URL is in the catalogue, with a size and a hash
    published,   \* the version the server has under the URL
    conn,        \* the body this connection delivers, and from where
    total,       \* the length the handler expects, or Unknown
    received,    \* bytes counted since the start of the body
    file,        \* the staging file: a sequence of <<version, block>>
    handle,      \* fh: "open", "closed", or "leaked" when it was dropped
    timeouts,    \* read_timeouts
    reconnects,  \* the reconnections made
    silence,     \* read timeouts since the last byte, over all connections
    outcome,     \* the result line: "none", "OK" or "ERR"
    frame,       \* install_progress_t: nothing unsent, a frame, or its tail
    failed,      \* install_progress_t.failed: the browser is gone
    wire         \* what the browser has got: whole chunks, half of one, garbage

download == <<curated, published, conn, total, received, file, handle>>
retries == <<timeouts, reconnects, silence>>
progress == <<frame, failed, wire>>
vars == <<phase, download, retries, outcome, progress>>

Body(v) == [i \in 1 .. Length[v] |-> <<v, i>>]
Expected == IF curated THEN Length[Catalogued] ELSE Unknown
MaxLength == CHOOSE n \in {Length[v] : v \in Versions} : \A v \in Versions : Length[v] <= n

TypeOK ==
    /\ phase \in {"idle", "open", "read", "reopen", "verify", "drain", "finish", "done"}
    /\ curated \in BOOLEAN
    /\ published \in Versions
    /\ conn \in [body : Versions, at : 0 .. MaxLength]
    /\ total \in 0 .. MaxLength \cup {Unknown}
    /\ received \in 0 .. MaxLength + 1
    /\ file \in Seq(Versions \X (1 .. MaxLength)) /\ Len(file) <= MaxLength + 1
    /\ handle \in {"open", "closed", "leaked"}
    /\ timeouts \in 0 .. ReadTimeouts
    /\ reconnects \in 0 .. Reconnects
    /\ silence \in 0 .. ReadTimeouts * (Reconnects + 1)
    /\ outcome \in {"none", "OK", "ERR"}
    /\ frame \in {"none", "whole", "tail"}
    /\ failed \in BOOLEAN
    /\ wire \in {"framed", "midframe", "torn"}

------------------------------------------------------------------------------
(* The progress stream: install_progress_send() and _flush(). *)

(* A flush sends nothing, a part or all of what is unsent, or finds the    *)
(* browser gone.  Bytes of a new frame in the middle of another garble the *)
(* chunked response for good.                                              *)
Flushed(f, w) ==
    LET sends == IF w = "midframe" /\ f = "whole" THEN "torn" ELSE w
        ends  == IF sends = "torn" THEN "torn" ELSE "framed"
        stops == IF sends = "torn" THEN "torn" ELSE "midframe"
    IN  IF f = "none" THEN {[frame |-> f, failed |-> FALSE, wire |-> w]}
        ELSE {[frame |-> "none", failed |-> FALSE, wire |-> ends],
              [frame |-> "tail", failed |-> FALSE, wire |-> stops],
              [frame |-> f, failed |-> FALSE, wire |-> w],
              [frame |-> f, failed |-> TRUE, wire |-> w]}

BecomesProgress(p) ==
    /\ frame' = p.frame
    /\ failed' = (failed \/ p.failed)
    /\ wire' = p.wire

BusyNever(p) == p.failed                    \* the unsent suffix dropped
Busy(p) == p.failed \/ p.frame # "none"

(* A line that finds the previous frame unsent is skipped. *)
SendProgress ==
    IF failed THEN UNCHANGED progress
    ELSE \E p \in Flushed(frame, wire) :
            IF Busy(p) THEN BecomesProgress(p)
            ELSE \E q \in Flushed("whole", p.wire) : BecomesProgress(q)

(* The final flush may block, so it ends sent or failed. *)
DrainProgress ==
    IF failed THEN UNCHANGED progress
    ELSE \E p \in Flushed(frame, wire) :
            /\ p.failed \/ p.frame = "none"
            /\ BecomesProgress(p)

------------------------------------------------------------------------------
(* The request. *)

Fail ==
    /\ phase' = "drain"
    /\ outcome' = "ERR"

(* pack_store_begin_upload() succeeded and the response has started. *)
Start(c) ==
    /\ phase = "idle"
    /\ curated' = c
    /\ c => Length[Catalogued] <= Installable
    /\ phase' = "open"
    /\ handle' = "open"
    /\ file' = <<>> /\ received' = 0 /\ total' = Unknown
    /\ timeouts' = 0 /\ reconnects' = 0 /\ silence' = 0
    /\ outcome' = "none"
    /\ frame' = "none" /\ failed' \in BOOLEAN /\ wire' = "framed"
    /\ UNCHANGED <<published, conn>>

(* The server replaces the body; connections in progress keep the old one. *)
Publish ==
    /\ published + 1 \in Versions
    /\ published' = published + 1
    /\ UNCHANGED <<phase, curated, conn, total, received, file, handle, retries, outcome, progress>>

(* esp_http_client_open() and the headers: a length, or none.              *)
Announced(v) == {Length[v], Unknown}

Open ==
    /\ phase = "open"
    /\ \/ /\ \E len \in Announced(published) : total' = IF curated THEN Expected ELSE len
          /\ conn' = [body |-> published, at |-> 0]
          /\ \/ total' <= Installable /\ phase' = "read" /\ SendProgress /\ UNCHANGED outcome
             \/ Fail /\ UNCHANGED progress     \* too large, or no buffer
       \/ /\ Fail                              \* unreachable, or not 200
          /\ UNCHANGED <<total, conn, progress>>
    /\ UNCHANGED <<curated, published, received, file, handle, retries>>

Complete == conn.at = Length[conn.body]

TooLong == (total > 0 /\ received' > total) \/ received' > Installable

ReadBlock ==
    /\ phase = "read"
    /\ ~ Complete
    /\ conn' = [conn EXCEPT !.at = @ + 1]
    /\ timeouts' = 0 /\ silence' = 0
    /\ \/ /\ file' = Append(file, <<conn.body, conn.at + 1>>)
          /\ received' = received + 1
          /\ IF TooLong THEN Fail /\ UNCHANGED progress
             ELSE /\ SendProgress \/ UNCHANGED progress    \* at most every 250 ms
                  /\ UNCHANGED <<phase, outcome>>
       \/ Fail /\ UNCHANGED <<file, received, progress>>    \* the volume is full
    /\ UNCHANGED <<curated, published, total, handle, reconnects>>

(* -ESP_ERR_HTTP_EAGAIN, fewer than three times in a row. *)
ReadTimesOut ==
    /\ phase = "read"
    /\ ~ Complete
    /\ timeouts + 1 < ReadTimeouts
    /\ timeouts' = timeouts + 1
    /\ silence' = silence + 1
    /\ UNCHANGED <<phase, download, reconnects, outcome, progress>>

(* The third timeout, a connection error, or an early end of the body. *)
RetryAlways == received > 0 /\ total > received      \* the budget forgotten
MayReconnect == received > 0 /\ total > received /\ reconnects < Reconnects

ReadBreaks ==
    /\ phase = "read"
    /\ ~ Complete
    /\ \/ /\ timeouts + 1 = ReadTimeouts
          /\ timeouts' = ReadTimeouts
          /\ silence' = silence + 1
       \/ UNCHANGED <<timeouts, silence>>
    /\ IF MayReconnect
       THEN /\ phase' = "reopen"
            /\ reconnects' = IF reconnects < Reconnects THEN reconnects + 1 ELSE reconnects
            /\ UNCHANGED outcome
       ELSE Fail /\ UNCHANGED reconnects
    /\ UNCHANGED <<download, progress>>

(* 206: only a curated download asks for a range, and only a remainder of  *)
(* the expected length is taken.                                           *)
Resume ==
    /\ curated
    /\ Length[published] - received = total - received
    /\ conn' = [body |-> published, at |-> received]
    /\ UNCHANGED <<file, received, progress>>

(* 200: the staging file is truncated and the count restarted. *)
RestartInPlace ==
    /\ file' = file                             \* ftruncate() forgotten
    /\ received' = 0
RestartFromZero ==
    /\ file' = <<>>
    /\ received' = 0

Restart ==
    /\ \E len \in Announced(published) : len = Unknown \/ len = total
    /\ conn' = [body |-> published, at |-> 0]
    /\ RestartFromZero
    /\ SendProgress

Reopen ==
    /\ phase = "reopen"
    /\ \/ /\ Resume \/ Restart
          /\ phase' = "read"
          /\ timeouts' = 0
          /\ UNCHANGED outcome
       \/ /\ Fail                               \* no such answer, or no truncation
          /\ UNCHANGED <<conn, file, received, timeouts, progress>>
    /\ UNCHANGED <<curated, published, total, handle, reconnects, silence>>

(* Everything the connection had was read. *)
ReadEnds ==
    /\ phase = "read"
    /\ Complete
    /\ \/ /\ ~ (total > 0 /\ received # total)
          /\ ~ (Expected > 0 /\ received # Expected)
          /\ phase' = IF curated THEN "verify" ELSE "drain"
          /\ UNCHANGED outcome
       \/ /\ (total > 0 /\ received # total) \/ (Expected > 0 /\ received # Expected)
          /\ Fail
    /\ UNCHANGED <<download, retries, progress>>

(* The staging file is closed, read back and hashed, and opened again.     *)
(* When fflush() fails, fclose() is never called: the handle is dropped.   *)
HashUnchecked == TRUE
HashMatches == file = Body(Catalogued)

Verify ==
    /\ phase = "verify"
    /\ \/ /\ HashMatches
          /\ phase' = "drain"
          /\ UNCHANGED <<outcome, handle>>
       \/ /\ Fail                               \* mismatch, or an I/O error
          /\ handle' \in {"closed", "leaked"}
    /\ UNCHANGED <<curated, published, conn, total, received, file, retries, progress>>

(* install_done: the connection is gone, only the browser is left to wait  *)
(* for.                                                                    *)
Drain ==
    /\ phase = "drain"
    /\ DrainProgress
    /\ phase' = "finish"
    /\ UNCHANGED <<download, retries, outcome>>

(* pack_store_abort_upload() or pack_store_finish_upload(), then the line. *)
Finish ==
    /\ phase = "finish"
    /\ outcome' \in IF outcome = "ERR" THEN {"ERR"} ELSE {"OK", "ERR"}
    /\ handle' = IF handle = "open" THEN "closed" ELSE handle
    /\ wire' = IF ~ failed /\ wire # "framed" THEN "torn" ELSE wire
    /\ phase' = "done"
    /\ UNCHANGED <<curated, published, conn, total, received, file, retries, frame, failed>>

NextRequest ==
    /\ phase = "done"
    /\ phase' = "idle"
    /\ UNCHANGED <<download, retries, outcome, progress>>

Init ==
    /\ phase = "idle" /\ curated = FALSE
    /\ published = 1 /\ conn = [body |-> 1, at |-> 0] /\ total = Unknown
    /\ received = 0 /\ file = <<>> /\ handle = "closed"
    /\ timeouts = 0 /\ reconnects = 0 /\ silence = 0
    /\ outcome = "none"
    /\ frame = "none" /\ failed = FALSE /\ wire = "framed"

Handler ==
    \/ Open \/ ReadBlock \/ ReadTimesOut \/ ReadBreaks \/ Reopen \/ ReadEnds
    \/ Verify \/ Drain \/ Finish \/ NextRequest

Next == (\E c \in BOOLEAN : Start(c)) \/ Publish \/ Handler

(* Every call the handler makes returns: reads and connects have socket    *)
(* timeouts, and the final flush ends when the browser's socket does.      *)
Spec == Init /\ [][Next]_vars /\ WF_vars(Handler)

------------------------------------------------------------------------------
(* Properties *)

(* "Allow every download to restart from byte 0 safely"                    *)
(* (web_server.c:1947): whatever was interrupted, resumed, restarted or    *)
(* republished meanwhile, the file handed to pack_store_finish_upload() is *)
(* one complete body, and the catalogued one for a catalogued URL.         *)
HandedOverIsOneBody ==
    phase = "finish" /\ outcome # "ERR" =>
        \E v \in Versions : file = Body(v) /\ (curated => v = Catalogued)

(* "Dropping it corrupts HTTP chunk framing" (web_server.c:1723): the      *)
(* browser never gets one frame in the middle of another, nor the result   *)
(* line, and a result it can read is the last thing it gets.               *)
WireNeverTorn == wire # "torn"

(* An install ends, however often timeouts, broken connections and         *)
(* restarts alternate.                                                     *)
InstallEnds == phase = "open" ~> phase = "done"
==============================================================================
