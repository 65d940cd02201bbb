------------------------------ MODULE MCReader ------------------------------
(***************************************************************************)
(* What a phone meets, for TLC, one part at a time: the symbol it scans    *)
(* (QrCode), the Bluetooth link it finds (BleLink), one article on its way *)
(* (ArticleStream), one search (TitleLookup), the archives both read       *)
(* (ContentArchive), the reading routes (ReaderRoutes), the page that      *)
(* manages them (Dashboard), and the catalogue it offers packs from        *)
(* (Catalogue).  The parts that are not chosen stand still in one state.   *)
(***************************************************************************)
EXTENDS ArticleStream, TitleLookup, ContentArchive, ReaderRoutes, Dashboard, QrCode, BleLink,
        MCCatalogue

CONSTANTS
    Subjects,      \* the parts
    packA, packB     \* two packs on the volume a phone lists

VARIABLE subject    \* the part this behaviour is about

phoneVars == <<articleVars, searchVars, archiveVars, readerVars, dashboardVars, qrVars, linkVars>>
parts == <<phoneVars, vars, subject>>

(* Two titles each: with a word boundary inside, and one after a mark.     *)
MCTables == {<<Small, Space, 5, Small, 5>>, <<5, Mark, Small, 5>>}
MCInputs == UNION {[1 .. n -> {Space, Capital, 5}] : n \in 0 .. 3} \cup {<<Small>>}

(* An archive of two articles, and archives that differ from it in a field *)
(* or two: every word in every length and offset.                          *)
Entry1 == [id |-> 0, content |-> 0, comp |-> 2, uncomp |-> 3, norm |-> 5, normLen |-> 1, disp |-> 6, dispLen |-> 1]
Entry2 == [id |-> 1, content |-> 2, comp |-> 1, uncomp |-> 3, norm |-> 6, normLen |-> 1, disp |-> 5, dispLen |-> 2]
Sound(n) ==
    [name |-> n, length |-> 13, known |-> TRUE, contentLen |-> 5, indexLen |-> 7, crcMatches |-> TRUE,
     content |-> [known |-> TRUE, headerSize |-> 1, payload |-> 4, dictOff |-> 3, dictLen |-> 1],
     index |-> [known |-> TRUE, entriesOff |-> 1, stringsOff |-> 5, size |-> 7, count |-> 2, crcMatches |-> TRUE,
                entry |-> <<Entry1, Entry2>>]]
S == Sound("sound")
Altered ==
    {[S EXCEPT !.name = "other", !.content.dictLen = 0, !.content.dictOff = 0]}
    \cup {[S EXCEPT !.length = l, !.contentLen = b, !.indexLen = c] : l \in {12, 13}, b, c \in Word}
    \cup {[S EXCEPT !.content.payload = a, !.content.dictLen = b, !.content.dictOff = c] : a, b \in Word, c \in {0, 3}}
    \cup {[S EXCEPT !.index.size = a, !.index.stringsOff = b, !.index.count = c] : a, b \in Word, c \in 1 .. 2}
    \cup {[S EXCEPT !.index.entry[2].content = a, !.index.entry[2].comp = b] : a, b \in Word}
    \cup {[S EXCEPT !.index.entry[2].norm = a, !.index.entry[2].normLen = b] : a, b \in Word}
MCVolumes == {{f, S} : f \in Altered}
MCFlash == Sound("flash")

(* A small pack and one twice its size, both in the catalogue. *)
MCPacks == 1 .. 2
MCPackSize == <<1, 2>>
MCListings == {MCPacks}

(* A text at the edges of some capacities, the last one too long; every    *)
(* short row, and rows of doubled modules.                                 *)
MCText(n) == [i \in 1 .. n |-> Bits(((37 * i * i + 11 * n) % 255) + 1)]
MCPayloads == {MCText(n) : n \in {0, 17, 18, 53, 107, 134, 135}}
RowsOf(n) == [1 .. n -> BOOLEAN]
MCLines == UNION {RowsOf(n) : n \in 1 .. 10}
           \cup {[i \in 1 .. 14 |-> r[(i + 1) \div 2]] : r \in RowsOf(7)}

(* A volume of up to two packs, in either order. *)
MCDirectories == {<<>>, <<packA>>, <<packB>>, <<packA, packB>>, <<packB, packA>>}

(* A frame damaged or under a wrong entry is served as a page; sound ones  *)
(* to every kind of request.                                               *)
ArticleBegins == ArticleInit /\ (asks = "page" \/ Intact)

(* Where each part rests. *)
ArticleStill ==
    /\ stored = [symbol |-> <<>>, byte |-> <<>>, ends |-> 1]
    /\ entry = [comp |-> 1, uncomp |-> 0, dict |-> 0]
    /\ asks = "page"
    /\ ArticleInit
SearchStill ==
    /\ index = CHOOSE i \in Indexes : TRUE
    /\ needle = <<Small>>
    /\ SearchInit
ArchiveStill ==                             \* before ca_init()
    /\ onVolume = {} /\ archive = Invalid
    /\ indexCopy = NoFile /\ indexSource = "storage" /\ file = NoFile
ReaderStill == installed = [n \in Names |-> 0] /\ ReaderInit
DashboardStill == has = {} /\ DashboardInit
QrStill == payload = NoText /\ line = <<>> /\ symbol = NotEncoded
LinkStill == LinkInit /\ listed = <<>>
CacheStill == Init /\ saved = None /\ queued = <<>>

MCInit ==
    /\ subject \in Subjects
    /\ IF subject = "article" THEN ArticleBegins ELSE ArticleStill
    /\ IF subject = "search" THEN SearchInit ELSE SearchStill
    /\ IF subject = "archive" THEN ArchiveInit ELSE ArchiveStill
    /\ IF subject = "routes" THEN ReaderInit ELSE ReaderStill
    /\ IF subject = "dashboard" THEN DashboardInit ELSE DashboardStill
    /\ IF subject = "qr" THEN QrInit ELSE QrStill
    /\ IF subject = "ble" THEN LinkInit ELSE LinkStill
    /\ IF subject = "cache" THEN Init ELSE CacheStill

MCNext ==
    /\ UNCHANGED subject
    /\ \/ subject = "article" /\ ArticleNext
          /\ UNCHANGED <<searchVars, archiveVars, readerVars, dashboardVars, qrVars, linkVars, vars>>
       \/ subject = "search" /\ SearchNext
          /\ UNCHANGED <<articleVars, archiveVars, readerVars, dashboardVars, qrVars, linkVars, vars>>
       \/ subject = "archive" /\ ArchiveNext
          /\ UNCHANGED <<articleVars, searchVars, readerVars, dashboardVars, qrVars, linkVars, vars>>
       \/ subject = "routes" /\ ReaderNext
          /\ UNCHANGED <<articleVars, searchVars, archiveVars, dashboardVars, qrVars, linkVars, vars>>
       \/ subject = "dashboard" /\ DashboardNext
          /\ UNCHANGED <<articleVars, searchVars, archiveVars, readerVars, qrVars, linkVars, vars>>
       \/ subject = "qr" /\ QrNext
          /\ UNCHANGED <<articleVars, searchVars, archiveVars, readerVars, dashboardVars, linkVars, vars>>
       \/ subject = "ble" /\ LinkNext
          /\ UNCHANGED <<articleVars, searchVars, archiveVars, readerVars, dashboardVars, qrVars, vars>>
       \/ subject = "cache" /\ Next /\ UNCHANGED phoneVars

MCSpec == MCInit /\ [][MCNext]_parts

(* Every variable keeps its type: what the handlers of web_server.c, the   *)
(* readers of title_lookup.c and content_archive.c, the dashboard, the     *)
(* encoder of qr_code.c, the Bluetooth service, and the catalogue cache    *)
(* with its users keep.                                                    *)
TypesOK ==
    /\ ArticleTypeOK /\ SearchTypeOK /\ ArchiveTypeOK
    /\ ReaderTypeOK /\ DashboardTypeOK /\ QrTypeOK /\ LinkTypeOK
    /\ TypeOK
=============================================================================
