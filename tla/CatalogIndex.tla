---------------------------- MODULE CatalogIndex ----------------------------
(***************************************************************************)
(* The streaming reader of catalog_index.c: one pass over a catalogue that *)
(* may be cut off anywhere, with one entry of storage, no stack and one    *)
(* key.  A document is given as what was published (a header and entries)  *)
(* and as its tokens; the scanner sees the tokens, the property compares   *)
(* its answer with the document.  Texts are names: Long stands for one     *)
(* that fits none of the scanner's buffers.                                *)
(***************************************************************************)
EXTENDS Integers, Sequences, FiniteSets

CONSTANTS
    Entries,    \* entries a published document may hold
    Schemas,    \* values of its "schema"
    MaxEntries, \* bound: entries of one document
    Wanted,     \* the ids asked for
    Long,       \* a text of TOKEN_CAP bytes or more
    MaxNumber,  \* INT64_MAX
    IntSpan     \* 2^32, the values of an int

(* An entry is a row of fields: texts, numbers, and values with fields of  *)
(* their own.                                                              *)
PlainFields == [key : STRING, kind : {"text", "number"}, text : STRING, number : Nat, inner : {<<>>}]
NestedFields == [key : STRING, kind : {"nested"}, text : {""}, number : {0}, inner : Seq(PlainFields)]

ASSUME IndexAssumption ==
    /\ Entries \subseteq Seq(PlainFields \cup NestedFields)
    /\ MaxEntries \in Nat
    /\ MaxNumber \in Nat /\ IntSpan \in 2 .. MaxNumber
    /\ Schemas \subseteq Nat
    /\ IsFiniteSet(Wanted)
    /\ Long \notin {"", "id", "name", "url", "sha256", "bytes", "packs", "schema"}

VARIABLES
    document,   \* what was published
    rest,       \* the tokens not yet read
    pass,       \* what the caller asks
    scan,       \* the scanner_t
    reply       \* the answer, or NoReply

indexVars == <<document, rest, pass, scan, reply>>

TextFields == {"id", "name", "url", "sha256"}
Fields == TextFields \cup {"bytes"}

(* A field of an entry: a text, a number, or a nested value whose fields   *)
(* sit in an array of objects.                                             *)
Text(k, t) == [key |-> k, kind |-> "text", text |-> t, number |-> 0, inner |-> <<>>]
Number(k, n) == [key |-> k, kind |-> "number", text |-> "", number |-> n, inner |-> <<>>]
Nested(k, fields) == [key |-> k, kind |-> "nested", text |-> "", number |-> 0, inner |-> fields]

Documents ==
    [schema : Schemas, headerFirst : BOOLEAN,
     packs : UNION {[1 .. n -> Entries] : n \in 0 .. MaxEntries}]

------------------------------------------------------------------------------
(* The document as tokens. *)

Mark(m) == [kind |-> m, text |-> "", number |-> 0]
Str(t) == [kind |-> "string", text |-> t, number |-> 0]
Num(n) == [kind |-> "number", text |-> "", number |-> n]

Joined(parts) ==
    LET upTo[n \in 0 .. Len(parts)] ==
            IF n = 0 THEN <<>> ELSE IF n = 1 THEN parts[1] ELSE upTo[n - 1] \o <<Mark(",")>> \o parts[n]
    IN  upTo[Len(parts)]
Tagged(k, value) == <<Str(k), Mark(":")>> \o value
Object(parts) == <<Mark("{")>> \o Joined(parts) \o <<Mark("}")>>
Array(parts) == <<Mark("[")>> \o Joined(parts) \o <<Mark("]")>>

Plain(f) == Tagged(f.key, IF f.kind = "number" THEN <<Num(f.number)>> ELSE <<Str(f.text)>>)
FieldTokens(f) ==
    IF f.kind # "nested" THEN Plain(f)
    ELSE Tagged(f.key, Object(<<Tagged("list", Array(<<Object([i \in DOMAIN f.inner |-> Plain(f.inner[i])])>>))>>))
EntryTokens(e) == Object([i \in DOMAIN e |-> FieldTokens(e[i])])

Tokens(d) ==
    LET header == Tagged("schema", <<Num(d.schema)>>)
        packs == Tagged("packs", Array([i \in DOMAIN d.packs |-> EntryTokens(d.packs[i])]))
    IN  Object(IF d.headerFirst THEN <<header, packs>> ELSE <<packs, header>>)

------------------------------------------------------------------------------
(* The scanner. *)

NoPack == [id |-> "", name |-> "", url |-> "", sha256 |-> "", bytes |-> -1]
NoReply == [ok |-> FALSE, answered |-> FALSE, names |-> {}, found |-> NoPack]
Passes ==
    {[asks |-> a, ids |-> {}] : a \in {"header", "validate"}}
    \cup {[asks |-> "find", ids |-> {i}] : i \in Wanted}
    \cup {[asks |-> "names", ids |-> Wanted]}

PacksDepth == 2                 \* packs_depth, which only "packs" in the root sets

Started ==
    [failed |-> FALSE, done |-> FALSE, depth |-> 0, inPacks |-> FALSE, inPack |-> FALSE,
     pending |-> FALSE, token |-> "", key |-> "", haveKey |-> FALSE,
     pack |-> NoPack, found |-> NoPack, names |-> {}, filled |-> 0, complete |-> 0, schema |-> 0]

IndexTypeOK ==
    /\ document \in Documents
    /\ pass \in Passes
    /\ scan.depth \in 0 .. 6 /\ scan.complete \in 0 .. MaxEntries
    /\ scan.inPack => scan.inPacks
    /\ reply.answered \in BOOLEAN /\ (reply.ok => reply.answered)

(* set_key(): a key too long for the buffer leaves the last one there. *)
KeySet(s) ==
    [s EXCEPT !.key = IF s.token = Long THEN s.key ELSE s.token, !.haveKey = TRUE, !.pending = FALSE]

(* handle_string_value() *)
ValueTaken(s) ==
    IF s.depth = 1 \/ ~ s.inPack \/ s.key \notin TextFields THEN s
    ELSE IF s.token = Long THEN [s EXCEPT !.failed = TRUE]
    ELSE [s EXCEPT !.pack[s.key] = s.token]

(* flush_pending_string(), then have_key = false. *)
Flushed(s) ==
    [(IF s.pending THEN ValueTaken(s) ELSE s) EXCEPT !.pending = FALSE, !.haveKey = FALSE]

AsInt(n) == n % IntSpan

(* handle_number_value() *)
NumberTaken(s, n) ==
    IF n > MaxNumber THEN [s EXCEPT !.failed = s.inPack]
    ELSE IF s.depth = 1 THEN (IF s.key = "schema" THEN [s EXCEPT !.schema = AsInt(n)] ELSE s)
    ELSE IF s.inPack /\ s.key = "bytes" THEN [s EXCEPT !.pack.bytes = n] ELSE s

Complete(pack) == pack.id # "" /\ pack.url # "" /\ pack.sha256 # "" /\ pack.bytes >= 0

(* close_pack(): the entry is the answer of a find, or names one slot. *)
PackClosed(s) ==
    LET t == [s EXCEPT !.inPack = FALSE]
        matches == s.pack.id \in pass.ids
    IN  IF ~ Complete(s.pack) THEN [t EXCEPT !.failed = TRUE]
        ELSE CASE pass.asks = "find" ->
                    [t EXCEPT !.complete = @ + 1, !.done = matches,
                              !.found = IF matches THEN s.pack ELSE @]
               [] pass.asks = "names" /\ matches ->
                    [t EXCEPT !.complete = @ + 1, !.filled = @ + 1,
                              !.names = IF s.pack.name = "" THEN @ ELSE @ \cup {<<s.pack.id, s.pack.name>>},
                              !.done = s.filled + 1 = Cardinality(pass.ids)]
               [] OTHER -> [t EXCEPT !.complete = @ + 1]

OpensPack(s, kind, depth) ==
    kind = "{" /\ s.inPacks /\ depth = PacksDepth + 1 /\ pass.asks # "header" /\ ~ s.done

(* start_container() *)
Opened(s, kind, key) ==
    LET depth == s.depth + 1
    IN  IF kind = "[" /\ key = "packs" /\ depth = PacksDepth
          THEN [s EXCEPT !.depth = depth, !.inPacks = TRUE]
        ELSE IF OpensPack(s, kind, depth)
          THEN [s EXCEPT !.depth = depth, !.inPack = TRUE, !.pack = NoPack]
        ELSE [s EXCEPT !.depth = depth]

ClosedAnywhere(s, depth) == s.inPack                    \* without the depth
ClosesPack(s, depth) == s.inPack /\ depth = PacksDepth

(* end_container() *)
Closed(s, kind) ==
    LET depth == IF s.depth > 0 THEN s.depth - 1 ELSE 0
        t == [s EXCEPT !.depth = depth]
    IN  IF kind = "}" /\ ClosesPack(s, depth) THEN PackClosed(t)
        ELSE IF kind = "]" /\ s.inPacks /\ depth = PacksDepth - 1 THEN [t EXCEPT !.inPacks = FALSE]
        ELSE t

(* feed(), a token at a time: the delimiter that ends a number, and the    *)
(* characters of a string, change nothing before it.                       *)
Fed(s, c) ==
    CASE c.kind = "string" -> [s EXCEPT !.token = c.text, !.pending = TRUE]
      [] c.kind = "number" -> NumberTaken(s, c.number)
      [] c.kind = ":" -> IF s.pending THEN KeySet(s) ELSE s
      [] c.kind = "," -> Flushed(s)
      [] OTHER ->
           LET key == IF s.haveKey /\ ~ s.pending THEN s.key ELSE ""
               t == Flushed(s)
           IN  IF t.failed THEN t                       \* feed() ends here next time
               ELSE IF c.kind \in {"{", "["} THEN Opened(t, c.kind, key) ELSE Closed(t, c.kind)

------------------------------------------------------------------------------
(* run(), a token at a time. *)

ReadToken ==
    /\ ~ reply.answered /\ ~ scan.failed
    /\ rest # <<>>
    /\ scan' = Fed(scan, Head(rest))
    /\ rest' = Tail(rest)
    /\ UNCHANGED <<document, pass, reply>>

(* The document ends, the file it was saved in does, or a read fails:      *)
(* run() returns and the caller answers.                                   *)
WholeDocument(s) == s.depth = 0 /\ ~ s.inPack
Ran(s) == ~ s.failed /\ WholeDocument(s) /\ s.schema = 1

Answer ==
    /\ ~ reply.answered
    /\ LET ran == Ran(scan)
       IN  reply' = [answered |-> TRUE,
                     ok |-> CASE pass.asks = "find" -> ran /\ scan.done
                              [] pass.asks = "validate" -> ran /\ scan.complete > 0
                              [] OTHER -> ran,
                     names |-> IF ran THEN scan.names ELSE {},
                     found |-> IF ran THEN scan.found ELSE NoPack]
    /\ UNCHANGED <<document, rest, pass, scan>>

IndexInit ==
    /\ document \in Documents
    /\ pass \in Passes
    /\ rest = Tokens(document)
    /\ scan = Started
    /\ reply = NoReply

IndexNext == ReadToken \/ Answer

IndexSpec == IndexInit /\ [][IndexNext]_indexVars

------------------------------------------------------------------------------
(* What the document says. *)

(* The last of the fields with a name, of the kind the scanner keeps.      *)
KindOf(k) == IF k = "bytes" THEN "number" ELSE "text"
Gives(f, k) == f.key = k /\ f.kind = KindOf(k)
Content(f, k) == IF k = "bytes" THEN f.number ELSE f.text

Value(e, k) ==
    LET at == {i \in DOMAIN e : Gives(e[i], k)}
    IN  IF at = {} THEN NoPack[k] ELSE Content(e[CHOOSE i \in at : \A j \in at : j <= i], k)

AsPack(e) == [id |-> Value(e, "id"), name |-> Value(e, "name"), url |-> Value(e, "url"),
              sha256 |-> Value(e, "sha256"), bytes |-> Value(e, "bytes")]

(* A field with no text too long to keep and no number too large.          *)
Fits(f) == f.kind = "number" => f.number <= MaxNumber
Readable(f) ==
    /\ f.kind = "text" /\ f.key \in TextFields => f.text # Long
    /\ Fits(f) /\ \A j \in DOMAIN f.inner : Fits(f.inner[j])

Usable(e) == Complete(AsPack(e)) /\ \A i \in DOMAIN e : Readable(e[i])

(* The scanner keeps one key and no stack: what a nested value calls by a  *)
(* field's name, and a value whose key is too long, are taken for fields   *)
(* of the entry.  Published catalogues hold neither.                       *)
Published(e) ==
    \A i \in DOMAIN e : /\ e[i].key # Long
                        /\ \A j \in DOMAIN e[i].inner : e[i].inner[j].key \notin Fields \cup {Long}

Distinct(d) == \A i, j \in DOMAIN d.packs : AsPack(d.packs[i]).id = AsPack(d.packs[j]).id => i = j

(* A pass needs an entry until those before it have every id it asks for.  *)
Seen(d, n) == {AsPack(d.packs[i]).id : i \in 1 .. n}
Met(d, p, n) == p.ids # {} /\ p.ids \subseteq Seen(d, n)
Needed(d, p) == {n \in DOMAIN d.packs : ~ Met(d, p, n - 1)}

Expected(d, p) ==
    LET schemaOk == d.schema <= MaxNumber /\ AsInt(d.schema) = 1
        usable == \A n \in Needed(d, p) : Usable(d.packs[n])
        named == {<<AsPack(d.packs[i]).id, AsPack(d.packs[i]).name>> : i \in DOMAIN d.packs}
        ok == CASE p.asks = "header" -> schemaOk
                [] p.asks = "validate" -> schemaOk /\ usable /\ Len(d.packs) > 0
                [] p.asks = "find" -> schemaOk /\ usable /\ Met(d, p, Len(d.packs))
                [] OTHER -> schemaOk /\ usable
    IN  [answered |-> TRUE, ok |-> ok,
         names |-> IF ok /\ p.asks = "names"
                   THEN {n \in named : n[1] \in p.ids /\ n[2] # ""} ELSE {},
         found |-> IF ok /\ p.asks = "find"
                   THEN AsPack(d.packs[CHOOSE n \in Needed(d, p) : Met(d, p, n)]) ELSE NoPack]

(* A catalogue is read as it was published or not at all: a pass over a    *)
(* document cut off anywhere, or with an entry the device cannot install   *)
(* from before the answer, answers nothing; otherwise the answer is the    *)
(* document's, wherever its keys stand (catalog_index.c:283-302).          *)
ScanReadsDocument ==
    (/\ reply.answered
     /\ \A i \in DOMAIN document.packs : Published(document.packs[i])
     /\ pass.asks = "names" => Distinct(document)) =>
        IF rest = <<>> \/ scan.failed THEN reply = Expected(document, pass)
        ELSE ~ reply.ok
==============================================================================
