---------------------------- MODULE ArticleStream ----------------------------
(***************************************************************************)
(* One article on its way to a browser: serve_article() and                *)
(* stream_article_deflate() of web_server.c.  The frame in the archive is  *)
(* inflated through a ring that holds the pack's dictionary first, and     *)
(* what the ring receives is sent before the whole can be verified.        *)
(*                                                                         *)
(* The inflater (miniz) is external and modelled by its contract: an       *)
(* output byte can be written once the input byte that holds the last bit  *)
(* of its symbol has been offered; a call stops where the input or the     *)
(* room ends, and then holds every input byte of the symbol it stopped in. *)
(***************************************************************************)
EXTENDS Integers, Sequences, FiniteSetsExt

CONSTANTS
    RingSize,    \* PW_INFLATE_RING_SIZE
    ChunkSize,   \* PW_CHUNK_SIZE
    MaxIn,       \* bound: bytes of a frame
    MaxOut       \* bound: bytes of an article, and of a dictionary

ASSUME ArticleAssumption ==
    /\ RingSize \in Nat \ {0} /\ ChunkSize \in Nat \ {0}
    /\ MaxIn \in Nat \ {0} /\ MaxOut \in Nat \ {0}

VARIABLES
    stored,      \* the frame: its output bytes, the input each needs, its end
    entry,       \* the index entry: comp_len, uncomp_len; dict_len of the pack
    asks,        \* "page", "copy held" (If-None-Match matches) or "download"
    stage,       \* where the handler is
    ring,        \* s_decoder.window: what each slot holds
    offered,     \* input_offset
    absorbed,    \* what the inflater has consumed of it
    total,       \* total_out
    response,    \* caching, article bytes, what was added, and how it ended
    faulted      \* a read or a write has failed

articleVars == <<stored, entry, asks, stage, ring, offered, absorbed, total, response, faulted>>

(* A slot of the ring holds output byte k, counted from 0, or the byte k   *)
(* from the end of the dictionary as -k, or is left from another article.  *)
Stale == MaxOut

ArticleTypeOK ==
    /\ stored.symbol \in Seq(1 .. MaxIn) /\ Len(stored.symbol) <= MaxOut
    /\ stored.byte \in [DOMAIN stored.symbol -> {"right", "wrong", "invalid"}]
    /\ stored.ends \in 1 .. MaxIn
    /\ entry \in [comp : 1 .. MaxIn, uncomp : 0 .. MaxOut, dict : 0 .. MaxOut]
    /\ asks \in {"page", "copy held", "download"}
    /\ stage \in {"open", "dictionary", "refill", "inflate", "over"}
    /\ ring \in [0 .. RingSize - 1 -> - RingSize .. MaxOut]
    /\ offered \in 0 .. entry.comp /\ absorbed \in 0 .. offered
    /\ total \in 0 .. entry.uncomp
    /\ response \in [caching : {"none", "a day", "no-store"},
                     body : Seq(0 .. MaxOut), added : {"nothing", "message", "tags"},
                     end : {"open", "terminated", "dropped"}]
    /\ faulted \in BOOLEAN

------------------------------------------------------------------------------
(* Ending a response r with something added to it, or nothing; the last   *)
(* write may fail, and then the client is retired.                         *)

Close(r, what) ==
    /\ stage' = "over"
    /\ \E how \in {"terminated", "dropped"} :
          /\ response' = [r EXCEPT !.added = what, !.end = how]
          /\ faulted' = (faulted \/ how = "dropped")

(* finish_response(), send_plain() *)
FinishResponse == Close(response, "nothing")

(* finish_decode_error(): a message while no byte of the article is out;   *)
(* afterwards only the tags that end any page, under the status and the    *)
(* caching that went out with the first byte.                              *)
ErrorAfter(r) == IF r.body = <<>> THEN "message" ELSE "tags"

DecodeError == Close(response, ErrorAfter(response))

ReadError ==
    /\ stage' = "over"
    /\ faulted' = TRUE
    /\ \E how \in {"terminated", "dropped"} :
          response' = [response EXCEPT !.added = ErrorAfter(response), !.end = how]

(* send_body() fails: the client is retired, nothing more is sent.         *)
SendFails ==
    /\ stage' = "over"
    /\ faulted' = TRUE
    /\ response' = [response EXCEPT !.end = "dropped"]

------------------------------------------------------------------------------

(* serve_article(): the headers promise a day of caching before a byte of  *)
(* the article is decoded; a browser that holds the article keeps it.      *)
OpenResponse ==
    /\ stage = "open"
    /\ IF asks = "copy held"
       THEN FinishResponse
       ELSE /\ stage' = "dictionary"
            /\ response' = [response EXCEPT !.caching = IF asks = "page" THEN "a day" ELSE "no-store"]
            /\ UNCHANGED faulted
    /\ UNCHANGED <<stored, entry, asks, ring, offered, absorbed, total>>

(* The dictionary ends where the ring ends. *)
LeftAligned ==
    [slot \in DOMAIN ring |->
        IF slot < entry.dict THEN slot - entry.dict ELSE ring[slot]]
WithDictionary ==
    [slot \in DOMAIN ring |->
        IF slot >= RingSize - entry.dict THEN slot - RingSize ELSE ring[slot]]

LoadDictionary ==
    /\ stage = "dictionary"
    /\ \/ entry.dict > RingSize /\ DecodeError /\ UNCHANGED ring
       \/ entry.dict \in 1 .. RingSize /\ ReadError /\ UNCHANGED ring
       \/ /\ entry.dict <= RingSize
          /\ ring' = WithDictionary
          /\ stage' = "refill"
          /\ UNCHANGED <<response, faulted>>
    /\ UNCHANGED <<stored, entry, asks, offered, absorbed, total>>

(* The next block of input, once the last one is used up. *)
Refill ==
    /\ stage = "refill"
    /\ \/ /\ absorbed < offered
          /\ stage' = "inflate"
          /\ UNCHANGED <<offered, response, faulted>>
       \/ /\ absorbed = offered
          /\ offered >= entry.comp
          /\ DecodeError
          /\ UNCHANGED offered
       \/ /\ absorbed = offered
          /\ offered < entry.comp
          /\ \/ ReadError /\ UNCHANGED offered
             \/ /\ offered' = Min({entry.comp, offered + ChunkSize})
                /\ stage' = "inflate"
                /\ UNCHANGED <<response, faulted>>
    /\ UNCHANGED <<stored, entry, asks, ring, absorbed, total>>

------------------------------------------------------------------------------
(* tinfl_decompress(): external. *)

Room == RingSize - (total % RingSize)
Outputs == Len(stored.symbol)
Decodable(k) == k <= Outputs /\ stored.symbol[k] <= offered
Malformed(k) == Decodable(k) /\ stored.byte[k] = "invalid"

Produced == Max({n \in 0 .. Room :
                    \A k \in total + 1 .. total + n : Decodable(k) /\ ~ Malformed(k)})

Inflater ==
    LET next == total + Produced + 1
    IN  CASE Malformed(next) -> [status |-> "failed", consumed |-> stored.symbol[next]]
          [] Decodable(next) -> [status |-> "has more output",
                                 consumed |-> Max({absorbed, stored.symbol[next]})]
          [] next > Outputs /\ stored.ends <= offered -> [status |-> "done", consumed |-> stored.ends]
          [] OTHER -> [status |-> IF offered < entry.comp THEN "needs more input" ELSE "failed",
                       consumed |-> offered]

RingAfter ==
    [slot \in DOMAIN ring |->
        IF \E k \in total .. total + Produced - 1 : k % RingSize = slot
        THEN CHOOSE k \in total .. total + Produced - 1 : k % RingSize = slot
        ELSE ring[slot]]

------------------------------------------------------------------------------

LengthUnchecked == FALSE
TooLong == Produced > entry.uncomp - total
TrailingInput == Inflater.consumed # offered \/ offered # entry.comp

(* Length and CRC: the CRC finds every wrong byte. *)
LengthVerified ==
    /\ total + Produced = entry.uncomp
    /\ total + Produced = Outputs
Verified ==
    /\ total + Produced = entry.uncomp
    /\ total + Produced = Outputs
    /\ \A k \in 1 .. Outputs : stored.byte[k] = "right"

Sent == [response EXCEPT !.body = @ \o [i \in 1 .. Produced |-> total + i - 1]]

(* One call of the inflater and what the loop does with its answer: the    *)
(* block is sent, and the loop goes on, gives up, or ends verified.        *)
Proceed ==
    CASE Inflater.status \in {"has more output", "needs more input"} ->
            stage' = "refill" /\ response' = Sent /\ UNCHANGED faulted
      [] Inflater.status = "done" /\ ~ TrailingInput /\ Verified -> Close(Sent, "nothing")
      [] OTHER -> Close(Sent, ErrorAfter(Sent))

Inflate ==
    /\ stage = "inflate"
    /\ ring' = RingAfter
    /\ absorbed' = Inflater.consumed
    /\ IF Produced > 0 /\ TooLong
       THEN DecodeError /\ UNCHANGED total
       ELSE /\ total' = total + Produced
            /\ \/ Proceed
               \/ Produced > 0 /\ SendFails
    /\ UNCHANGED <<stored, entry, asks, offered>>

------------------------------------------------------------------------------

(* A frame as the packer wrote it agrees with its entry. *)
Intact ==
    /\ entry.comp = stored.ends
    /\ entry.uncomp = Outputs
    /\ entry.dict <= RingSize
    /\ \A k \in 1 .. Outputs : stored.byte[k] = "right"

Frames ==
    UNION {{[symbol |-> s, byte |-> b, ends |-> e] :
              s \in {t \in [1 .. n -> 1 .. MaxIn] : \A i \in 1 .. n - 1 : t[i] <= t[i + 1]},
              b \in {c \in [1 .. n -> {"right", "wrong", "invalid"}] :
                        \A i, j \in 1 .. n : c[i] # "right" /\ c[j] # "right" => i = j},
              e \in 1 .. MaxIn} : n \in 0 .. MaxOut}

(* A sound frame under an index entry that need not be its own. *)
ArticleInit ==
    /\ stored \in {f \in Frames : \A i \in DOMAIN f.symbol : f.symbol[i] <= f.ends}
    /\ entry \in [comp : 1 .. MaxIn, uncomp : 0 .. MaxOut, dict : 0 .. MaxOut]
    /\ asks \in {"page", "copy held", "download"}
    /\ stage = "open"
    /\ ring = [slot \in 0 .. RingSize - 1 |-> Stale]
    /\ offered = 0 /\ absorbed = 0 /\ total = 0
    /\ response = [caching |-> "none", body |-> <<>>, added |-> "nothing", end |-> "open"]
    /\ faulted = FALSE

ArticleNext == OpenResponse \/ LoadDictionary \/ Refill \/ Inflate

ArticleSpec == ArticleInit /\ [][ArticleNext]_articleVars

------------------------------------------------------------------------------

(* A back-reference of any distance DEFLATE allows finds the byte it       *)
(* means: the ring is the last RingSize bytes of the dictionary followed   *)
(* by the output (docs/ARCHIVE_FORMAT.md:25-28), however the calls split   *)
(* the input and the ring.                                                 *)
RingIsHistory ==
    stage \in {"refill", "inflate"} =>
        \A d \in 1 .. Min({RingSize, total + entry.dict}) :
            ring[(total - d) % RingSize] = total - d

(* What is sent of an article is its beginning, in order, and never more  *)
(* than the entry declares; the code's ordinary ending follows only a      *)
(* whole article whose length and CRC agree with the entry; and a message  *)
(* of failure stands alone, never after text.  A browser cannot tell the   *)
(* ending by tags from the ordinary one: see PageIsArticle.                *)
EndedIsVerified ==
    /\ Len(response.body) <= entry.uncomp
    /\ \A i \in DOMAIN response.body : response.body[i] = i - 1
    /\ response.added = "message" => response.body = <<>>
    /\ response.end = "terminated" /\ response.added = "nothing" /\ asks # "copy held" =>
          /\ Len(response.body) = entry.uncomp
          /\ \A k \in 1 .. entry.uncomp : stored.byte[k] = "right"

(* What docs/ARCHIVE_FORMAT.md:106-109 says of a wrong dictionary and a    *)
(* truncated stream, that they fail the CRC instead of serving             *)
(* plausible-looking text: of an article stored under its own length, cut  *)
(* short or decoded wrong, a page with text that arrives complete is the   *)
(* article, all of it.  The CRC is compared when the text is out already, *)
(* and finish_decode_error() ends the page like any other.                 *)
PageIsArticle ==
    /\ entry.uncomp = Outputs /\ entry.comp <= stored.ends
    /\ response.end = "terminated" /\ response.body # <<>>
    => /\ Len(response.body) = entry.uncomp
       /\ \A k \in 1 .. entry.uncomp : stored.byte[k] = "right"

(* An intact article is served whole when nothing fails.                   *)
IntactArticleServed ==
    stage = "over" /\ Intact /\ ~ faulted => response.added = "nothing"

(* The only intact articles refused are those with a byte just past a      *)
(* multiple of the ring that needs the last byte of the input.             *)
StraddlesTheEnd ==
    \E k \in 1 .. Outputs - 1 : k % RingSize = 0 /\ stored.symbol[k + 1] = stored.ends
OnlyStraddlersRefused ==
    stage = "over" /\ Intact /\ ~ faulted /\ ~ StraddlesTheEnd => response.added = "nothing"

(* What the handler vouches for: text is sent in order, an ordinary ending *)
(* is that of the verified article, and an article is refused or broken    *)
(* off only for a reason (web_server.c:590-723).                           *)
ArticleAnswered == EndedIsVerified /\ OnlyStraddlersRefused
==============================================================================
