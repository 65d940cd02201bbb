----------------------------- MODULE TitleLookup -----------------------------
(***************************************************************************)
(* Titles: title_lookup.c and the search page of web_server.c.  A search   *)
(* visits the libraries one at a time; in each it asks for an exact match  *)
(* and for the titles that begin with the query, by binary search, then    *)
(* scans for titles where the query begins a later word, through a window  *)
(* on the string table.                                                    *)
(*                                                                         *)
(* A byte is a number: a space, a mark that ends a word, a capital letter  *)
(* and the small letters.  The string table may be laid out in any way.    *)
(***************************************************************************)
EXTENDS Integers, SequencesExt

CONSTANTS
    Tables,       \* the string tables of an index
    Inputs,       \* what a user may type
    Limit,        \* PW_SEARCH_LIMIT
    Libraries,    \* how many libraries are installed
    WindowSize,   \* TL_SCAN_WINDOW
    MaxTitle,     \* the longest normalized title a lookup accepts: 255
    MaxEntries    \* bound: titles in an index

(* Bytes are numbers. *)
ASSUME TitleAssumption ==
    /\ \A text \in Tables \cup Inputs : text \in Seq(Nat)
    /\ Limit \in Nat \ {0} /\ Libraries \in Nat \ {0} /\ MaxEntries \in Nat
    /\ MaxTitle \in Nat \ {0} /\ WindowSize \in Nat /\ WindowSize >= MaxTitle

Space == 1
Mark == 2
Capital == 3
Small == 4          \* the same letter; larger bytes are other small letters
WordByte(b) == b \notin {Space, Mark}

VARIABLES
    index,          \* string table, range of each title in it, is its size known
    needle,         \* the normalized query
    library,        \* the library being searched
    step,           \* what the handler does next
    exact,          \* the exact match, if there is one
    ids,            \* matches of this library
    scanned,        \* entries the scan has passed
    window,         \* win_off, win_len and the bytes of win
    results,        \* what the page shows: library and entry
    unsearched      \* a read has failed

searchVars == <<index, needle, library, step, exact, ids, scanned, window, results, unsearched>>

TableSize == Len(index.table)
Count == Len(index.range)
Bytes(range) == SubSeq(index.table, range.off + 1, range.off + range.len)
Title(k) == Bytes(index.range[k])

SearchTypeOK ==
    /\ library \in 1 .. Libraries + 1
    /\ step \in {"exact", "prefix", "words", "show", "done"}
    /\ exact \in 0 .. Count
    /\ ids \in Seq(1 .. Count) /\ Len(ids) <= Limit
    /\ scanned \in 0 .. Count
    /\ window.len <= WindowSize
    /\ results \in Seq((1 .. Libraries) \X (1 .. Count))
    /\ unsearched \in BOOLEAN

------------------------------------------------------------------------------
(* tl_normalize(): trim, collapse runs of white space, fold case. *)

Folded(b) == IF b = Capital THEN Small ELSE b

Normalized(text) ==
    LET Take(acc, b) ==
            IF b = Space
            THEN [out |-> acc.out, gap |-> TRUE]
            ELSE [out |-> acc.out \o (IF acc.gap /\ acc.out # <<>> THEN <<Space>> ELSE <<>>)
                                  \o <<Folded(b)>>,
                  gap |-> FALSE]
        after[n \in 0 .. Len(text)] ==
            IF n = 0 THEN [out |-> <<>>, gap |-> FALSE] ELSE Take(after[n - 1], text[n])
    IN  after[Len(text)].out

------------------------------------------------------------------------------
(* Binary search. *)

(* title_cmp() < 0 *)
Before(s, t) ==
    \/ \E i \in DOMAIN s \cap DOMAIN t :
          s[i] < t[i] /\ \A j \in 1 .. i - 1 : s[j] = t[j]
    \/ Len(s) < Len(t) /\ IsPrefix(s, t)

(* lower_bound() over entries counted from 0. *)
LowerBound(t) ==
    LET search[r \in (0 .. Count) \X (0 .. Count)] ==
            LET lo == r[1]
                hi == r[2]
                mid == lo + ((hi - lo) \div 2)
            IN  IF lo >= hi THEN lo
                ELSE IF Before(Title(mid + 1), t) THEN search[<<mid + 1, hi>>]
                ELSE search[<<lo, mid>>]
    IN  search[<<0, Count>>]

(* tl_exact(): the entry, or 0 *)
ExactMatch(t) ==
    LET k == LowerBound(t) + 1
    IN  IF t # <<>> /\ k <= Count /\ Title(k) = t THEN k ELSE 0

(* tl_prefix() *)
PrefixRun(t, from, to) == \A k \in from .. to : IsPrefix(t, Title(k))
PrefixMatches(t, max) ==
    LET first == LowerBound(t) + 1
        last == CHOOSE n \in first - 1 .. Count :
                   /\ PrefixRun(t, first, n) /\ n < first + max
                   /\ n = Count \/ n + 1 = first + max \/ ~ PrefixRun(t, first, n + 1)
    IN  [i \in 1 .. last - first + 1 |-> first + i - 1]

(* word_start_match() *)
WordStartByOne(title, t) ==
    /\ ~ IsPrefix(t, title)
    /\ \E i \in 1 .. Len(title) - Len(t) - 1 :
          ~ WordByte(title[i]) /\ SubSeq(title, i + 1, i + Len(t)) = t
WordStart(title, t) ==
    /\ ~ IsPrefix(t, title)
    /\ \E i \in 1 .. Len(title) - Len(t) :
          ~ WordByte(title[i]) /\ SubSeq(title, i + 1, i + Len(t)) = t

------------------------------------------------------------------------------
(* tl_word_start(), one title at a time. *)

Outside(range) ==
    \/ range.off < window.off
    \/ range.len > window.len
    \/ range.off - window.off > window.len - range.len

(* As much as the window holds, or as there is when the size is known.     *)
Wanted(range) ==
    LET left == TableSize - range.off
        known == IF index.sized /\ left > 0 /\ left < WindowSize THEN left ELSE WindowSize
    IN  IF known < range.len THEN range.len ELSE known

(* A window past the end is refused; then just this title is read.         *)
FilledLength(range) ==
    IF range.off + Wanted(range) <= TableSize THEN Wanted(range) ELSE range.len

Filled(range) ==
    LET n == FilledLength(range)
    IN  [off |-> range.off, len |-> n,
         bytes |-> [i \in 0 .. WindowSize - 1 |->
                       IF i < n THEN index.table[range.off + i + 1] ELSE window.bytes[i]]]

Seen(w, range) == [i \in 1 .. range.len |-> w.bytes[range.off - w.off + i - 1]]

(* The search of a library fails on a read that fails, or on a title that  *)
(* is too long; one that is shorter than the query is passed over.         *)
ScanTitle ==
    LET k == scanned + 1
        range == index.range[k]
        after == IF Outside(range) THEN Filled(range) ELSE window
    IN  /\ range.len <= MaxTitle
        /\ scanned' = k
        /\ IF range.len < Len(needle)
           THEN UNCHANGED <<window, ids>>
           ELSE /\ window' = after
                /\ ids' = IF WordStart(Seen(after, range), needle) THEN Append(ids, k) ELSE ids

------------------------------------------------------------------------------
(* handle_search() *)

Vacant == Limit - Len(results)
EmptyWindow == [off |-> 0, len |-> 0, bytes |-> [i \in 0 .. WindowSize - 1 |-> 0]]

SearchExact ==
    /\ step = "exact"
    /\ \/ exact' = ExactMatch(needle) /\ UNCHANGED unsearched
       \/ exact' = 0 /\ unsearched' = TRUE
    /\ step' = "prefix"
    /\ UNCHANGED <<index, needle, library, ids, scanned, window, results>>

(* A library that cannot be opened is passed over. *)
SearchSkips ==
    /\ step = "exact"
    /\ library' = library + 1
    /\ step' = IF library = Libraries THEN "done" ELSE "exact"
    /\ unsearched' = TRUE
    /\ UNCHANGED <<index, needle, exact, ids, scanned, window, results>>

(* One library could not be searched: the page ends. *)
SearchFails ==
    /\ step' = "done"
    /\ unsearched' = TRUE
    /\ UNCHANGED <<ids, scanned, window>>

SearchPrefix ==
    /\ step = "prefix"
    /\ \/ SearchFails
       \/ /\ ids' = PrefixMatches(needle, Vacant)
          /\ step' = "words"
          /\ scanned' = 0
          /\ window' = EmptyWindow
          /\ UNCHANGED unsearched
    /\ UNCHANGED <<index, needle, library, exact, results>>

SearchWords ==
    /\ step = "words"
    /\ \/ Len(ids) < Vacant /\ scanned < Count /\ SearchFails
       \/ /\ Len(ids) < Vacant /\ scanned < Count
          /\ ScanTitle
          /\ UNCHANGED <<step, unsearched>>
       \/ /\ Len(ids) >= Vacant \/ scanned = Count
          /\ step' = "show"
          /\ UNCHANGED <<ids, scanned, window, unsearched>>
    /\ UNCHANGED <<index, needle, library, exact, results>>

(* The exact match first, then the others, until the page is full; one     *)
(* whose title cannot be read is left out.                                 *)
Listing(unread) ==
    LET shown[n \in 0 .. Len(ids)] ==
            IF n = 0 THEN IF exact \in {0} \cup unread THEN <<>> ELSE <<exact>>
            ELSE IF ids[n] \in {exact} \cup unread \/ Len(shown[n - 1]) >= Vacant
            THEN shown[n - 1] ELSE Append(shown[n - 1], ids[n])
    IN  [i \in 1 .. Len(shown[Len(ids)]) |-> <<library, shown[Len(ids)][i]>>]

(* The next library, unless the page is full. *)
SearchShow ==
    /\ step = "show"
    /\ \E unread \in SUBSET {ids[i] : i \in DOMAIN ids} :
          /\ results' = results \o Listing(unread)
          /\ unsearched' = (unsearched \/ unread # {})
    /\ library' = library + 1
    /\ step' = IF library = Libraries \/ Len(results') >= Limit THEN "done" ELSE "exact"
    /\ exact' = 0
    /\ ids' = <<>>
    /\ UNCHANGED <<index, needle, scanned, window>>

------------------------------------------------------------------------------
(* An archive the device has accepted: the packer sorted its titles, and   *)
(* every range lies in the table.                                          *)
Ranges(table) ==
    {r \in [off : 0 .. Len(table), len : 1 .. Len(table)] : r.off + r.len <= Len(table)}
Sorted(range, table) ==
    \A i \in 1 .. Len(range) - 1 :
        Before(SubSeq(table, range[i].off + 1, range[i].off + range[i].len),
               SubSeq(table, range[i + 1].off + 1, range[i + 1].off + range[i + 1].len))
Indexes ==
    UNION {{[table |-> t, range |-> r, sized |-> s] :
              r \in {q \in BoundedSeq(Ranges(t), MaxEntries) : Sorted(q, t)},
              s \in BOOLEAN} : t \in Tables}

SearchInit ==
    /\ index \in Indexes
    /\ needle \in {Normalized(q) : q \in Inputs} \ {<<>>}
    /\ library = 1
    /\ step = "exact"
    /\ exact = 0
    /\ ids = <<>>
    /\ scanned = 0
    /\ window = EmptyWindow
    /\ results = <<>>
    /\ unsearched = FALSE

SearchNext == SearchExact \/ SearchSkips \/ SearchPrefix \/ SearchWords \/ SearchShow

SearchSpec == SearchInit /\ [][SearchNext]_searchVars

------------------------------------------------------------------------------

(* What a search means: the titles that begin with the query or where it   *)
(* begins a later word, of every library.  On the page the title that is   *)
(* the query comes before the others that begin with it, and those before  *)
(* the rest, library by library and otherwise in title order.              *)
BeginsWord(t, title) ==
    \E i \in 2 .. Len(title) :
        title[i - 1] \in {Space, Mark} /\ IsPrefix(t, SubSeq(title, i, Len(title)))
Matches == {k \in 1 .. Count : IsPrefix(needle, Title(k)) \/ BeginsWord(needle, Title(k))}

Rank(k) == IF Title(k) = needle THEN 1 ELSE IF IsPrefix(needle, Title(k)) THEN 2 ELSE 3
Above(a, b) ==
    \/ a[1] < b[1]
    \/ a[1] = b[1] /\ Rank(a[2]) < Rank(b[2])
    \/ a[1] = b[1] /\ Rank(a[2]) = Rank(b[2]) /\ a[2] < b[2]

(* Binary search and the scan through a moving window find exactly the     *)
(* titles they should, and the page leaves one out only below a full page, *)
(* for every layout of the string table, with its size known or not        *)
(* (title_lookup.c:76-206, web_server.c:256-306, 460-475).                 *)
SearchFindsAll ==
    step = "done" /\ ~ unsearched =>
        \A entry \in (1 .. Libraries) \X Matches :
            \/ \E i \in DOMAIN results : results[i] = entry
            \/ Len(results) = Limit /\ \A i \in DOMAIN results : Above(results[i], entry)

(* Whatever fails, the page shows matches only, in order, none twice and   *)
(* no more than the limit.                                                 *)
SearchShowsMatches ==
    /\ Len(results) <= Limit
    /\ \A i, j \in DOMAIN results : i < j => Above(results[i], results[j])
    /\ \A i \in DOMAIN results : results[i][2] \in Matches

(* Together: the page is the matches, the first of them when they are too  *)
(* many, and nothing else when something did fail.                         *)
SearchIsExact == SearchFindsAll /\ SearchShowsMatches
==============================================================================
