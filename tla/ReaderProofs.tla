----------------------------- MODULE ReaderProofs -----------------------------
(***************************************************************************)
(* Proofs about what a phone meets: the reading routes and their visitors, *)
(* the dashboard, an article on its way, and the size of the symbol on the *)
(* panel, for every library, catalogue, ring, frame and text.              *)
(***************************************************************************)
EXTENDS ArticleStream, ReaderRoutes, Dashboard, QrCode, SequenceTheorems,
        FiniteSetTheorems, WellFoundedInduction, TLAPS

------------------------------------------------------------------------------
(* Numbers: the least and the greatest of a set. *)

LEMMA LeastNatural ==
    ASSUME NEW S, S \subseteq Nat, S # {}
    PROVE  \E x \in S : \A y \in S : x <= y
<1> DEFINE less == OpToRel(<, Nat)
<1>1. IsWellFoundedOn(less, Nat)
    BY NatLessThanWellFounded
<1>2. \A x, y \in Nat : x < y => <<x, y>> \in less
    BY DEF OpToRel
<1> HIDE DEF less
<1>3. PICK x \in S : \A y \in S : ~ (<<y, x>> \in less)
    BY <1>1, WFMin
<1>4. ASSUME NEW y \in S PROVE x <= y
    <2>1. x \in Nat /\ y \in Nat
        OBVIOUS
    <2>2. ~ (y < x)
        BY <1>2, <1>3, <2>1
    <2> QED BY <2>1, <2>2
<1> QED BY <1>4

LEMMA LeastIsMin ==
    ASSUME NEW S, S \subseteq Nat, S # {}
    PROVE  Min(S) \in S /\ \A y \in S : Min(S) <= y
BY LeastNatural DEF Min

LEMMA GreatestIsMax ==
    ASSUME NEW S, S \subseteq Nat, S # {}, NEW b \in Nat, \A y \in S : y <= b
    PROVE  Max(S) \in S /\ \A y \in S : y <= Max(S)
<1> DEFINE above == {m \in Nat : \A y \in S : y <= m}
<1>1. PICK m \in above : \A n \in above : m <= n
    BY LeastNatural
<1>2. m \in S
    <2> SUFFICES ASSUME m \notin S PROVE FALSE
        OBVIOUS
    <2> PICK least \in S : \A y \in S : least <= y
        BY LeastNatural
    <2>1. least \in Nat /\ least <= m /\ least # m /\ m \in Nat
        OBVIOUS
    <2>2. m - 1 \in above
        <3> SUFFICES ASSUME NEW y \in S PROVE y <= m - 1
            BY <2>1
        <3>1. y \in Nat /\ y <= m /\ y # m
            OBVIOUS
        <3> QED BY <2>1, <3>1
    <2> QED BY <1>1, <2>2
<1>3. \E x \in S : \A y \in S : x >= y
    BY <1>2
<1> QED BY <1>3 DEF Max

(* Two runs of consecutive numbers, one behind the other.                  *)
Run(from, n) == [i \in 1 .. n |-> from + i - 1]

LEMMA RunTyped ==
    ASSUME NEW from \in Nat, NEW n \in Int
    PROVE  Run(from, n) \in Seq(Nat) /\ (n \in Nat => Len(Run(from, n)) = n)
<1>1. CASE n \in Nat
    <2>1. \A i \in 1 .. n : from + i - 1 \in Nat
        BY <1>1
    <2> QED BY <1>1, <2>1 DEF Run
<1>2. CASE n \notin Nat
    <2>1. 1 .. n = 1 .. 0
        BY <1>2
    <2>2. Run(from, n) \in [1 .. 0 -> Nat]
        BY <2>1 DEF Run
    <2> QED BY <1>2, <2>2, SeqDef
<1> QED BY <1>1, <1>2

LEMMA RunsJoin ==
    ASSUME NEW from \in Nat, NEW a \in Nat, NEW b \in Nat
    PROVE  Run(from, a) \o Run(from + a, b) = Run(from, a + b)
<1> DEFINE f == Run(from, a)
           g == Run(from + a, b)
           s == f \o g
           t == Run(from, a + b)
<1>1. from + a \in Nat /\ a + b \in Nat
    OBVIOUS
<1>2. /\ f \in Seq(Nat) /\ Len(f) = a /\ g \in Seq(Nat) /\ Len(g) = b
      /\ t \in Seq(Nat) /\ Len(t) = a + b
    BY <1>1, RunTyped
<1>3. /\ \A i \in 1 .. a : f[i] = from + i - 1
      /\ \A i \in 1 .. b : g[i] = (from + a) + i - 1
      /\ \A i \in 1 .. a + b : t[i] = from + i - 1
    BY DEF Run
<1> HIDE DEF f, g
<1>4. /\ s \in Seq(Nat) /\ Len(s) = a + b
      /\ \A i \in 1 .. a + b : s[i] = IF i <= a THEN f[i] ELSE g[i - a]
    BY <1>2, ConcatProperties
<1> HIDE DEF s, t
<1>5. ASSUME NEW i \in 1 .. a + b PROVE s[i] = t[i]
    <2>1. CASE i <= a
        BY <1>3, <1>4, <2>1
    <2>2. CASE i > a
        <3>1. PICK j \in 1 .. b : i - a = j
            BY <2>2
        <3>2. s[i] = g[j]
            BY <1>4, <2>2, <3>1
        <3>3. g[j] = (from + a) + j - 1
            BY <1>3
        <3>4. (from + a) + j - 1 = from + i - 1
            BY <3>1
        <3>5. t[i] = from + i - 1
            BY <1>3
        <3> QED BY <3>2, <3>3, <3>4, <3>5
    <2> QED BY <2>1, <2>2
<1>6. s = t
    BY <1>2, <1>4, <1>5, SeqEqual
<1> QED BY <1>6 DEF s, t, f, g
------------------------------------------------------------------------------
(* The reading routes. *)

Pages == [shows : {"nothing", "article", "error"}, library : Names \cup {NoName}, url : Urls]

LinksTyped ==
    /\ tab \in [Visitors -> Pages]
    /\ redirect \in [Visitors -> Urls]
    /\ meant \in [Visitors -> Names \cup {NoName}]

(* A page shows an article of the library its URL names, and a redirect    *)
(* leads to the library that was meant.                                    *)
LinkKept(v) ==
    /\ redirect[v] # NoUrl => redirect[v].pack \in Names /\ redirect[v].pack = meant[v]
    /\ tab[v].shows = "article" => tab[v].library \in Names /\ tab[v].library = tab[v].url.pack
    /\ tab[v].shows = "article" /\ redirect[v] = NoUrl => tab[v].library = meant[v]

LinksInv == LinksTyped /\ \A v \in Visitors : LinkKept(v)

LEMMA ReadingTyped ==
    ASSUME LinksTyped, NEW v \in Visitors, NEW url \in Urls, NEW referer \in Names \cup {NoName},
           ReadingRoute(v, url, referer)
    PROVE  /\ tab' \in [Visitors -> Pages] /\ redirect' \in [Visitors -> Urls]
           /\ \A w \in Visitors \ {v} : tab'[w] = tab[w] /\ redirect'[w] = redirect[w]
           /\ \/ /\ url.pack = NoName
                 /\ tab'[v] = tab[v]
                 /\ redirect'[v] # NoUrl
                 /\ redirect'[v].pack = IF referer = NoName THEN Builtin ELSE referer
                 /\ redirect'[v].pack \in Names
              \/ /\ url.pack \in Names
                 /\ redirect'[v] = NoUrl
                 /\ tab'[v].url = url
                 /\ tab'[v].shows = "article" => tab'[v].library = url.pack
<1>1. Builtin \in Names /\ NoName \notin Names
    BY ReaderAssumption
<1>2. CASE NeedsCanonical(url) /\ redirect' = [redirect EXCEPT ![v] = CanonicalUrl(url, referer)]
           /\ UNCHANGED <<opened, tab>>
    <2>1. CanonicalUrl(url, referer) = [pack |-> IF referer = NoName THEN Builtin ELSE referer, long |-> url.long]
        BY DEF CanonicalUrl, Urls
    <2>2. CanonicalUrl(url, referer) \in Urls /\ CanonicalUrl(url, referer).pack \in Names
        BY <1>1, <2>1 DEF Urls
    <2>3. CanonicalUrl(url, referer) # NoUrl
        BY <1>1, <2>2 DEF NoUrl
    <2>4. redirect' \in [Visitors -> Urls] /\ redirect'[v] = CanonicalUrl(url, referer)
          /\ \A w \in Visitors \ {v} : redirect'[w] = redirect[w]
        BY <1>2, <2>2 DEF LinksTyped
    <2> QED BY <1>2, <2>1, <2>2, <2>3, <2>4 DEF NeedsCanonical, LinksTyped
<1>3. CASE ~ NeedsCanonical(url)
    <2>1. redirect' = [redirect EXCEPT ![v] = NoUrl] /\ NoUrl \in Urls /\ url.pack \in Names
        BY <1>3 DEF ReadingRoute, NeedsCanonical, NoUrl, Urls
    <2>2. redirect' \in [Visitors -> Urls] /\ redirect'[v] = NoUrl
          /\ \A w \in Visitors \ {v} : redirect'[w] = redirect[w]
        BY <2>1 DEF LinksTyped
    <2>3. \/ opened' = url.pack
             /\ \E found \in BOOLEAN : Show(v, IF found THEN "article" ELSE "error", opened', url)
          \/ UNCHANGED opened /\ Show(v, "error", NoName, url)
        BY <1>1, <1>3, <2>1 DEF ReadingRoute, NeedsCanonical, SelectLibrary, Opens, Unreadable
    <2>4. \E p \in Pages : /\ tab' = [tab EXCEPT ![v] = p]
                           /\ p.url = url
                           /\ p.shows = "article" => p.library = url.pack
        <3>1. CASE opened' = url.pack
                   /\ \E found \in BOOLEAN : Show(v, IF found THEN "article" ELSE "error", opened', url)
            <4>1. \A what \in {"article", "error"} : [shows |-> what, library |-> url.pack, url |-> url] \in Pages
                BY <2>1 DEF Pages
            <4> QED BY <3>1, <4>1 DEF Show
        <3>2. CASE Show(v, "error", NoName, url)
            <4>1. [shows |-> "error", library |-> NoName, url |-> url] \in Pages
                BY DEF Pages
            <4> QED BY <3>2, <4>1 DEF Show
        <3> QED BY <2>3, <3>1, <3>2
    <2>5. PICK p \in Pages : /\ tab' = [tab EXCEPT ![v] = p]
                             /\ p.url = url
                             /\ p.shows = "article" => p.library = url.pack
        BY <2>4
    <2>6. tab' \in [Visitors -> Pages] /\ tab'[v] = p /\ \A w \in Visitors \ {v} : tab'[w] = tab[w]
        BY <2>5 DEF LinksTyped
    <2> QED BY <2>1, <2>2, <2>5, <2>6
<1> QED BY <1>2, <1>3 DEF ReadingRoute

(* Only a visitor's own requests touch what is kept about her links.       *)
LEMMA OthersKept ==
    ASSUME LinksInv, NEW v \in Visitors, LinkKept(v)',
           \A w \in Visitors \ {v} : tab'[w] = tab[w] /\ redirect'[w] = redirect[w] /\ meant'[w] = meant[w]
    PROVE  \A w \in Visitors : LinkKept(w)'
<1> SUFFICES ASSUME NEW w \in Visitors PROVE LinkKept(w)'
    OBVIOUS
<1>1. CASE w # v
    BY <1>1 DEF LinksInv, LinkKept
<1> QED BY <1>1

LEMMA LinksInitial == ReaderInit => LinksInv
<1> SUFFICES ASSUME ReaderInit PROVE LinksInv
    OBVIOUS
<1>1. Blank \in Pages /\ NoUrl \in Urls /\ Blank.shows # "article"
    BY DEF Blank, Pages, NoUrl, Urls
<1>2. tab \in [Visitors -> Pages] /\ redirect \in [Visitors -> Urls] /\ meant \in [Visitors -> Names \cup {NoName}]
    BY <1>1 DEF ReaderInit
<1>3. \A v \in Visitors : tab[v] = Blank /\ redirect[v] = NoUrl
    BY DEF ReaderInit
<1> QED BY <1>1, <1>2, <1>3 DEF LinksInv, LinksTyped, LinkKept

LEMMA LinksKept == LinksInv /\ [ReaderNext]_readerVars => LinksInv'
<1> SUFFICES ASSUME LinksInv, [ReaderNext]_readerVars PROVE LinksInv'
    OBVIOUS
<1>1. /\ tab \in [Visitors -> Pages] /\ redirect \in [Visitors -> Urls]
      /\ meant \in [Visitors -> Names \cup {NoName}] /\ LinksTyped
      /\ Builtin \in Names /\ NoName \notin Names
    BY ReaderAssumption DEF LinksInv, LinksTyped
<1>2. CASE UNCHANGED <<tab, redirect, meant>>
    BY <1>2 DEF LinksInv, LinksTyped, LinkKept
<1>3. CASE UNCHANGED readerVars \/ LibraryChanges \/ OthersRead \/ \E v \in Visitors : BrowseMore(v) \/ BrowseLost(v)
    BY <1>2, <1>3 DEF readerVars, LibraryChanges, OthersRead, BrowseMore, BrowseLost
<1>4. ASSUME NEW v \in Visitors, FollowRedirect(v)
      PROVE  LinksInv'
    <2>1. redirect[v] # NoUrl /\ redirect[v].pack \in Names /\ redirect[v].pack = meant[v] /\ redirect[v] \in Urls
        BY <1>1, <1>4 DEF FollowRedirect, LinksInv, LinkKept
    <2>2. /\ tab' \in [Visitors -> Pages] /\ redirect' \in [Visitors -> Urls]
          /\ \A w \in Visitors \ {v} : tab'[w] = tab[w] /\ redirect'[w] = redirect[w]
          /\ redirect'[v] = NoUrl /\ tab'[v].url = redirect[v]
          /\ tab'[v].shows = "article" => tab'[v].library = redirect[v].pack
        BY <1>1, <1>4, <2>1, ReadingTyped DEF FollowRedirect
    <2>3. meant' = meant
        BY <1>4 DEF FollowRedirect
    <2>4. LinkKept(v)'
        BY <2>1, <2>2, <2>3 DEF LinkKept
    <2>5. \A w \in Visitors : LinkKept(w)'
        BY <2>2, <2>3, <2>4, OthersKept
    <2> QED BY <1>1, <2>2, <2>3, <2>5 DEF LinksInv, LinksTyped
<1>5. ASSUME NEW v \in Visitors, FollowPackedLink(v)
      PROVE  LinksInv'
    <2>1. PICK long \in BOOLEAN, tells \in BOOLEAN :
          /\ meant' = [meant EXCEPT ![v] =
                          IF tells /\ ~ tab[v].url.long THEN tab[v].library ELSE Builtin]
          /\ ReadingRoute(v, [pack |-> NoName, long |-> long],
                          IF tells THEN RefererPack(tab[v]) ELSE NoName)
        BY <1>5 DEF FollowPackedLink
    <2> DEFINE referer == IF tells THEN RefererPack(tab[v]) ELSE NoName
               url == [pack |-> NoName, long |-> long]
    <2>2. tab[v].shows = "article" /\ tab[v].library \in Names /\ tab[v].url.pack = tab[v].library
        BY <1>5 DEF FollowPackedLink, LinksInv, LinkKept
    <2>3. referer = (IF tells /\ ~ tab[v].url.long THEN tab[v].library ELSE NoName)
        BY <2>2 DEF RefererPack
    <2>4. url \in Urls /\ url.pack = NoName /\ referer \in Names \cup {NoName}
        BY <2>2, <2>3 DEF Urls
    <2>5. ReadingRoute(v, url, referer)
        BY <2>1
    <2> HIDE DEF referer, url
    <2>6. /\ tab' \in [Visitors -> Pages] /\ redirect' \in [Visitors -> Urls]
          /\ \A w \in Visitors \ {v} : tab'[w] = tab[w] /\ redirect'[w] = redirect[w]
          /\ tab'[v] = tab[v] /\ redirect'[v] # NoUrl /\ redirect'[v].pack \in Names
          /\ redirect'[v].pack = IF referer = NoName THEN Builtin ELSE referer
        BY <1>1, <2>4, <2>5, ReadingTyped
    <2>7. /\ meant' \in [Visitors -> Names \cup {NoName}]
          /\ meant'[v] = IF tells /\ ~ tab[v].url.long THEN tab[v].library ELSE Builtin
          /\ \A w \in Visitors \ {v} : meant'[w] = meant[w]
        BY <1>1, <2>1, <2>2
    <2>8. LinkKept(v)'
        BY <1>1, <2>2, <2>3, <2>6, <2>7 DEF LinkKept
    <2>9. \A w \in Visitors : LinkKept(w)'
        BY <2>6, <2>7, <2>8, OthersKept
    <2> QED BY <2>6, <2>7, <2>9 DEF LinksInv, LinksTyped
<1>6. ASSUME NEW v \in Visitors, FollowNamedLink(v)
      PROVE  LinksInv'
    <2>1. PICK n \in Names, long \in BOOLEAN :
              meant' = [meant EXCEPT ![v] = n] /\ ReadingRoute(v, [pack |-> n, long |-> long], NoName)
        BY <1>6 DEF FollowNamedLink
    <2> DEFINE url == [pack |-> n, long |-> long]
    <2>2. url \in Urls /\ url.pack = n /\ url.pack # NoName
        BY <1>1 DEF Urls
    <2>3. ReadingRoute(v, url, NoName)
        BY <2>1
    <2> HIDE DEF url
    <2>4. /\ tab' \in [Visitors -> Pages] /\ redirect' \in [Visitors -> Urls]
          /\ \A w \in Visitors \ {v} : tab'[w] = tab[w] /\ redirect'[w] = redirect[w]
          /\ redirect'[v] = NoUrl /\ tab'[v].url = url
          /\ tab'[v].shows = "article" => tab'[v].library = n
        BY <1>1, <2>2, <2>3, ReadingTyped
    <2>5. /\ meant' \in [Visitors -> Names \cup {NoName}] /\ meant'[v] = n
          /\ \A w \in Visitors \ {v} : meant'[w] = meant[w]
        BY <1>1, <2>1
    <2>6. LinkKept(v)'
        BY <2>2, <2>4, <2>5 DEF LinkKept
    <2>7. \A w \in Visitors : LinkKept(w)'
        BY <2>4, <2>5, <2>6, OthersKept
    <2> QED BY <2>4, <2>5, <2>7 DEF LinksInv, LinksTyped
<1>7. ASSUME NEW v \in Visitors, BrowseOpens(v)
      PROVE  LinksInv'
    <2>1. Blank \in Pages /\ Blank.shows = "nothing"
        BY DEF Blank, Pages, NoUrl, Urls
    <2>2. /\ redirect[v] = NoUrl /\ redirect' = redirect
          /\ tab' = [tab EXCEPT ![v] = Blank] /\ meant' = [meant EXCEPT ![v] = NoName]
        BY <1>7 DEF BrowseOpens
    <2>3. /\ tab' \in [Visitors -> Pages] /\ meant' \in [Visitors -> Names \cup {NoName}]
          /\ tab'[v] = Blank /\ \A w \in Visitors \ {v} : tab'[w] = tab[w] /\ meant'[w] = meant[w]
        BY <1>1, <2>1, <2>2
    <2>4. LinkKept(v)'
        BY <2>1, <2>2, <2>3 DEF LinkKept
    <2>5. \A w \in Visitors : LinkKept(w)'
        BY <2>2, <2>3, <2>4, OthersKept
    <2> QED BY <1>1, <2>2, <2>3, <2>5 DEF LinksInv, LinksTyped
<1> QED BY <1>3, <1>4, <1>5, <1>6, <1>7 DEF ReaderNext

(* A reader stays in the library whose page she is on, whatever the other  *)
(* visitors open meanwhile (docs/ARCHITECTURE.md:78-84).                   *)
THEOREM ReadersStayInLibrary == ReaderSpec => []LinksStayInLibrary
<1>1. LinksInv => LinksStayInLibrary
    BY DEF LinksInv, LinkKept, LinksStayInLibrary
<1> QED BY LinksInitial, LinksKept, <1>1, PTL DEF ReaderSpec

------------------------------------------------------------------------------
(* Scrolling a browse page. *)

Scrolls == [pack : Names \cup {NoName}, from : Nat, off : Nat, total : Nat, seen : Seq(Nat),
            watching : BOOLEAN, clean : BOOLEAN]

(* While nothing changed under it, a page that is watched has shown every  *)
(* article from its first up to its offset, and one that is not, all.      *)
ScrollKept(v) ==
    LET s == scroll[v]
    IN  /\ s.watching => s.pack # NoName
        /\ s.pack # NoName /\ s.clean => s.total = Size(s.pack)
        /\ s.pack # NoName /\ s.clean /\ s.from <= s.total /\ s.watching =>
              s.from <= s.off /\ s.off < s.total /\ s.seen = Run(s.from, s.off - s.from)
        /\ s.pack # NoName /\ s.clean /\ s.from <= s.total /\ ~ s.watching =>
              s.seen = Run(s.from, s.total - s.from)

ScrollInv ==
    /\ installed \in [Names -> 0 .. MaxArticles]
    /\ scroll \in [Visitors -> Scrolls]
    /\ \A v \in Visitors : ScrollKept(v)

LEMMA PageEndsInside ==
    ASSUME NEW off \in Nat, NEW size \in 0 .. MaxArticles
    PROVE  /\ PageEnd(off, size) \in Nat /\ PageEnd(off, size) <= size
           /\ off <= size => PageEnd(off, size) = IF off + PageSize > size THEN size ELSE off + PageSize
           /\ Listed(off, size) = Run(off, PageEnd(off, size) - off)
           /\ Listed(off, size) \in Seq(Nat)
<1>1. /\ MaxArticles \in Nat \ {0} /\ PageSize \in Nat \ {0}
      /\ OffsetSpace \in Nat /\ OffsetSpace > MaxArticles + PageSize
    BY ReaderAssumption
<1> DEFINE end == (off + PageSize) % OffsetSpace
<1>2. end \in Nat /\ size \in Nat /\ off + PageSize \in Nat
    BY <1>1
<1>3. off <= size => end = off + PageSize
    BY <1>1, <1>2
<1> HIDE DEF end
<1>4. PageEnd(off, size) = IF end > size THEN size ELSE end
    BY DEF PageEnd, end
<1>5. PageEnd(off, size) \in Nat /\ PageEnd(off, size) <= size
    BY <1>2, <1>4
<1>6. Listed(off, size) = Run(off, PageEnd(off, size) - off)
    BY DEF Listed, Run
<1>7. Listed(off, size) \in Seq(Nat)
    BY <1>5, <1>6, RunTyped
<1> QED BY <1>3, <1>4, <1>5, <1>6, <1>7

LEMMA SizeTyped ==
    ASSUME ScrollInv, NEW n \in Names
    PROVE  Size(n) \in 0 .. MaxArticles
BY ReaderAssumption DEF ScrollInv, Size

(* One visitor scrolls; the libraries and the other pages stay. *)
LEMMA OneScrolls ==
    ASSUME ScrollInv, NEW v \in Visitors, NEW s \in Scrolls, scroll' = [scroll EXCEPT ![v] = s],
           installed' = installed,
           s.watching => s.pack # NoName,
           s.pack # NoName /\ s.clean => s.total = Size(s.pack),
           s.pack # NoName /\ s.clean /\ s.from <= s.total /\ s.watching =>
               s.from <= s.off /\ s.off < s.total /\ s.seen = Run(s.from, s.off - s.from),
           s.pack # NoName /\ s.clean /\ s.from <= s.total /\ ~ s.watching =>
               s.seen = Run(s.from, s.total - s.from)
    PROVE  ScrollInv'
<1>1. scroll \in [Visitors -> Scrolls]
    BY DEF ScrollInv
<1>2. scroll' \in [Visitors -> Scrolls] /\ scroll'[v] = s
      /\ \A w \in Visitors \ {v} : scroll'[w] = scroll[w]
    BY <1>1
<1>3. \A n : Size(n)' = Size(n)
    BY DEF Size
<1>4. ASSUME NEW w \in Visitors PROVE ScrollKept(w)'
    <2>1. CASE w = v
        BY <1>2, <1>3, <2>1 DEF ScrollKept
    <2>2. CASE w # v
        BY <1>2, <1>3, <2>2 DEF ScrollKept, ScrollInv
    <2> QED BY <2>1, <2>2
<1> QED BY <1>2, <1>4 DEF ScrollInv

LEMMA BlankScroll == NoScroll \in Scrolls
<1>1. <<>> \in Seq(Nat)
    BY EmptySeq
<1> QED BY <1>1 DEF NoScroll, Scrolls

LEMMA OpensPage ==
    ASSUME ScrollInv, NEW v \in Visitors, BrowseOpens(v)
    PROVE  ScrollInv'
<1>1. PICK n \in Names, off \in 0 .. OffsetSpace - 1 :
          scroll' = [scroll EXCEPT ![v] =
                [pack |-> n, from |-> off, off |-> PageEnd(off, Size(n)), total |-> Size(n),
                 seen |-> Listed(off, Size(n)),
                 watching |-> PageEnd(off, Size(n)) < Size(n), clean |-> TRUE]]
    BY DEF BrowseOpens
<1> DEFINE size == Size(n)
           end == PageEnd(off, size)
           listed == Listed(off, size)
           s == [pack |-> n, from |-> off, off |-> end, total |-> size, seen |-> listed,
                 watching |-> end < size, clean |-> TRUE]
<1>2. off \in Nat /\ size \in 0 .. MaxArticles /\ size \in Nat /\ n # NoName /\ PageSize \in Nat \ {0}
    BY SizeTyped, ReaderAssumption
<1>3. /\ end \in Nat /\ end <= size /\ listed \in Seq(Nat)
      /\ off <= size => end = IF off + PageSize > size THEN size ELSE off + PageSize
      /\ listed = Run(off, end - off)
    BY <1>2, PageEndsInside
<1>4. size = Size(n) /\ scroll' = [scroll EXCEPT ![v] = s]
    BY <1>1
<1> HIDE DEF size, end, listed
<1>5. s \in Scrolls
    BY <1>2, <1>3 DEF Scrolls
<1>6. off <= size => off <= end
    BY <1>2, <1>3
<1>7. ~ (end < size) => end = size
    BY <1>2, <1>3
<1>8. /\ s.pack = n /\ s.from = off /\ s.off = end /\ s.total = size /\ s.seen = listed
      /\ s.watching = (end < size) /\ s.clean
    OBVIOUS
<1> HIDE DEF s
<1>9. installed' = installed
    BY DEF BrowseOpens
<1>10. s.pack # NoName /\ s.total = Size(s.pack)
    BY <1>2, <1>4, <1>8
<1>11. s.from <= s.total /\ s.watching =>
               s.from <= s.off /\ s.off < s.total /\ s.seen = Run(s.from, s.off - s.from)
    BY <1>3, <1>6, <1>8
<1>12. s.from <= s.total /\ ~ s.watching => s.seen = Run(s.from, s.total - s.from)
    BY <1>3, <1>7, <1>8
<1> QED BY <1>4, <1>5, <1>9, <1>10, <1>11, <1>12, OneScrolls

LEMMA FetchesNext ==
    ASSUME ScrollInv, NEW v \in Visitors, scroll[v].watching, installed' = installed,
           scroll' = [scroll EXCEPT ![v] =
                    [scroll[v] EXCEPT !.seen = @ \o Listed(scroll[v].off, Size(scroll[v].pack)),
                              !.off = NextOffset(@),
                              !.watching = NextOffset(scroll[v].off) < scroll[v].total]]
    PROVE  ScrollInv'
<1> DEFINE o == scroll[v]
<1>1. o \in Scrolls /\ ScrollKept(v) /\ o.pack \in Names
    BY DEF ScrollInv, ScrollKept, Scrolls
<1> DEFINE size == Size(o.pack)
           listed == Listed(o.off, size)
           s == [o EXCEPT !.seen = @ \o listed, !.off = NextOffset(@),
                          !.watching = NextOffset(o.off) < o.total]
<1>2. size \in 0 .. MaxArticles /\ size \in Nat /\ PageSize \in Nat \ {0} /\ o.off \in Nat
      /\ o.from \in Nat /\ o.total \in Nat /\ o.seen \in Seq(Nat) /\ NoName \notin Names
    BY <1>1, SizeTyped, ReaderAssumption DEF Scrolls
<1>3. /\ PageEnd(o.off, size) \in Nat /\ listed \in Seq(Nat)
      /\ o.off <= size =>
            PageEnd(o.off, size) = IF o.off + PageSize > size THEN size ELSE o.off + PageSize
      /\ listed = Run(o.off, PageEnd(o.off, size) - o.off)
    BY <1>2, PageEndsInside
<1>4. scroll' = [scroll EXCEPT ![v] = s]
    OBVIOUS
<1>5. size = Size(o.pack)
    OBVIOUS
<1> HIDE DEF size, listed, o
<1>6. o.seen \o listed \in Seq(Nat)
    BY <1>2, <1>3, ConcatProperties
<1>7. s \in Scrolls
    <2>1. s = [o EXCEPT !.seen = o.seen \o listed, !.off = o.off + PageSize,
                        !.watching = o.off + PageSize < o.total]
        BY DEF NextOffset
    <2>2. o.off + PageSize \in Nat /\ (o.off + PageSize < o.total) \in BOOLEAN
        BY <1>2
    <2> HIDE DEF s
    <2> QED BY <1>1, <1>6, <2>1, <2>2 DEF Scrolls
<1>8. /\ s.pack = o.pack /\ s.from = o.from /\ s.off = o.off + PageSize /\ s.total = o.total
      /\ s.seen = o.seen \o listed
      /\ s.watching = (o.off + PageSize < o.total) /\ s.clean = o.clean
    BY <1>1 DEF Scrolls, NextOffset
<1> HIDE DEF s
<1>9. s.pack # NoName
    BY <1>1, <1>2, <1>8
<1>10. s.clean => s.total = Size(s.pack) /\ s.total = size
    BY <1>1, <1>5, <1>8, <1>9 DEF ScrollKept, o
<1>11. ASSUME s.clean, s.from <= s.total
       PROVE  /\ s.watching => s.from <= s.off /\ s.off < s.total /\ s.seen = Run(s.from, s.off - s.from)
              /\ ~ s.watching => s.seen = Run(s.from, s.total - s.from)
    <2>1. o.from <= o.off /\ o.off < o.total /\ o.seen = Run(o.from, o.off - o.from) /\ o.total = size
        BY <1>1, <1>8, <1>9, <1>10, <1>11 DEF ScrollKept, o
    <2> DEFINE a == o.off - o.from
               b == PageEnd(o.off, size) - o.off
    <2>2. PageEnd(o.off, size) = IF o.off + PageSize > size THEN size ELSE o.off + PageSize
        BY <1>2, <1>3, <2>1
    <2>3. a \in Nat /\ b \in Nat /\ o.from + a = o.off
        BY <1>2, <2>1, <2>2
    <2>4. s.seen = Run(o.from, a) \o Run(o.from + a, b)
        BY <1>3, <1>8, <2>1, <2>3
    <2>5. s.seen = Run(o.from, a + b)
        BY <1>2, <2>3, <2>4, RunsJoin
    <2>6. a + b = PageEnd(o.off, size) - o.from
        BY <1>2, <1>3
    <2>7. CASE s.watching
        <3>0. o.off + PageSize < o.total
            BY <1>8, <2>7
        <3>1. PageEnd(o.off, size) = o.off + PageSize /\ o.from <= o.off + PageSize
            BY <1>2, <2>1, <2>2, <3>0
        <3>2. s.from <= s.off /\ s.off < s.total
            BY <1>8, <3>0, <3>1
        <3>3. a + b = s.off - s.from
            BY <1>8, <2>6, <3>1
        <3>4. s.seen = Run(s.from, s.off - s.from)
            BY <1>8, <2>5, <3>3
        <3> QED BY <2>7, <3>2, <3>4
    <2>8. CASE ~ s.watching
        <3>0. ~ (o.off + PageSize < o.total)
            BY <1>8, <2>8
        <3>1. PageEnd(o.off, size) = o.total
            <4>1. o.off + PageSize \in Nat /\ o.total \in Nat /\ o.total = size
                BY <1>2, <2>1
            <4>2. o.off + PageSize >= size
                BY <3>0, <4>1
            <4> QED BY <2>2, <4>1, <4>2
        <3>2. a + b = s.total - s.from
            BY <1>8, <2>6, <3>1
        <3>3. s.seen = Run(s.from, s.total - s.from)
            BY <1>8, <2>5, <3>2
        <3> QED BY <2>8, <3>3
    <2> QED BY <2>7, <2>8
<1> QED BY <1>4, <1>7, <1>9, <1>10, <1>11, OneScrolls

LEMMA ScrollInitial == ReaderInit => ScrollInv
<1> SUFFICES ASSUME ReaderInit PROVE ScrollInv
    OBVIOUS
<1>1. scroll \in [Visitors -> Scrolls] /\ \A v \in Visitors : scroll[v] = NoScroll
    BY BlankScroll DEF ReaderInit
<1>2. NoScroll.pack = NoName /\ NoScroll.watching = FALSE
    BY DEF NoScroll
<1> QED BY <1>1, <1>2 DEF ReaderInit, ScrollInv, ScrollKept

LEMMA ScrollsKept == ScrollInv /\ [ReaderNext]_readerVars => ScrollInv'
<1> SUFFICES ASSUME ScrollInv, [ReaderNext]_readerVars PROVE ScrollInv'
    OBVIOUS
<1>1. scroll \in [Visitors -> Scrolls] /\ installed \in [Names -> 0 .. MaxArticles]
    BY DEF ScrollInv
<1>2. CASE UNCHANGED <<installed, scroll>>
    BY <1>2 DEF ScrollInv, ScrollKept, Size
<1>3. CASE UNCHANGED readerVars \/ OthersRead \/ \E v \in Visitors : FollowRedirect(v) \/ FollowPackedLink(v)
    BY <1>2, <1>3 DEF readerVars, OthersRead, FollowRedirect, FollowPackedLink
<1>4. ASSUME NEW v \in Visitors, FollowNamedLink(v)
      PROVE  ScrollInv'
    <2>1. scroll' = [scroll EXCEPT ![v] = NoScroll] /\ installed' = installed
        BY <1>4 DEF FollowNamedLink
    <2>2. NoScroll.pack = NoName /\ NoScroll.watching = FALSE
        BY DEF NoScroll
    <2> QED BY <2>1, <2>2, BlankScroll, OneScrolls
<1>5. ASSUME NEW v \in Visitors, BrowseMore(v)
      PROVE  ScrollInv'
    <2>1. scroll[v].watching /\ installed' = installed
        BY <1>5 DEF BrowseMore
    <2>2. CASE scroll' = [scroll EXCEPT ![v] =
                    [scroll[v] EXCEPT !.off = NextOffset(@),
                        !.watching = NextOffset(scroll[v].off) < scroll[v].total, !.clean = FALSE]]
        <3> DEFINE s == [scroll[v] EXCEPT !.off = NextOffset(@),
                            !.watching = NextOffset(scroll[v].off) < scroll[v].total, !.clean = FALSE]
        <3>1. scroll[v] \in Scrolls /\ scroll[v].pack # NoName /\ PageSize \in Nat
            BY <1>1, <2>1, ReaderAssumption DEF ScrollInv, ScrollKept
        <3>2. s \in Scrolls
            <4>1. s = [scroll[v] EXCEPT !.off = scroll[v].off + PageSize, !.clean = FALSE,
                            !.watching = scroll[v].off + PageSize < scroll[v].total]
                BY DEF NextOffset
            <4>2. /\ scroll[v].off + PageSize \in Nat
                  /\ (scroll[v].off + PageSize < scroll[v].total) \in BOOLEAN
                BY <3>1 DEF Scrolls
            <4> HIDE DEF s
            <4> QED BY <3>1, <4>1, <4>2 DEF Scrolls
        <3>3. s.pack = scroll[v].pack /\ s.clean = FALSE
            BY <3>1 DEF Scrolls
        <3>4. scroll' = [scroll EXCEPT ![v] = s]
            BY <2>2
        <3> HIDE DEF s
        <3> QED BY <2>1, <3>1, <3>2, <3>3, <3>4, OneScrolls
    <2>3. CASE scroll' = [scroll EXCEPT ![v] =
                    [scroll[v] EXCEPT !.seen = @ \o Listed(scroll[v].off, Size(scroll[v].pack)),
                              !.off = NextOffset(@),
                              !.watching = NextOffset(scroll[v].off) < scroll[v].total]]
        BY <2>1, <2>3, FetchesNext
    <2> QED BY <1>5, <2>2, <2>3 DEF BrowseMore
<1>6. ASSUME NEW v \in Visitors, BrowseLost(v)
      PROVE  ScrollInv'
    <2> DEFINE s == [scroll[v] EXCEPT !.watching = FALSE, !.clean = FALSE]
    <2>1. scroll[v] \in Scrolls
        BY <1>1
    <2>2. s \in Scrolls /\ s.watching = FALSE /\ s.clean = FALSE
        BY <2>1 DEF Scrolls
    <2>3. scroll' = [scroll EXCEPT ![v] = s] /\ installed' = installed
        BY <1>1, <1>6 DEF BrowseLost
    <2> HIDE DEF s
    <2> QED BY <2>2, <2>3, OneScrolls
<1>7. CASE LibraryChanges
    <2>1. PICK n \in Names, size \in 0 .. MaxArticles :
              /\ installed' = [installed EXCEPT ![n] = size]
              /\ scroll' = [v \in Visitors |-> [scroll[v] EXCEPT !.clean = @ /\ scroll[v].pack # n]]
        BY <1>7 DEF LibraryChanges
    <2>2. installed' \in [Names -> 0 .. MaxArticles] /\ \A m \in Names \ {n} : installed'[m] = installed[m]
        BY <1>1, <2>1
    <2>3. \A m \in Names \ {n} : Size(m)' = Size(m)
        BY <2>2 DEF Size
    <2>4. ASSUME NEW v \in Visitors
          PROVE  scroll'[v] \in Scrolls /\ ScrollKept(v)'
        <3> DEFINE o == scroll[v]
                   s == scroll'[v]
        <3>1. o \in Scrolls /\ ScrollKept(v) /\ s = [o EXCEPT !.clean = @ /\ o.pack # n]
            BY <1>1, <2>1 DEF ScrollInv
        <3>2. s \in Scrolls
            BY <3>1 DEF Scrolls
        <3>3. /\ s.pack = o.pack /\ s.from = o.from /\ s.off = o.off /\ s.total = o.total
              /\ s.seen = o.seen /\ s.watching = o.watching /\ s.clean = (o.clean /\ o.pack # n)
            BY <3>1 DEF Scrolls
        <3>4. s.pack # NoName /\ s.clean => o.clean /\ o.pack \in Names \ {n}
            BY <3>1, <3>3 DEF Scrolls
        <3> QED BY <2>3, <3>1, <3>2, <3>3, <3>4 DEF ScrollKept
    <2>5. scroll' \in [Visitors -> Scrolls]
        BY <2>1, <2>4
    <2> QED BY <2>2, <2>4, <2>5 DEF ScrollInv
<1> QED BY <1>3, <1>4, <1>5, <1>6, <1>7, OpensPage DEF ReaderNext

(* A reader who scrolls to the end of a library that does not change sees  *)
(* every article once and in order, whatever others read between two       *)
(* pages, for every size of a library and of a page                        *)
(* (web_server.c:2146-2271).                                               *)
THEOREM BrowsingShowsEachOnce == ReaderSpec => []BrowseShowsEachOnce
<1>1. ScrollInv => BrowseShowsEachOnce
    BY DEF ScrollInv, ScrollKept, BrowseShowsEachOnce, Run
<1> QED BY ScrollInitial, ScrollsKept, <1>1, PTL DEF ReaderSpec

------------------------------------------------------------------------------
(* The dashboard. *)

Streams == [at : {"idle", "waiting", "open", "ended"}, pack : Packs \cup {0},
            line : {"none", "OK", "ERR"}, result : {"null", "OK", "ERR"}]
Servings == [who : Callers \cup {"none", "orphan"}, pack : Packs \cup {0}]
Batches == [installing : BOOLEAN, left : SUBSET Packs, whole : SUBSET Packs, claimed : BOOLEAN]

(* The device writes the stream that is open, and no result line says OK   *)
(* of a pack that did not land.                                            *)
StreamKept(u) ==
    /\ stream[u].at = "open" <=> serving.who = u
    /\ serving.who = u => serving.pack = stream[u].pack
    /\ stream[u].line = "OK" => stream[u].pack \in landed[u]
    /\ stream[u].result = "OK" => stream[u].line = "OK"

(* What the batch has left behind landed; a page that loads reads nothing. *)
BatchKept ==
    /\ page = "loading" => \A u \in Callers : stream[u] = Idle
    /\ ~ batch.installing => stream["batch"].at = "idle"
    /\ batch.installing => batch.whole \ batch.left \subseteq landed["batch"]
    /\ batch.claimed => batch.whole \subseteq landed["batch"]

DashboardInv ==
    /\ serving \in Servings
    /\ chosen \subseteq Packs
    /\ batch \in Batches
    /\ stream \in [Callers -> Streams]
    /\ landed \in [Callers -> SUBSET Nat]
    /\ \A u \in Callers : StreamKept(u)
    /\ BatchKept

LEMMA NothingStreams ==
    /\ Idle \in Streams /\ Nobody \in Servings /\ NoBatch \in Batches
    /\ Idle.at = "idle" /\ Idle.line = "none" /\ Idle.result = "null" /\ Nobody.who = "none"
    /\ "batch" \in Callers /\ "form" \in Callers
BY DEF Idle, Streams, Nobody, Servings, NoBatch, Batches, Callers

LEMMA StreamMoves ==
    ASSUME DashboardInv, NEW u \in Callers, NEW s \in Streams, stream' = [stream EXCEPT ![u] = s],
           serving' \in Servings, landed' \in [Callers -> SUBSET Nat],
           \A w \in Callers \ {u} : landed'[w] = landed[w],
           \A w \in Callers \ {u} : serving'.who = w <=> serving.who = w,
           \A w \in Callers \ {u} : serving'.who = w => serving'.pack = serving.pack,
           s.at = "open" <=> serving'.who = u,
           serving'.who = u => serving'.pack = s.pack,
           s.line = "OK" => s.pack \in landed'[u],
           s.result = "OK" => s.line = "OK"
    PROVE  /\ stream' \in [Callers -> Streams] /\ stream'[u] = s
           /\ \A w \in Callers \ {u} : stream'[w] = stream[w]
           /\ \A w \in Callers : StreamKept(w)'
<1>1. stream \in [Callers -> Streams] /\ \A w \in Callers : StreamKept(w)
    BY DEF DashboardInv
<1>2. stream' \in [Callers -> Streams] /\ stream'[u] = s /\ \A w \in Callers \ {u} : stream'[w] = stream[w]
    BY <1>1
<1>3. ASSUME NEW w \in Callers PROVE StreamKept(w)'
    <2>1. CASE w = u
        BY <1>2, <2>1 DEF StreamKept
    <2>2. CASE w # u
        BY <1>1, <1>2, <2>2 DEF StreamKept
    <2> QED BY <2>1, <2>2
<1> QED BY <1>2, <1>3

(* The page asks the device for a pack. *)
LEMMA PageAsks ==
    ASSUME DashboardInv, NEW u \in Callers, NEW p \in Packs, stream' = Asks(u, p), stream[u].at # "open",
           serving' = serving, landed' \in [Callers -> SUBSET Nat],
           \A w \in Callers \ {u} : landed'[w] = landed[w]
    PROVE  /\ stream' \in [Callers -> Streams] /\ stream'[u].at = "waiting"
           /\ \A w \in Callers \ {u} : stream'[w] = stream[w]
           /\ \A w \in Callers : StreamKept(w)'
<1> DEFINE s == [Idle EXCEPT !.at = "waiting", !.pack = p]
<1>1. s \in Streams /\ s.at = "waiting" /\ s.line = "none" /\ s.result = "null"
    BY DEF Idle, Streams
<1>2. stream' = [stream EXCEPT ![u] = s]
    BY DEF Asks
<1>3. serving \in Servings /\ serving.who # u
    BY DEF DashboardInv, StreamKept
<1> HIDE DEF s
<1> QED BY <1>1, <1>2, <1>3, StreamMoves

LEMMA DeviceKept ==
    ASSUME DashboardInv, NEW u \in Callers,
           \/ DeviceTakes(u) \/ Declined(u) \/ DeviceInstalls(u)
           \/ LineArrives(u) \/ StreamEnds(u) \/ StreamBreaks(u)
    PROVE  DashboardInv'
<1> DEFINE o == stream[u]
<1>1. /\ serving \in Servings /\ chosen \subseteq Packs /\ batch \in Batches
      /\ stream \in [Callers -> Streams] /\ landed \in [Callers -> SUBSET Nat]
      /\ \A w \in Callers : StreamKept(w)
      /\ BatchKept /\ o \in Streams /\ o.at # "idle"
    BY DEF DashboardInv, DeviceTakes, Declined, DeviceInstalls, LineArrives, StreamEnds, StreamBreaks, StreamKept
<1>2. chosen' = chosen /\ batch' = batch /\ page' = page
    BY DEF DeviceTakes, Declined, DeviceInstalls, LineArrives, StreamEnds, StreamBreaks, view, shelf
<1>3. page # "loading" /\ (u = "batch" => batch.installing)
    BY <1>1, NothingStreams DEF BatchKept
<1>4. ASSUME NEW s \in Streams, stream' = [stream EXCEPT ![u] = s],
           serving' \in Servings, landed' \in [Callers -> SUBSET Nat],
           \A w \in Callers : landed[w] \subseteq landed'[w],
           \A w \in Callers \ {u} : landed'[w] = landed[w],
           \A w \in Callers \ {u} : serving'.who = w <=> serving.who = w,
           \A w \in Callers \ {u} : serving'.who = w => serving'.pack = serving.pack,
           s.at = "open" <=> serving'.who = u,
           serving'.who = u => serving'.pack = s.pack,
           s.line = "OK" => s.pack \in landed'[u],
           s.result = "OK" => s.line = "OK"
      PROVE  DashboardInv'
    <2>1. /\ stream' \in [Callers -> Streams] /\ \A w \in Callers \ {u} : stream'[w] = stream[w]
          /\ \A w \in Callers : StreamKept(w)'
        BY <1>4, StreamMoves
    <2>2. ~ batch.installing => stream'["batch"].at = "idle"
        BY <1>1, <1>3, <2>1, NothingStreams DEF BatchKept
    <2>3. BatchKept'
        BY <1>1, <1>2, <1>3, <1>4, <2>2, NothingStreams DEF BatchKept
    <2> QED BY <1>1, <1>2, <1>4, <2>1, <2>3 DEF DashboardInv
<1>5. CASE DeviceTakes(u)
    <2> DEFINE s == [o EXCEPT !.at = "open"]
    <2>1. s \in Streams /\ s.at = "open" /\ s.pack = o.pack /\ s.line = o.line /\ s.result = o.result
        BY <1>1 DEF Streams
    <2>2. /\ stream' = [stream EXCEPT ![u] = s] /\ landed' = landed
          /\ serving' = [who |-> u, pack |-> o.pack] /\ serving.who = "none"
        BY <1>1, <1>5 DEF DeviceTakes, Nobody
    <2>3. serving' \in Servings /\ serving'.who = u /\ serving'.pack = s.pack
        BY <1>1, <2>1, <2>2 DEF Servings, Streams
    <2>4. \A w \in Callers : w # "none"
        BY DEF Callers
    <2> HIDE DEF s
    <2> QED BY <1>1, <1>4, <2>1, <2>2, <2>3, <2>4 DEF StreamKept
<1>6. CASE Declined(u)
    <2> DEFINE s == [o EXCEPT !.at = "ended"]
    <2>1. s \in Streams /\ s.at = "ended" /\ s.pack = o.pack /\ s.line = o.line /\ s.result = o.result
        BY <1>1 DEF Streams
    <2>2. stream' = [stream EXCEPT ![u] = s] /\ landed' = landed /\ serving' = serving /\ o.at = "waiting"
        BY <1>1, <1>6 DEF Declined, shelf
    <2> HIDE DEF s
    <2> QED BY <1>1, <1>4, <2>1, <2>2 DEF StreamKept
<1>7. CASE DeviceInstalls(u)
    <2>1. serving.who = u /\ o.line = "none" /\ serving' = serving /\ serving.pack = o.pack /\ o.at = "open"
        BY <1>1, <1>7 DEF DeviceInstalls, StreamKept
    <2>2. o.result # "OK"
        BY <1>1, <2>1 DEF StreamKept
    <2>3. CASE /\ landed' = [landed EXCEPT ![u] = @ \cup {serving.pack}]
               /\ stream' = [stream EXCEPT ![u].line = "OK"]
        <3> DEFINE s == [o EXCEPT !.line = "OK"]
        <3>1. s \in Streams /\ s.at = "open" /\ s.pack = o.pack /\ s.line = "OK" /\ s.result # "OK"
            BY <1>1, <2>1, <2>2 DEF Streams
        <3>2. stream' = [stream EXCEPT ![u] = s] /\ serving.pack \in Nat
            BY <1>1, <2>3, DashboardAssumption DEF Servings
        <3>3. landed' \in [Callers -> SUBSET Nat] /\ landed'[u] = landed[u] \cup {serving.pack}
              /\ \A w \in Callers \ {u} : landed'[w] = landed[w]
            BY <1>1, <2>3, <3>2
        <3>4. \A w \in Callers : landed[w] \subseteq landed'[w]
            BY <3>3
        <3> HIDE DEF s
        <3> QED BY <1>1, <1>4, <2>1, <3>1, <3>2, <3>3, <3>4
    <2>4. CASE landed' = landed /\ stream' = [stream EXCEPT ![u].line = "ERR"]
        <3> DEFINE s == [o EXCEPT !.line = "ERR"]
        <3>1. s \in Streams /\ s.at = "open" /\ s.pack = o.pack /\ s.line = "ERR" /\ s.result # "OK"
            BY <1>1, <2>1, <2>2 DEF Streams
        <3>2. stream' = [stream EXCEPT ![u] = s]
            BY <1>1, <2>4
        <3> HIDE DEF s
        <3> QED BY <1>1, <1>4, <2>1, <2>4, <3>1, <3>2
    <2> QED BY <1>7, <2>3, <2>4 DEF DeviceInstalls
<1>8. CASE LineArrives(u)
    <2> DEFINE s == [o EXCEPT !.result = o.line]
    <2>1. /\ stream' = [stream EXCEPT ![u] = s] /\ landed' = landed /\ serving' = serving
          /\ o.at = "open" /\ o.line # "none"
        BY <1>1, <1>8 DEF LineArrives, shelf
    <2>2. s \in Streams /\ s.at = o.at /\ s.pack = o.pack /\ s.line = o.line /\ s.result = o.line
        BY <1>1, <2>1 DEF Streams
    <2> HIDE DEF s
    <2> QED BY <1>1, <1>4, <2>1, <2>2 DEF StreamKept
<1>9. CASE StreamEnds(u)
    <2> DEFINE s == [o EXCEPT !.at = "ended", !.result = o.line]
    <2>1. /\ stream' = [stream EXCEPT ![u] = s] /\ landed' = landed /\ serving' = Nobody
          /\ o.at = "open" /\ o.line # "none"
        BY <1>1, <1>9 DEF StreamEnds
    <2>2. s \in Streams /\ s.at = "ended" /\ s.pack = o.pack /\ s.line = o.line /\ s.result = o.line
        BY <1>1, <2>1 DEF Streams
    <2>3. serving.who = u /\ \A w \in Callers : w # "none"
        BY <1>1, <2>1 DEF StreamKept, Callers
    <2> HIDE DEF s
    <2> QED BY <1>1, <1>4, <2>1, <2>2, <2>3, NothingStreams DEF StreamKept
<1>10. CASE StreamBreaks(u)
    <2> DEFINE s == [o EXCEPT !.at = "ended"]
    <2>1. /\ stream' = [stream EXCEPT ![u] = s] /\ landed' = landed /\ o.at = "open"
          /\ serving' = IF o.line = "none" THEN [serving EXCEPT !.who = "orphan"] ELSE Nobody
        BY <1>1, <1>10 DEF StreamBreaks
    <2>2. s \in Streams /\ s.at = "ended" /\ s.pack = o.pack /\ s.line = o.line /\ s.result = o.result
        BY <1>1 DEF Streams
    <2>3. serving.who = u /\ \A w \in Callers : w # "none" /\ w # "orphan"
        BY <1>1, <2>1 DEF StreamKept, Callers
    <2>4. serving' \in Servings /\ serving'.who \in {"none", "orphan"}
        BY <1>1, <2>1, NothingStreams DEF Servings
    <2> HIDE DEF s
    <2> QED BY <1>1, <1>4, <2>1, <2>2, <2>3, <2>4 DEF StreamKept
<1> QED BY <1>5, <1>6, <1>7, <1>8, <1>9, <1>10

LEMMA BatchActionsKept ==
    ASSUME DashboardInv, ClickInstall \/ BatchContinues \/ BatchSucceeds \/ BatchStops
    PROVE  DashboardInv'
<1> DEFINE o == stream["batch"]
<1>1. /\ serving \in Servings /\ chosen \subseteq Packs /\ batch \in Batches
      /\ stream \in [Callers -> Streams] /\ landed \in [Callers -> SUBSET Nat]
      /\ \A w \in Callers : StreamKept(w)
      /\ BatchKept /\ o \in Streams /\ Packs \subseteq Nat
    BY NothingStreams, DashboardAssumption DEF DashboardInv
<1>2. CASE ClickInstall
    <2>1. /\ ~ batch.installing /\ chosen # {} /\ page # "loading" /\ page' = page
          /\ batch' = [installing |-> TRUE, left |-> chosen, whole |-> chosen, claimed |-> FALSE]
          /\ stream' = Asks("batch", First(chosen))
          /\ landed' = [landed EXCEPT !.batch = {}]
          /\ serving' = serving /\ chosen' = chosen
        BY <1>2 DEF ClickInstall, Use
    <2>2. o.at # "open" /\ First(chosen) \in Packs
        BY <1>1, <2>1, LeastIsMin DEF BatchKept, First
    <2>3. landed' \in [Callers -> SUBSET Nat] /\ \A w \in Callers \ {"batch"} : landed'[w] = landed[w]
        BY <1>1, <2>1
    <2>4. stream' \in [Callers -> Streams] /\ \A w \in Callers : StreamKept(w)'
        BY <2>1, <2>2, <2>3, PageAsks, NothingStreams
    <2>5. batch' \in Batches /\ batch'.installing = TRUE /\ batch'.claimed = FALSE
          /\ batch'.whole \ batch'.left = {}
        BY <1>1, <2>1 DEF Batches
    <2>6. BatchKept'
        BY <2>1, <2>5 DEF BatchKept
    <2> QED BY <1>1, <2>1, <2>3, <2>4, <2>5, <2>6 DEF DashboardInv
<1>3. CASE BatchContinues
    <2> DEFINE left == batch.left \ {o.pack}
    <2>1. /\ batch.installing /\ o.at = "ended" /\ Confirmed(o) /\ left # {}
          /\ batch' = [batch EXCEPT !.left = left] /\ stream' = Asks("batch", First(left))
          /\ serving' = serving /\ landed' = landed /\ chosen' = chosen /\ page' = page
        BY <1>3 DEF BatchContinues, shelf, view
    <2>2. left \subseteq Packs /\ o.pack \in landed["batch"] /\ page # "loading"
        BY <1>1, <2>1, NothingStreams DEF Batches, Confirmed, StreamKept, BatchKept
    <2>3. First(left) \in Packs
        BY <1>1, <2>1, <2>2, LeastIsMin DEF First
    <2>4. batch' \in Batches /\ batch'.installing = TRUE /\ batch'.left = left
          /\ batch'.whole = batch.whole /\ batch'.claimed = batch.claimed
        BY <1>1, <2>1, <2>2 DEF Batches
    <2>5. stream' \in [Callers -> Streams] /\ \A w \in Callers : StreamKept(w)'
        BY <1>1, <2>1, <2>3, PageAsks, NothingStreams
    <2>6. BatchKept'
        BY <1>1, <2>1, <2>2, <2>4 DEF BatchKept
    <2> QED BY <1>1, <2>1, <2>4, <2>5, <2>6 DEF DashboardInv
<1>4. CASE BatchSucceeds \/ BatchStops
    <2>1. /\ stream' = [stream EXCEPT !["batch"] = Idle] /\ o.at = "ended" /\ batch.installing
          /\ serving' = serving /\ landed' = landed
        BY <1>4 DEF BatchSucceeds, BatchStops, shelf
    <2>2. /\ stream' \in [Callers -> Streams] /\ stream'["batch"] = Idle
          /\ \A w \in Callers : StreamKept(w)'
        <3>1. serving.who # "batch"
            BY <1>1, <2>1, NothingStreams DEF StreamKept
        <3> QED BY <1>1, <2>1, <3>1, StreamMoves, NothingStreams
    <2>3. chosen' \subseteq Packs /\ page # "loading"
        BY <1>1, <1>4, <2>1, NothingStreams DEF BatchSucceeds, BatchStops, BatchKept
    <2>4. CASE BatchSucceeds
        <3>1. /\ batch' = [batch EXCEPT !.installing = FALSE, !.left = {}, !.claimed = TRUE]
              /\ page' = "leaving" /\ Confirmed(o) /\ batch.left = {o.pack}
            BY <2>4 DEF BatchSucceeds
        <3>2. batch' \in Batches /\ batch'.installing = FALSE /\ batch'.whole = batch.whole
            BY <1>1, <3>1 DEF Batches
        <3>3. o.pack \in landed["batch"]
            BY <1>1, <3>1, NothingStreams DEF Confirmed, StreamKept
        <3>4. batch.whole \subseteq landed["batch"]
            BY <1>1, <2>1, <3>1, <3>3 DEF BatchKept
        <3>5. BatchKept'
            BY <2>1, <2>2, <3>1, <3>2, <3>4, NothingStreams DEF BatchKept
        <3> QED BY <1>1, <2>1, <2>2, <2>3, <3>2, <3>5 DEF DashboardInv
    <2>5. CASE BatchStops
        <3>1. batch' = [batch EXCEPT !.installing = FALSE, !.left = {}] /\ page' = page
            BY <2>5 DEF BatchStops
        <3>2. batch' \in Batches /\ batch'.installing = FALSE /\ batch'.whole = batch.whole
              /\ batch'.claimed = batch.claimed
            BY <1>1, <3>1 DEF Batches
        <3>3. BatchKept'
            BY <1>1, <2>1, <2>2, <2>3, <3>1, <3>2, NothingStreams DEF BatchKept
        <3> QED BY <1>1, <2>1, <2>2, <2>3, <3>2, <3>3 DEF DashboardInv
    <2> QED BY <1>4, <2>4, <2>5
<1> QED BY <1>2, <1>3, <1>4

LEMMA FormKept ==
    ASSUME DashboardInv, (\E p \in Packs : SubmitUrl(p)) \/ FormReturns
    PROVE  DashboardInv'
<1>1. /\ serving \in Servings /\ chosen \subseteq Packs /\ batch \in Batches
      /\ stream \in [Callers -> Streams] /\ landed \in [Callers -> SUBSET Nat]
      /\ \A w \in Callers : StreamKept(w)
      /\ BatchKept /\ "batch" # "form"
    BY DEF DashboardInv
<1>2. chosen' = chosen /\ batch' = batch /\ page' = page /\ serving' = serving
      /\ page # "loading" /\ stream["form"].at # "open"
    BY <1>1, NothingStreams DEF SubmitUrl, FormReturns, Use, view, shelf, BatchKept
<1> DEFINE Kept == /\ stream' \in [Callers -> Streams] /\ stream'["batch"] = stream["batch"]
                   /\ \A w \in Callers : StreamKept(w)'
                   /\ landed' \in [Callers -> SUBSET Nat] /\ landed'["batch"] = landed["batch"]
<1>3. Kept
    <2>1. CASE FormReturns
        <3>1. stream' = [stream EXCEPT !["form"] = Idle] /\ landed' = landed
            BY <2>1 DEF FormReturns, shelf
        <3>2. serving.who # "form"
            BY <1>1, <1>2, NothingStreams DEF StreamKept
        <3> QED BY <1>1, <1>2, <3>1, <3>2, StreamMoves, NothingStreams
    <2>2. ASSUME NEW p \in Packs, SubmitUrl(p)
          PROVE  Kept
        <3>1. stream' = Asks("form", p) /\ landed' = [landed EXCEPT !.form = {}]
            BY <2>2 DEF SubmitUrl
        <3>2. landed' \in [Callers -> SUBSET Nat] /\ \A w \in Callers \ {"form"} : landed'[w] = landed[w]
            BY <1>1, <3>1
        <3> QED BY <1>1, <1>2, <3>1, <3>2, PageAsks, NothingStreams
    <2> QED BY <2>1, <2>2
<1>4. BatchKept'
    BY <1>1, <1>2, <1>3 DEF BatchKept
<1> QED BY <1>1, <1>2, <1>3, <1>4 DEF DashboardInv

(* A reload ends every stream. *)
LEMMA LeavesKept ==
    ASSUME DashboardInv, Leave, batch' = batch, chosen' = chosen, landed' = landed,
           serving' \in Servings, serving'.who \notin Callers
    PROVE  DashboardInv'
<1>1. stream' \in [Callers -> Streams] /\ \A u \in Callers : stream'[u] = Idle
    BY NothingStreams DEF Leave
<1>2. \A u \in Callers : StreamKept(u)'
    BY <1>1, NothingStreams DEF StreamKept
<1>3. BatchKept'
    BY <1>1, NothingStreams DEF BatchKept, DashboardInv
<1> QED BY <1>1, <1>2, <1>3 DEF DashboardInv

LEMMA DashboardInitial == DashboardInit => DashboardInv
<1> SUFFICES ASSUME DashboardInit PROVE DashboardInv
    OBVIOUS
<1>1. stream \in [Callers -> Streams] /\ \A u \in Callers : stream[u] = Idle
    BY NothingStreams DEF DashboardInit
<1>2. serving = Nobody /\ batch = NoBatch /\ chosen = {} /\ landed \in [Callers -> SUBSET Nat]
      /\ \A w \in Callers : w # "none"
    BY DEF DashboardInit, Callers
<1>3. \A u \in Callers : StreamKept(u)
    BY <1>1, <1>2, NothingStreams DEF StreamKept
<1>4. batch.installing = FALSE /\ batch.whole = {}
    BY <1>2 DEF NoBatch
<1>5. BatchKept
    BY <1>1, <1>4, NothingStreams DEF BatchKept
<1> QED BY <1>1, <1>2, <1>3, <1>5, NothingStreams DEF DashboardInv

LEMMA DashboardKept == DashboardInv /\ [DashboardNext]_dashboardVars => DashboardInv'
<1> SUFFICES ASSUME DashboardInv, [DashboardNext]_dashboardVars PROVE DashboardInv'
    OBVIOUS
<1>1. /\ serving \in Servings /\ chosen \subseteq Packs /\ batch \in Batches
      /\ stream \in [Callers -> Streams] /\ landed \in [Callers -> SUBSET Nat]
      /\ \A w \in Callers : StreamKept(w)
      /\ BatchKept /\ \A w \in Callers : w # "none" /\ w # "orphan"
    BY DEF DashboardInv, Callers
<1>2. CASE /\ UNCHANGED <<batch, stream, landed>>
           /\ serving' = serving \/ (serving.who \notin Callers /\ serving' = Nobody)
           /\ chosen' \subseteq Packs
           /\ page' = "loading" => page = "loading"
    <2>1. serving' \in Servings /\ \A u \in Callers : StreamKept(u)'
        BY <1>1, <1>2, NothingStreams DEF StreamKept
    <2>2. BatchKept'
        BY <1>1, <1>2 DEF BatchKept
    <2> QED BY <1>1, <1>2, <2>1, <2>2 DEF DashboardInv
<1>3. CASE UNCHANGED dashboardVars
    BY <1>1, <1>2, <1>3 DEF dashboardVars, view, shelf
<1>4. ASSUME NEW p \in Packs, Tick(p) PROVE DashboardInv'
    BY <1>1, <1>2, <1>4 DEF Tick, shelf
<1>5. CASE Clear \/ SubmitFile \/ Refresh \/ WifiSaved \/ ClickRemove \/ StatusArrives
    BY <1>1, <1>2, <1>5 DEF Clear, SubmitFile, Refresh, WifiSaved, ClickRemove, StatusArrives, shelf, view
<1>6. ASSUME NEW call, CatalogArrives(call) PROVE DashboardInv'
    BY <1>1, <1>2, <1>6 DEF CatalogArrives, Render, shelf
<1>7. CASE UploadAnswered
    BY <1>1, <1>2, <1>7 DEF UploadAnswered, view
<1>8. CASE OrphanEnds
    BY <1>1, <1>2, <1>8 DEF OrphanEnds, view
<1>9. CASE RemoveAnswered
    <2>1. serving' = serving /\ serving = Nobody /\ landed' = landed /\ batch' = batch /\ chosen' = chosen
        BY <1>9 DEF RemoveAnswered, view
    <2>2. CASE Leave
        BY <1>1, <2>1, <2>2, LeavesKept, NothingStreams
    <2>3. CASE UNCHANGED <<has, changed, page, stream>>
        BY <1>1, <1>2, <2>1, <2>3
    <2> QED BY <1>9, <2>2, <2>3 DEF RemoveAnswered
<1>10. CASE ReloadTimer
    <2>1. Leave /\ landed' = landed /\ batch' = batch /\ chosen' = chosen
          /\ serving' = IF serving = Nobody THEN Nobody ELSE [serving EXCEPT !.who = "orphan"]
        BY <1>10 DEF ReloadTimer, view
    <2>2. serving' \in Servings /\ serving'.who \in {"none", "orphan"}
        BY <1>1, <2>1, NothingStreams DEF Servings
    <2> QED BY <1>1, <2>1, <2>2, LeavesKept
<1>11. CASE PageLoads
    <2>1. /\ page = "loading" /\ page' = "shown" /\ serving' = serving /\ serving = Nobody
          /\ stream' = stream /\ batch' = NoBatch /\ landed' = [u \in Callers |-> {}] /\ chosen' = {}
        BY <1>11 DEF PageLoads
    <2>2. \A u \in Callers : stream'[u] = Idle
        BY <1>1, <2>1 DEF BatchKept
    <2>3. \A u \in Callers : StreamKept(u)'
        BY <1>1, <2>1, <2>2, NothingStreams DEF StreamKept
    <2>4. batch'.installing = FALSE /\ batch'.whole = {} /\ landed' \in [Callers -> SUBSET Nat]
        BY <2>1 DEF NoBatch
    <2>5. BatchKept'
        BY <2>1, <2>2, <2>4, NothingStreams DEF BatchKept
    <2> QED BY <1>1, <2>1, <2>3, <2>4, <2>5, NothingStreams DEF DashboardInv
<1> QED BY <1>3, <1>4, <1>5, <1>6, <1>7, <1>8, <1>9, <1>10, <1>11, DeviceKept, BatchActionsKept, FormKept
        DEF DashboardNext

(* The page reports what the device did: a pack said to be installed was,  *)
(* and so was each pack of a batch said to be complete, for every          *)
(* catalogue, every capacity and however a stream was cut                  *)
(* (manager.js:126-166, 265-288).                                          *)
THEOREM ReportsAreTrue == DashboardSpec => []ClaimedIsInstalled
<1>1. DashboardInv => ClaimedIsInstalled
    BY DEF DashboardInv, StreamKept, BatchKept, ClaimedIsInstalled
<1> QED BY DashboardInitial, DashboardKept, <1>1, PTL DEF DashboardSpec

------------------------------------------------------------------------------
(* Sums over sets of packs.  What a fold computes is a function found by   *)
(* its recursion; that there is one, and only one, is shown by the         *)
(* smallest set without.                                                   *)
FirstOf(s) == CHOOSE x \in s : TRUE
SumsUp(S, g) ==
    g = [s \in SUBSET S |-> IF s = {} THEN 0 ELSE PackSize[FirstOf(s)] + g[s \ {FirstOf(s)}]]
SumOf(S) == (CHOOSE g : SumsUp(S, g))[S]

LEMMA WeightIsSum == ASSUME NEW S PROVE Weight(S) = SumOf(S)
BY DEF Weight, MapThenSumSet, MapThenFoldSet, SumOf, SumsUp, FirstOf

(* A finite set that is like this, if there is one, has a smallest like it.*)
LEMMA SmallestSet ==
    ASSUME NEW S, IsFiniteSet(S), NEW Like, Like \subseteq SUBSET S, Like # {}
    PROVE  \E T \in Like : \A R \in Like : ~ (R \subseteq T /\ R # T)
<1> DEFINE sizes == {Cardinality(T) : T \in Like}
<1>1. \A T \in SUBSET S : IsFiniteSet(T) /\ Cardinality(T) \in Nat
    BY FS_Subset, FS_CardinalityType
<1>2. sizes \subseteq Nat /\ sizes # {}
    BY <1>1
<1>3. PICK m \in sizes : \A n \in sizes : m <= n
    BY <1>2, LeastNatural
<1>4. PICK T \in Like : Cardinality(T) = m
    OBVIOUS
<1>5. ASSUME NEW R \in Like, R \subseteq T, R # T PROVE FALSE
    <2>1. IsFiniteSet(T) /\ R \in SUBSET T
        BY <1>1, <1>5
    <2>2. Cardinality(R) <= Cardinality(T) /\ Cardinality(R) # Cardinality(T)
        BY <1>5, <2>1, FS_Subset
    <2>3. Cardinality(T) <= Cardinality(R)
        BY <1>3, <1>4
    <2> QED BY <1>1, <2>2, <2>3
<1> QED BY <1>5

LEMMA FirstIsIn == ASSUME NEW s, s # {} PROVE FirstOf(s) \in s
BY DEF FirstOf

LEMMA SumsAgree ==
    ASSUME NEW A, NEW B, NEW g, NEW h, SumsUp(A, g), SumsUp(B, h), NEW S, IsFiniteSet(S), S \subseteq A, S \subseteq B
    PROVE  g[S] = h[S]
<1> DEFINE Like == {s \in SUBSET S : g[s] # h[s]}
<1> SUFFICES ASSUME Like # {} PROVE FALSE
    OBVIOUS
<1>0. Like \subseteq SUBSET S /\ Like # {}
    OBVIOUS
<1>a. \E T \in Like : \A R \in Like : ~ (R \subseteq T /\ R # T)
    <2> HIDE DEF Like
    <2> QED BY <1>0, SmallestSet
<1>1. PICK T \in Like : \A R \in Like : ~ (R \subseteq T /\ R # T)
    BY <1>a
<1>2. T \in SUBSET A /\ T \in SUBSET B /\ T \in SUBSET S /\ g[T] # h[T]
    OBVIOUS
<1> DEFINE rest == T \ {FirstOf(T)}
<1>3. g[T] = IF T = {} THEN 0 ELSE PackSize[FirstOf(T)] + g[rest]
    BY <1>2 DEF SumsUp
<1>4. h[T] = IF T = {} THEN 0 ELSE PackSize[FirstOf(T)] + h[rest]
    BY <1>2 DEF SumsUp
<1>5. T # {} 
    BY <1>2, <1>3, <1>4
<1>6. rest \subseteq T /\ rest # T /\ rest \in SUBSET S
    BY <1>2, <1>5, FirstIsIn
<1>7. g[rest] = h[rest]
    BY <1>1, <1>6
<1> QED BY <1>2, <1>3, <1>4, <1>5, <1>7

LEMMA SumExists ==
    ASSUME NEW S, IsFiniteSet(S)
    PROVE  \E g : SumsUp(S, g)
<1> DEFINE Like == {s \in SUBSET S : ~ \E g : SumsUp(s, g)}
<1> SUFFICES ASSUME Like # {} PROVE FALSE
    OBVIOUS
<1>0. Like \subseteq SUBSET S /\ Like # {}
    OBVIOUS
<1>a. \E T \in Like : \A R \in Like : ~ (R \subseteq T /\ R # T)
    <2> HIDE DEF Like
    <2> QED BY <1>0, SmallestSet
<1>1. PICK T \in Like : \A R \in Like : ~ (R \subseteq T /\ R # T)
    BY <1>a
<1>2. ASSUME NEW R, R \subseteq T, R # T PROVE SumsUp(R, CHOOSE g : SumsUp(R, g)) /\ IsFiniteSet(R)
    <2>1. R \in SUBSET S
        BY <1>2
    <2>2. \E g : SumsUp(R, g)
        BY <1>1, <1>2, <2>1
    <2> QED BY <2>1, <2>2, FS_Subset
<1> DEFINE whole == [s \in SUBSET T |-> IF s = {} THEN 0 ELSE PackSize[FirstOf(s)] + SumOf(s \ {FirstOf(s)})]
<1>3. ASSUME NEW R, R \subseteq T, R # T PROVE whole[R] = SumOf(R)
    <2> DEFINE g == CHOOSE g : SumsUp(R, g)
    <2>1. SumsUp(R, g)
        BY <1>2, <1>3
    <2> HIDE DEF g
    <2>2. SumOf(R) = g[R]
        BY DEF SumOf, g
    <2>3. g[R] = IF R = {} THEN 0 ELSE PackSize[FirstOf(R)] + g[R \ {FirstOf(R)}]
        BY <2>1 DEF SumsUp
    <2>4. whole[R] = IF R = {} THEN 0 ELSE PackSize[FirstOf(R)] + SumOf(R \ {FirstOf(R)})
        BY <1>3
    <2>5. CASE R # {}
        <3> DEFINE Q == R \ {FirstOf(R)}
                   h == CHOOSE h : SumsUp(Q, h)
        <3>1. Q \subseteq T /\ Q # T /\ Q \subseteq R
            BY <1>3
        <3>2. SumsUp(Q, h) /\ IsFiniteSet(Q)
            BY <1>2, <3>1
        <3>3. g[Q] = h[Q]
            BY <2>1, <3>1, <3>2, SumsAgree
        <3>4. SumOf(Q) = h[Q]
            BY DEF SumOf
        <3> QED BY <2>2, <2>3, <2>4, <2>5, <3>3, <3>4
    <2> QED BY <2>2, <2>3, <2>4, <2>5
<1>4. ASSUME NEW s \in SUBSET T, s # {}
      PROVE  whole[s \ {FirstOf(s)}] = SumOf(s \ {FirstOf(s)})
    <2>1. s \ {FirstOf(s)} \subseteq T /\ s \ {FirstOf(s)} # T
        BY <1>4, FirstIsIn
    <2> QED BY <1>3, <2>1
<1>5. whole = [s \in SUBSET T |-> IF s = {} THEN 0 ELSE PackSize[FirstOf(s)] + whole[s \ {FirstOf(s)}]]
    BY <1>4
<1> HIDE DEF whole
<1>6. SumsUp(T, whole)
    BY <1>5 DEF SumsUp
<1> QED BY <1>6

LEMMA WeightUnfolds ==
    ASSUME NEW S, IsFiniteSet(S)
    PROVE  Weight(S) = IF S = {} THEN 0 ELSE PackSize[FirstOf(S)] + Weight(S \ {FirstOf(S)})
<1> DEFINE g == CHOOSE g : SumsUp(S, g)
<1>1. SumsUp(S, g)
    BY SumExists
<1>2. Weight(S) = g[S]
    BY WeightIsSum DEF SumOf
<1> HIDE DEF g
<1>3. g[S] = IF S = {} THEN 0 ELSE PackSize[FirstOf(S)] + g[S \ {FirstOf(S)}]
    BY <1>1 DEF SumsUp
<1>4. CASE S # {}
    <2> DEFINE R == S \ {FirstOf(S)}
               h == CHOOSE h : SumsUp(R, h)
    <2>1. IsFiniteSet(R) /\ R \subseteq S
        BY FS_RemoveElement
    <2>2. SumsUp(R, h)
        BY <2>1, SumExists
    <2>3. Weight(R) = h[R]
        BY WeightIsSum DEF SumOf
    <2>4. g[R] = h[R]
        BY <1>1, <2>1, <2>2, SumsAgree
    <2> QED BY <1>2, <1>3, <1>4, <2>3, <2>4
<1> QED BY <1>2, <1>3, <1>4

(* What packs weigh is a number, the sum over any one of them and the rest.*)
LEMMA WeightIsNat ==
    ASSUME NEW S, S \subseteq Packs
    PROVE  Weight(S) \in Nat
<1> DEFINE Like == {s \in SUBSET S : Weight(s) \notin Nat}
<1> SUFFICES ASSUME Like # {} PROVE FALSE
    OBVIOUS
<1>0. IsFiniteSet(S) /\ Like \subseteq SUBSET S /\ Like # {}
    BY FS_Subset, DashboardAssumption
<1>1. \E T \in Like : \A R \in Like : ~ (R \subseteq T /\ R # T)
    <2> HIDE DEF Like
    <2> QED BY <1>0, SmallestSet
<1>2. PICK T \in Like : \A R \in Like : ~ (R \subseteq T /\ R # T)
    BY <1>1
<1>3. T \subseteq S /\ IsFiniteSet(T) /\ Weight(T) \notin Nat
    BY <1>0, FS_Subset
<1>4. Weight(T) = IF T = {} THEN 0 ELSE PackSize[FirstOf(T)] + Weight(T \ {FirstOf(T)})
    BY <1>3, WeightUnfolds
<1>5. T # {}
    BY <1>3, <1>4
<1> DEFINE rest == T \ {FirstOf(T)}
<1>6. FirstOf(T) \in Packs /\ rest \in SUBSET S /\ rest \subseteq T /\ rest # T
    BY <1>3, <1>5, FirstIsIn
<1>7. Weight(rest) \in Nat
    BY <1>2, <1>6
<1>8. PackSize[FirstOf(T)] \in Nat
    BY <1>6, DashboardAssumption
<1> QED BY <1>3, <1>4, <1>5, <1>7, <1>8

LEMMA WeightSplits ==
    ASSUME NEW S, S \subseteq Packs, NEW x \in S
    PROVE  Weight(S) = PackSize[x] + Weight(S \ {x})
<1> DEFINE Like == {s \in SUBSET S : \E y \in s : Weight(s) # PackSize[y] + Weight(s \ {y})}
<1> SUFFICES ASSUME Like # {} PROVE FALSE
    OBVIOUS
<1>0. IsFiniteSet(S) /\ Like \subseteq SUBSET S /\ Like # {}
    BY FS_Subset, DashboardAssumption
<1>1. \E T \in Like : \A R \in Like : ~ (R \subseteq T /\ R # T)
    <2> HIDE DEF Like
    <2> QED BY <1>0, SmallestSet
<1>2. PICK T \in Like : \A R \in Like : ~ (R \subseteq T /\ R # T)
    BY <1>1
<1>3. PICK y \in T : Weight(T) # PackSize[y] + Weight(T \ {y})
    BY <1>2
<1> DEFINE f == FirstOf(T)
           both == (T \ {y}) \ {f}
<1>4. T \subseteq S /\ IsFiniteSet(T) /\ T # {} /\ f \in T
    BY <1>0, <1>2, <1>3, FS_Subset, FirstIsIn
<1>5. Weight(T) = PackSize[f] + Weight(T \ {f})
    BY <1>4, WeightUnfolds
<1>6. y # f
    BY <1>3, <1>5
<1>7. ASSUME NEW R \in SUBSET S, R \subseteq T, R # T, NEW z \in R
      PROVE  Weight(R) = PackSize[z] + Weight(R \ {z})
    BY <1>2, <1>7
<1>8. Weight(T \ {f}) = PackSize[y] + Weight((T \ {f}) \ {y})
    BY <1>4, <1>6, <1>7
<1>9. Weight(T \ {y}) = PackSize[f] + Weight(both)
    BY <1>4, <1>6, <1>7
<1>10. (T \ {f}) \ {y} = both
    OBVIOUS
<1>11. PackSize[f] \in Nat /\ PackSize[y] \in Nat /\ Weight(both) \in Nat
    <2>1. f \in Packs /\ y \in Packs /\ both \subseteq Packs
        BY <1>4
    <2> QED BY <2>1, WeightIsNat, DashboardAssumption
<1> HIDE DEF both, f
<1> QED BY <1>3, <1>5, <1>8, <1>9, <1>10, <1>11

LEMMA WeightGrows ==
    ASSUME NEW S, S \subseteq Packs, NEW T, T \subseteq S
    PROVE  Weight(T) <= Weight(S)
<1> DEFINE Like == {s \in SUBSET S : T \subseteq s /\ ~ Weight(T) <= Weight(s)}
<1> SUFFICES ASSUME Like # {} PROVE FALSE
    OBVIOUS
<1>0. IsFiniteSet(S) /\ Like \subseteq SUBSET S /\ Like # {}
    BY FS_Subset, DashboardAssumption
<1>1. \E U \in Like : \A R \in Like : ~ (R \subseteq U /\ R # U)
    <2> HIDE DEF Like
    <2> QED BY <1>0, SmallestSet
<1>2. PICK U \in Like : \A R \in Like : ~ (R \subseteq U /\ R # U)
    BY <1>1
<1>3. U \subseteq S /\ T \subseteq U /\ ~ Weight(T) <= Weight(U)
    OBVIOUS
<1>4. Weight(T) \in Nat /\ Weight(U) \in Nat
    BY <1>3, WeightIsNat
<1>5. T # U
    BY <1>3, <1>4
<1>6. PICK x \in U : x \notin T
    BY <1>3, <1>5
<1> DEFINE rest == U \ {x}
<1>7. T \subseteq rest /\ rest \in SUBSET S /\ rest \subseteq U /\ rest # U
    BY <1>3, <1>6
<1>8. Weight(T) <= Weight(rest)
    BY <1>2, <1>7
<1>9. Weight(U) = PackSize[x] + Weight(rest)
    BY <1>3, WeightSplits
<1>10. PackSize[x] \in Nat /\ Weight(rest) \in Nat
    BY <1>3, <1>7, WeightIsNat, DashboardAssumption
<1> QED BY <1>3, <1>4, <1>8, <1>9, <1>10

(* One pack more weighs at most that much more. *)
LEMMA WeightAdds ==
    ASSUME NEW S, S \subseteq Packs, NEW x \in Packs
    PROVE  /\ Weight(S \cup {x}) <= Weight(S) + PackSize[x]
           /\ Weight(S) \in Nat /\ Weight(S \cup {x}) \in Nat /\ PackSize[x] \in Nat
<1>1. Weight(S) \in Nat /\ Weight(S \cup {x}) \in Nat /\ PackSize[x] \in Nat
    BY WeightIsNat, DashboardAssumption
<1>2. CASE x \in S
    <2>1. S \cup {x} = S
        BY <1>2
    <2>2. Weight(S \cup {x}) = Weight(S)
        BY <2>1
    <2> QED BY <1>1, <2>2
<1>3. CASE x \notin S
    <2>1. (S \cup {x}) \ {x} = S /\ S \cup {x} \subseteq Packs /\ x \in S \cup {x}
        BY <1>3
    <2>2. Weight(S \cup {x}) = PackSize[x] + Weight((S \cup {x}) \ {x})
        BY <2>1, WeightSplits
    <2>3. Weight((S \cup {x}) \ {x}) = Weight(S)
        BY <2>1
    <2> QED BY <1>1, <2>2, <2>3
<1> QED BY <1>2, <1>3

------------------------------------------------------------------------------
(* Room for a batch. *)

(* The device only ever writes, and the page only ever asks for, a pack    *)
(* there is.                                                               *)
PacksKept ==
    /\ serving = Nobody \/ (serving.who # "none" /\ serving.pack \in Packs)
    /\ \A u \in Callers : stream[u].at # "idle" => stream[u].pack \in Packs

(* While the batch runs the bar is away, and where its button can be       *)
(* pressed the selection fits what the page says is free.                  *)
BarKept ==
    /\ batch.installing => bar.hidden
    /\ bar.hidden \/ bar.disabled \/ Weight(chosen) <= installable

(* What the page says is free is free, until something else than its own   *)
(* batch changes the library.                                              *)
RoomKept ==
    /\ has \subseteq Packs /\ Weight(has) <= Capacity
    /\ installable \in 0 .. Capacity
    /\ stream["batch"].at # "idle" => stream["batch"].pack \in batch.left
    /\ batch.left \subseteq batch.whole
    /\ ~ changed => landed["batch"] \subseteq has
    /\ ~ changed /\ batch.whole = {} => installable <= Free
    /\ BatchStillFits

LEMMA PacksStay ==
    ASSUME DashboardInv, PacksKept, [DashboardNext]_dashboardVars
    PROVE  PacksKept'
<1>1. /\ stream \in [Callers -> Streams] /\ serving \in Servings /\ batch \in Batches /\ chosen \subseteq Packs
      /\ "batch" \in Callers /\ "form" \in Callers /\ Idle.at = "idle" /\ Nobody.who = "none" /\ Packs \subseteq Nat
    BY NothingStreams, DashboardAssumption DEF DashboardInv
<1>2. CASE stream' = stream /\ (serving' = serving \/ serving' = Nobody)
    BY <1>1, <1>2 DEF PacksKept
<1>3. ASSUME NEW u \in Callers, NEW p \in Packs, stream' = Asks(u, p), serving' = serving
      PROVE  PacksKept'
    <2> DEFINE s == [Idle EXCEPT !.at = "waiting", !.pack = p]
    <2>1. s.pack = p
        BY DEF Idle
    <2>2. stream' = [stream EXCEPT ![u] = s]
        BY <1>3 DEF Asks
    <2> HIDE DEF s
    <2> QED BY <1>1, <1>3, <2>1, <2>2 DEF PacksKept
<1>4. ASSUME NEW u \in Callers, stream' = [stream EXCEPT ![u] = Idle], serving' = serving
      PROVE  PacksKept'
    BY <1>1, <1>4 DEF PacksKept
<1>5. ASSUME NEW u \in Callers,
           \/ DeviceTakes(u) \/ Declined(u) \/ DeviceInstalls(u)
           \/ LineArrives(u) \/ StreamEnds(u) \/ StreamBreaks(u)
      PROVE  PacksKept'
    <2> DEFINE o == stream[u]
    <2>1. o \in Streams /\ o.at # "idle" /\ u # "none" /\ (o.at = "open" <=> serving.who = u) /\ o.pack \in Packs
        BY <1>1, <1>5 DEF DashboardInv, StreamKept, DeviceTakes, Declined, DeviceInstalls, LineArrives, StreamEnds,
            StreamBreaks, Callers, PacksKept
    <2>2. PICK s : s.pack = o.pack /\ stream' = [stream EXCEPT ![u] = s]
        <3> DEFINE begun == [o EXCEPT !.at = "open"]
                   over == [o EXCEPT !.at = "ended"]
                   lined(l) == [o EXCEPT !.line = l]
                   read == [o EXCEPT !.result = o.line]
                   both == [o EXCEPT !.at = "ended", !.result = o.line]
        <3>1. begun.pack = o.pack /\ over.pack = o.pack /\ read.pack = o.pack /\ both.pack = o.pack
              /\ \A l : lined(l).pack = o.pack
            BY <2>1 DEF Streams
        <3>2. \/ stream' = [stream EXCEPT ![u] = begun] \/ stream' = [stream EXCEPT ![u] = over]
              \/ stream' = [stream EXCEPT ![u] = read] \/ stream' = [stream EXCEPT ![u] = both]
              \/ \E l : stream' = [stream EXCEPT ![u] = lined(l)]
            BY <1>1, <1>5 DEF DeviceTakes, Declined, DeviceInstalls, LineArrives, StreamEnds, StreamBreaks
        <3> HIDE DEF begun, over, lined, read, both
        <3> QED BY <3>1, <3>2
    <2>3. serving' = Nobody \/ (serving'.who # "none" /\ serving'.pack \in Packs)
        <3>1. CASE DeviceTakes(u)
            BY <2>1, <3>1 DEF DeviceTakes
        <3>2. CASE Declined(u) \/ DeviceInstalls(u) \/ LineArrives(u) \/ StreamEnds(u)
            BY <1>1, <3>2 DEF Declined, DeviceInstalls, LineArrives, StreamEnds, shelf, PacksKept
        <3>3. CASE StreamBreaks(u)
            BY <1>1, <2>1, <3>3 DEF StreamBreaks, Servings, PacksKept
        <3> QED BY <1>5, <3>1, <3>2, <3>3
    <2> HIDE DEF o
    <2> QED BY <1>1, <2>1, <2>2, <2>3 DEF PacksKept, o
<1>6. CASE Leave /\ (serving' = serving \/ serving' = Nobody
                     \/ (serving # Nobody /\ serving' = [serving EXCEPT !.who = "orphan"]))
    <2>1. \A u \in Callers : stream'[u] = Idle
        BY <1>6 DEF Leave
    <2>2. serving' = Nobody \/ (serving'.who # "none" /\ serving'.pack \in Packs)
        BY <1>1, <1>6 DEF PacksKept, Servings
    <2> QED BY <1>1, <2>1, <2>2 DEF PacksKept
<1>7. CASE ClickInstall
    <2>1. chosen # {} /\ stream' = Asks("batch", First(chosen)) /\ serving' = serving
        BY <1>7 DEF ClickInstall
    <2>2. First(chosen) \in Packs
        BY <1>1, <2>1, LeastIsMin DEF First
    <2> QED BY <1>1, <1>3, <2>1, <2>2
<1>8. CASE BatchContinues
    <2> DEFINE left == batch.left \ {stream["batch"].pack}
    <2>1. left # {} /\ stream' = Asks("batch", First(left)) /\ serving' = serving
        BY <1>8 DEF BatchContinues, shelf
    <2>2. left \subseteq Packs
        BY <1>1 DEF Batches
    <2>3. First(left) \in Packs
        BY <1>1, <2>1, <2>2, LeastIsMin DEF First
    <2> HIDE DEF left
    <2> QED BY <1>1, <1>3, <2>1, <2>3
<1>9. CASE \E p \in Packs : SubmitUrl(p)
    BY <1>1, <1>3, <1>9 DEF SubmitUrl
<1>10. CASE BatchSucceeds \/ BatchStops \/ FormReturns
    BY <1>1, <1>4, <1>10 DEF BatchSucceeds, BatchStops, FormReturns, shelf
<1>11. CASE RemoveAnswered
    BY <1>2, <1>6, <1>11 DEF RemoveAnswered
<1>12. CASE ReloadTimer
    BY <1>6, <1>12 DEF ReloadTimer
<1>13. CASE UNCHANGED dashboardVars
    BY <1>2, <1>13 DEF dashboardVars, shelf
<1>14. CASE \E p \in Packs : Tick(p)
    BY <1>2, <1>14 DEF Tick, shelf
<1>15. CASE Clear \/ SubmitFile \/ Refresh \/ WifiSaved \/ ClickRemove \/ StatusArrives \/ UploadAnswered
            \/ OrphanEnds \/ PageLoads
    BY <1>2, <1>15 DEF Clear, SubmitFile, Refresh, WifiSaved, ClickRemove, StatusArrives, UploadAnswered, OrphanEnds,
        PageLoads, shelf
<1>16. ASSUME NEW call, CatalogArrives(call) PROVE PacksKept'
    BY <1>2, <1>16 DEF CatalogArrives, shelf
<1> QED BY <1>5, <1>7, <1>8, <1>9, <1>10, <1>11, <1>12, <1>13, <1>14, <1>15, <1>16 DEF DashboardNext

LEMMA BarStays ==
    ASSUME DashboardInv, BarKept, [DashboardNext]_dashboardVars
    PROVE  BarKept'
<1>1. batch \in Batches
    BY DEF DashboardInv
<1>2. CASE UNCHANGED <<batch, bar, chosen, installable>>
    BY <1>2 DEF BarKept
<1>3. ASSUME NEW packs, bar' = [hidden |-> batch.installing \/ packs = {},
                 disabled |-> IF batch.installing THEN bar.disabled ELSE ~ Fits(packs) \/ deviceUplink = "down"],
             chosen' = packs, batch'.installing = batch.installing, installable' = installable
      PROVE  BarKept'
    <2>1. bar'.hidden = (batch.installing \/ packs = {})
        BY <1>3
    <2>2. ~ batch.installing => bar'.disabled = (~ Fits(packs) \/ deviceUplink = "down")
        BY <1>3
    <2>3. Weight(packs) <= installable => Weight(chosen') <= installable'
        BY <1>3
    <2> QED BY <1>3, <2>1, <2>2, <2>3 DEF BarKept, Fits
<1>4. CASE Clear
    BY <1>3, <1>4 DEF Clear, SyncSelection
<1>5. ASSUME NEW p \in Packs, Tick(p) PROVE BarKept'
    BY <1>3, <1>5 DEF Tick, SyncSelection
<1>6. ASSUME NEW call, CatalogArrives(call) PROVE BarKept'
    BY <1>2, <1>3, <1>6 DEF CatalogArrives, Render, SyncSelection
<1>7. CASE ClickInstall
    <2>1. batch'.installing = TRUE /\ bar'.hidden = TRUE
        BY <1>7 DEF ClickInstall, SyncSelection
    <2> QED BY <2>1 DEF BarKept
<1>8. CASE BatchContinues
    <2>1. batch'.installing = batch.installing /\ UNCHANGED <<bar, chosen, installable>>
        BY <1>1, <1>8 DEF BatchContinues, view, Batches
    <2> QED BY <2>1 DEF BarKept
<1>9. CASE BatchSucceeds
    <2>1. batch.installing /\ bar' = bar
        BY <1>9 DEF BatchSucceeds
    <2> QED BY <2>1 DEF BarKept
<1>10. CASE BatchStops
    <2>1. /\ bar' = [hidden |-> FALSE \/ chosen = {}, disabled |-> IF FALSE THEN bar.disabled
                                                        ELSE ~ Fits(chosen) \/ deviceUplink = "down"]
          /\ chosen' = chosen /\ installable' = installable /\ batch' = [batch EXCEPT !.installing = FALSE, !.left = {}]
        BY <1>10 DEF BatchStops, SyncSelection
    <2>2. batch'.installing = FALSE
        BY <1>1, <2>1 DEF Batches
    <2>3. bar'.hidden = (chosen = {}) /\ bar'.disabled = (~ Fits(chosen) \/ deviceUplink = "down")
        BY <2>1
    <2>4. Weight(chosen) <= installable => Weight(chosen') <= installable'
        BY <2>1
    <2> QED BY <2>1, <2>2, <2>3, <2>4 DEF BarKept, Fits
<1>11. CASE PageLoads
    <2>1. bar'.hidden = TRUE
        BY <1>11 DEF PageLoads
    <2> QED BY <2>1 DEF BarKept
<1>12. CASE UNCHANGED dashboardVars
    BY <1>2, <1>12 DEF dashboardVars, view
<1>13. CASE SubmitFile \/ Refresh \/ WifiSaved \/ ClickRemove \/ StatusArrives \/ UploadAnswered \/ RemoveAnswered
            \/ OrphanEnds \/ FormReturns \/ ReloadTimer
    BY <1>2, <1>13 DEF SubmitFile, Refresh, WifiSaved, ClickRemove, StatusArrives, UploadAnswered, RemoveAnswered,
        OrphanEnds, FormReturns, ReloadTimer, view
<1>14. ASSUME NEW p \in Packs, SubmitUrl(p) PROVE BarKept'
    BY <1>2, <1>14 DEF SubmitUrl, view
<1>15. ASSUME NEW u \in Callers,
           \/ DeviceTakes(u) \/ Declined(u) \/ DeviceInstalls(u)
           \/ LineArrives(u) \/ StreamEnds(u) \/ StreamBreaks(u)
      PROVE  BarKept'
    BY <1>2, <1>15 DEF DeviceTakes, Declined, DeviceInstalls, LineArrives, StreamEnds, StreamBreaks, view
<1> QED BY <1>4, <1>5, <1>6, <1>7, <1>8, <1>9, <1>10, <1>11, <1>12, <1>13, <1>14, <1>15 DEF DashboardNext

(* What is left of the batch and has not landed. *)
Due == {p \in batch.left : p \notin landed["batch"]}

LEMMA RoomStays ==
    ASSUME DashboardInv, PacksKept, BarKept, RoomKept, [DashboardNext]_dashboardVars
    PROVE  RoomKept'
<1>1. /\ stream \in [Callers -> Streams] /\ batch \in Batches /\ chosen \subseteq Packs
      /\ "batch" \in Callers /\ "form" \in Callers /\ "batch" # "form" /\ Idle.at = "idle"
      /\ landed \in [Callers -> SUBSET Nat] /\ Packs \subseteq Nat /\ Capacity \in Nat
      /\ has \subseteq Packs /\ Weight(has) \in Nat /\ installable \in Nat /\ batch.left \subseteq Packs
    <2>1. /\ stream \in [Callers -> Streams] /\ batch \in Batches /\ chosen \subseteq Packs
          /\ landed \in [Callers -> SUBSET Nat] /\ has \subseteq Packs
        BY DEF DashboardInv, RoomKept
    <2>2. Packs \subseteq Nat /\ Capacity \in Nat
        BY DashboardAssumption
    <2>3. Weight(has) \in Nat
        BY <2>1, WeightIsNat
    <2>4. installable \in Nat
        BY <2>2 DEF RoomKept
    <2>5. batch.left \subseteq Packs
        BY <2>1 DEF Batches
    <2> QED BY <2>1, <2>2, <2>3, <2>4, <2>5, NothingStreams
<1> DEFINE SameBatchStream == \/ stream'["batch"].at = "idle"
                              \/ stream["batch"].at # "idle" /\ stream'["batch"].pack = stream["batch"].pack
<1>2. CASE UNCHANGED <<has, installable, changed, batch>> /\ landed'["batch"] = landed["batch"] /\ SameBatchStream
    <2>1. Weight(has') = Weight(has) /\ Due' = Due
        BY <1>2 DEF Due
    <2>2. Weight(Due') = Weight(Due)
        BY <2>1
    <2>3. BatchStillFits'
        BY <1>2, <2>1, <2>2 DEF RoomKept, BatchStillFits, Free, Due
    <2>4. ~ changed' /\ batch'.whole = {} => installable' <= Free'
        BY <1>2, <2>1 DEF RoomKept, Free
    <2> QED BY <1>2, <2>1, <2>3, <2>4 DEF RoomKept
<1>3. CASE UNCHANGED <<has, landed, installable, changed, batch, stream>>
    BY <1>2, <1>3
(* Something else installs or removes a pack: the page no longer vouches   *)
(* for the room there is.                                                  *)
<1>4. CASE /\ changed' = TRUE /\ has' \subseteq Packs /\ Weight(has') <= Capacity
           /\ UNCHANGED <<installable, batch>> /\ SameBatchStream
    BY <1>4 DEF RoomKept, BatchStillFits
<1>5. ASSUME NEW p \in Packs, PackSize[p] <= Free, has' = has \cup {p}
      PROVE  /\ has' \subseteq Packs /\ Weight(has') <= Capacity /\ Weight(has') <= Weight(has) + PackSize[p]
             /\ Weight(has') \in Nat /\ PackSize[p] \in Nat
    <2>1. /\ Weight(has \cup {p}) <= Weight(has) + PackSize[p]
          /\ Weight(has \cup {p}) \in Nat /\ PackSize[p] \in Nat
        BY <1>1, WeightAdds
    <2>2. Weight(has') = Weight(has \cup {p}) /\ has' \subseteq Packs
        BY <1>1, <1>5
    <2> QED BY <1>1, <1>5, <2>1, <2>2 DEF Free
<1>6. CASE UploadAnswered
    <2>1. UNCHANGED <<landed, installable, batch, stream>>
        BY <1>6 DEF UploadAnswered, view
    <2> QED BY <1>3, <1>4, <1>5, <1>6, <2>1 DEF UploadAnswered
<1>7. CASE OrphanEnds
    <2>1. UNCHANGED <<landed, installable, batch, stream>> /\ serving.pack \in Packs
        BY <1>7 DEF OrphanEnds, view, PacksKept, Nobody
    <2> QED BY <1>3, <1>4, <1>5, <1>7, <2>1 DEF OrphanEnds
<1>8. CASE RemoveAnswered
    <2>1. UNCHANGED <<landed, installable, batch>>
        BY <1>8 DEF RemoveAnswered, view
    <2>2. CASE UNCHANGED <<has, changed, page, stream>>
        BY <1>3, <2>1, <2>2
    <2>3. CASE (\E p \in has : has' = has \ {p}) /\ changed' = TRUE /\ Leave
        <3>1. has' \subseteq Packs /\ Weight(has') <= Weight(has) /\ Weight(has') \in Nat
            <4>1. has' \subseteq has
                BY <2>3
            <4> QED BY <1>1, <4>1, WeightGrows, WeightIsNat
        <3>2. stream'["batch"].at = "idle" /\ Weight(has) <= Capacity
            BY <1>1, <2>3 DEF Leave, RoomKept
        <3> QED BY <1>1, <1>4, <2>1, <2>3, <3>1, <3>2
    <2> QED BY <1>8, <2>2, <2>3 DEF RemoveAnswered
<1>9. CASE ReloadTimer
    <2>1. UNCHANGED <<has, landed, changed, installable, batch>> /\ stream'["batch"].at = "idle"
        BY <1>1, <1>9 DEF ReloadTimer, Leave, view
    <2> QED BY <1>2, <2>1
<1>10. CASE PageLoads
    <2>1. /\ installable' = Free /\ batch' = NoBatch /\ has' = has /\ stream' = stream
          /\ landed'["batch"] = {} /\ stream["batch"].at = "idle"
        BY <1>1, <1>10 DEF PageLoads, DashboardInv, BatchKept
    <2>2. batch'.installing = FALSE /\ batch'.left = {} /\ batch'.whole = {}
        BY <2>1 DEF NoBatch
    <2>3. Weight(has') = Weight(has) /\ Weight(has) <= Capacity
        BY <2>1 DEF RoomKept
    <2>4. installable' \in 0 .. Capacity /\ installable' <= Free'
        BY <1>1, <2>1, <2>3 DEF Free
    <2> QED BY <1>1, <2>1, <2>2, <2>3, <2>4 DEF RoomKept, BatchStillFits
<1>11. CASE ClickInstall
    <2>1. /\ ~ bar.hidden /\ ~ bar.disabled /\ chosen # {} /\ UNCHANGED <<has, installable>>
          /\ batch' = [installing |-> TRUE, left |-> chosen, whole |-> chosen, claimed |-> FALSE]
          /\ stream' = Asks("batch", First(chosen)) /\ landed' = [landed EXCEPT !.batch = {}]
          /\ changed' = (changed \/ batch.whole # {})
        BY <1>11 DEF ClickInstall
    <2>2. landed'["batch"] = {} /\ batch'.left = chosen /\ batch'.whole = chosen /\ batch'.installing = TRUE
        BY <1>1, <2>1
    <2>3. stream'["batch"].pack = First(chosen)
        BY <1>1, <2>1 DEF Asks, Idle
    <2>4. First(chosen) \in chosen
        BY <1>1, <2>1, LeastIsMin DEF First
    <2>5. ~ changed' => Weight(chosen) <= Free
        <3>1. Weight(chosen) \in Nat /\ Weight(chosen) <= installable
            BY <1>1, <2>1, WeightIsNat DEF BarKept
        <3>2. ~ changed' => installable <= Free
            BY <2>1 DEF RoomKept
        <3> QED BY <1>1, <3>1, <3>2 DEF Free
    <2>6. Weight(has') = Weight(has) /\ Due' = chosen /\ Weight(Due') = Weight(chosen)
        BY <2>1, <2>2 DEF Due
    <2>7. BatchStillFits'
        BY <2>5, <2>6 DEF BatchStillFits, Free, Due
    <2> QED BY <1>1, <2>1, <2>2, <2>3, <2>4, <2>6, <2>7 DEF RoomKept
<1>12. CASE BatchContinues
    <2> DEFINE left == batch.left \ {stream["batch"].pack}
    <2>1. /\ batch.installing /\ left # {} /\ batch' = [batch EXCEPT !.left = left]
          /\ stream' = Asks("batch", First(left)) /\ UNCHANGED <<has, landed, installable, changed>>
        BY <1>12 DEF BatchContinues, shelf, view
    <2>2. batch'.left = left /\ batch'.whole = batch.whole /\ batch'.installing = batch.installing
        BY <1>1, <2>1 DEF Batches
    <2>3. stream'["batch"].pack = First(left)
        BY <1>1, <2>1 DEF Asks, Idle
    <2>4. First(left) \in left
        BY <1>1, <2>1, LeastIsMin DEF First
    <2>5. Due' \subseteq Due /\ Due \subseteq Packs
        BY <1>1, <2>1, <2>2 DEF Due
    <2>6. Weight(Due') <= Weight(Due) /\ Weight(Due') \in Nat /\ Weight(Due) \in Nat
        BY <2>5, WeightGrows, WeightIsNat
    <2>7. Weight(has') = Weight(has)
        BY <2>1
    <2>8. BatchStillFits'
        BY <1>1, <2>1, <2>2, <2>6, <2>7 DEF RoomKept, BatchStillFits, Free, Due
    <2>9. ~ changed' /\ batch'.whole = {} => installable' <= Free'
        BY <2>1, <2>2, <2>7 DEF RoomKept, Free
    <2> HIDE DEF left
    <2> QED BY <1>1, <2>1, <2>2, <2>3, <2>4, <2>7, <2>8, <2>9 DEF RoomKept, left
<1>13. CASE BatchSucceeds \/ BatchStops
    <2>1. /\ batch' = [batch EXCEPT !.installing = FALSE, !.left = {}, !.claimed = batch'.claimed]
          /\ stream'["batch"] = Idle /\ UNCHANGED <<has, landed, installable, changed>>
        <3>1. CASE BatchSucceeds
            BY <1>1, <3>1 DEF BatchSucceeds, shelf, Batches
        <3>2. CASE BatchStops
            BY <1>1, <3>2 DEF BatchStops, shelf, Batches
        <3> QED BY <1>13, <3>1, <3>2
    <2>2. batch'.installing = FALSE /\ batch'.left = {} /\ batch'.whole = batch.whole
        BY <1>1, <2>1 DEF Batches
    <2>3. Weight(has') = Weight(has)
        BY <2>1
    <2> QED BY <1>1, <2>1, <2>2, <2>3 DEF RoomKept, BatchStillFits, Free
<1>14. ASSUME NEW p \in Packs, SubmitUrl(p) PROVE RoomKept'
    <2>1. UNCHANGED <<has, installable, changed, batch>>
        BY <1>14 DEF SubmitUrl, view
    <2>2. landed'["batch"] = landed["batch"] /\ stream'["batch"] = stream["batch"]
        BY <1>1, <1>14 DEF SubmitUrl, Asks
    <2> QED BY <1>2, <2>1, <2>2
<1>15. CASE FormReturns
    <2>1. UNCHANGED <<has, landed, installable, changed, batch>> /\ stream'["batch"] = stream["batch"]
        BY <1>1, <1>15 DEF FormReturns, view, shelf
    <2> QED BY <1>2, <2>1
<1>16. ASSUME NEW u \in Callers,
           DeviceTakes(u) \/ Declined(u) \/ LineArrives(u) \/ StreamEnds(u) \/ StreamBreaks(u)
      PROVE  RoomKept'
    <2>1. UNCHANGED <<has, landed, installable, changed, batch>>
        BY <1>16 DEF DeviceTakes, Declined, LineArrives, StreamEnds, StreamBreaks, view, shelf
    <2>2. SameBatchStream
        BY <1>1, <1>16 DEF DeviceTakes, Declined, LineArrives, StreamEnds, StreamBreaks, Streams
    <2> QED BY <1>2, <2>1, <2>2
<1>17. ASSUME NEW u \in Callers, DeviceInstalls(u) PROVE RoomKept'
    <2> DEFINE p == serving.pack
    <2>1. /\ serving.who = u /\ stream[u].at = "open" /\ stream[u].pack = p /\ p \in Packs
          /\ UNCHANGED <<batch, installable>>
        BY <1>17, NothingStreams DEF DeviceInstalls, DashboardInv, StreamKept, PacksKept, view, Callers
    <2>2. SameBatchStream
        BY <1>1, <1>17, <2>1 DEF DeviceInstalls, Streams
    <2>3. CASE UNCHANGED <<has, landed, changed>>
        BY <1>2, <2>1, <2>2, <2>3
    <2>4. CASE /\ PackSize[p] <= Free /\ has' = has \cup {p}
               /\ landed' = [landed EXCEPT ![u] = @ \cup {p}] /\ changed' = (changed \/ u # "batch")
        <3>1. /\ has' \subseteq Packs /\ Weight(has') <= Capacity /\ Weight(has') <= Weight(has) + PackSize[p]
              /\ Weight(has') \in Nat /\ PackSize[p] \in Nat
            BY <1>5, <2>1, <2>4
        <3>2. CASE u # "batch" \/ changed
            BY <1>1, <1>4, <2>1, <2>2, <2>4, <3>1, <3>2
        <3>3. CASE u = "batch" /\ ~ changed
            <4>1. p \in batch.left /\ batch.left \subseteq batch.whole /\ landed["batch"] \subseteq has
                BY <1>1, <2>1, <3>3 DEF RoomKept
            <4>2. landed'["batch"] = landed["batch"] \cup {p}
                BY <1>1, <2>4, <3>3
            <4>3. Due' = Due \ {p}
                BY <2>1, <4>2 DEF Due
            <4>4. Weight(Due') = Weight(Due \ {p}) /\ Due \subseteq Packs
                BY <1>1, <4>3 DEF Due
            <4>5. Weight(Due) \in Nat /\ Weight(Due') \in Nat
                <5>1. Due \ {p} \subseteq Packs
                    BY <4>4
                <5> QED BY <4>4, <5>1, WeightIsNat
            <4>6. batch.installing => Weight(Due) <= Capacity - Weight(has)
                BY <3>3 DEF RoomKept, BatchStillFits, Free, Due
            <4>7. batch.installing => Weight(Due') <= Capacity - Weight(has')
                <5>1. CASE p \in Due
                    <6>1. Weight(Due) = PackSize[p] + Weight(Due')
                        BY <4>4, <5>1, WeightSplits
                    <6> QED BY <1>1, <3>1, <4>5, <4>6, <6>1
                <5>2. CASE p \notin Due
                    <6>1. p \in has
                        BY <4>1, <5>2 DEF Due
                    <6>2. has' = has /\ Due' = Due
                        BY <2>4, <4>3, <5>2, <6>1
                    <6>3. Weight(has') = Weight(has) /\ Weight(Due') = Weight(Due)
                        BY <6>2
                    <6> QED BY <4>6, <6>3
                <5> QED BY <5>1, <5>2
            <4>8. BatchStillFits'
                BY <2>1, <4>7 DEF BatchStillFits, Free, Due
            <4>9. landed'["batch"] \subseteq has'
                BY <2>4, <4>1, <4>2
            <4>10. batch'.whole # {}
                BY <2>1, <4>1
            <4>11. stream'["batch"].at # "idle" => stream'["batch"].pack \in batch'.left
                BY <2>1, <2>2, <3>3, <4>1
            <4> QED BY <2>1, <3>1, <4>1, <4>8, <4>9, <4>10, <4>11 DEF RoomKept
        <3> QED BY <3>2, <3>3
    <2> QED BY <1>17, <2>3, <2>4 DEF DeviceInstalls
<1>18. CASE UNCHANGED dashboardVars
    BY <1>3, <1>18 DEF dashboardVars, view, shelf
<1>19. CASE Clear \/ SubmitFile \/ Refresh \/ WifiSaved \/ ClickRemove \/ StatusArrives
    BY <1>3, <1>19 DEF Clear, SubmitFile, Refresh, WifiSaved, ClickRemove, StatusArrives, view, shelf
<1>20. ASSUME NEW p \in Packs, Tick(p) PROVE RoomKept'
    BY <1>3, <1>20 DEF Tick, shelf
<1>21. ASSUME NEW call, CatalogArrives(call) PROVE RoomKept'
    BY <1>3, <1>21 DEF CatalogArrives, shelf
<1> QED BY <1>6, <1>7, <1>8, <1>9, <1>10, <1>11, <1>12, <1>13, <1>14, <1>15, <1>16, <1>17, <1>18, <1>19, <1>20, <1>21
        DEF DashboardNext

LEMMA RoomAtFirst == DashboardInit => PacksKept /\ BarKept /\ RoomKept
<1> SUFFICES ASSUME DashboardInit PROVE PacksKept /\ BarKept /\ RoomKept
    OBVIOUS
<1>1. /\ has \subseteq Packs /\ Weight(has) <= Capacity /\ installable = 0 /\ serving = Nobody /\ bar.hidden = TRUE
      /\ batch.left = {} /\ batch.whole = {} /\ batch.installing = FALSE
      /\ landed["batch"] = {} /\ \A u \in Callers : stream[u].at = "idle"
    BY NothingStreams DEF DashboardInit, NoBatch
<1>2. Weight(has) \in Nat /\ Capacity \in Nat
    BY <1>1, WeightIsNat, DashboardAssumption
<1>3. RoomKept
    BY <1>1, <1>2, NothingStreams DEF RoomKept, BatchStillFits, Free
<1> QED BY <1>1, <1>3 DEF PacksKept, BarKept

(* A batch does not run out of room: what is left of it fits as long as    *)
(* nothing else has changed the library, for every catalogue, every        *)
(* capacity and whatever was selected (manager.js:237-239, 262-264).       *)
THEOREM BatchesFit == DashboardSpec => []BatchStillFits
<1>1. DashboardInv /\ PacksKept /\ BarKept /\ RoomKept /\ [DashboardNext]_dashboardVars
      => DashboardInv' /\ PacksKept' /\ BarKept' /\ RoomKept'
    BY DashboardKept, PacksStay, BarStays, RoomStays
<1>2. RoomKept => BatchStillFits
    BY DEF RoomKept
<1> QED BY DashboardInitial, RoomAtFirst, <1>1, <1>2, PTL DEF DashboardSpec

(* What a phone shows of it. *)
PageTyped ==
    /\ deviceUplink \in {"unknown", "known", "down"}
    /\ rendered \subseteq Packs /\ boxes \subseteq rendered /\ chosen \subseteq rendered
    /\ bar \in [hidden : BOOLEAN, disabled : BOOLEAN]
    /\ calls \subseteq {"catalog", "refresh", "status", "upload", "remove"}
    /\ page \in {"shown", "leaving", "loading"}
    /\ uses \in 0 .. MaxUses
ShelfTyped ==
    /\ landed \in [Callers -> SUBSET Packs]
    /\ changed \in BOOLEAN

LEMMA ShelfTypedKept ==
    ASSUME DashboardInv, PacksKept, ShelfTyped, [DashboardNext]_dashboardVars
    PROVE  ShelfTyped'
<1>1. landed \in [Callers -> SUBSET Packs] /\ changed \in BOOLEAN
    BY DEF ShelfTyped
<1>2. CASE landed' = landed /\ changed' \in BOOLEAN
    BY <1>1, <1>2 DEF ShelfTyped
<1>3. CASE UNCHANGED shelf \/ UNCHANGED dashboardVars
    BY <1>1, <1>2, <1>3 DEF shelf, dashboardVars
<1>4. ASSUME NEW u \in Callers, DeviceInstalls(u) PROVE ShelfTyped'
    <2>1. serving.pack \in Packs
        BY <1>4 DEF DeviceInstalls, PacksKept, Nobody, Callers
    <2>2. changed' \in BOOLEAN
        BY <1>1, <1>4 DEF DeviceInstalls
    <2>3. landed' = landed \/ landed' = [landed EXCEPT ![u] = @ \cup {serving.pack}]
        BY <1>4 DEF DeviceInstalls
    <2>4. landed' \in [Callers -> SUBSET Packs]
        BY <1>1, <2>1, <2>3
    <2> QED BY <2>2, <2>4 DEF ShelfTyped
<1>5. ASSUME NEW u \in Callers,
             DeviceTakes(u) \/ Declined(u) \/ LineArrives(u) \/ StreamEnds(u) \/ StreamBreaks(u)
      PROVE  ShelfTyped'
    BY <1>1, <1>2, <1>5 DEF DeviceTakes, Declined, LineArrives, StreamEnds, StreamBreaks, shelf
<1>6. CASE ClickInstall
    <2>1. landed' \in [Callers -> SUBSET Packs]
        BY <1>1, <1>6 DEF ClickInstall
    <2>2. changed' \in BOOLEAN
        BY <1>1, <1>6 DEF ClickInstall
    <2> QED BY <2>1, <2>2 DEF ShelfTyped
<1>7. ASSUME NEW p \in Packs, SubmitUrl(p) PROVE ShelfTyped'
    <2>1. landed' \in [Callers -> SUBSET Packs]
        BY <1>1, <1>7 DEF SubmitUrl
    <2> QED BY <1>1, <1>7, <2>1 DEF SubmitUrl, ShelfTyped
<1>8. CASE PageLoads
    <2>1. landed' \in [Callers -> SUBSET Packs]
        BY <1>8 DEF PageLoads
    <2> QED BY <1>8, <2>1 DEF PageLoads, ShelfTyped
<1>9. CASE OrphanEnds \/ UploadAnswered \/ RemoveAnswered \/ ReloadTimer
    BY <1>1, <1>2, <1>9 DEF OrphanEnds, UploadAnswered, RemoveAnswered, ReloadTimer
<1>10. ASSUME NEW p \in Packs, Tick(p) PROVE ShelfTyped'
    BY <1>3, <1>10 DEF Tick
<1>11. ASSUME NEW call, CatalogArrives(call) PROVE ShelfTyped'
    BY <1>3, <1>11 DEF CatalogArrives
<1>12. CASE Clear \/ SubmitFile \/ Refresh \/ WifiSaved \/ ClickRemove \/ StatusArrives
            \/ BatchContinues \/ BatchSucceeds \/ BatchStops \/ FormReturns
    BY <1>3, <1>12 DEF Clear, SubmitFile, Refresh, WifiSaved, ClickRemove, StatusArrives, BatchContinues,
        BatchSucceeds, BatchStops, FormReturns
<1> QED BY <1>3, <1>4, <1>5, <1>6, <1>7, <1>8, <1>9, <1>10, <1>11, <1>12 DEF DashboardNext

LEMMA PageTypedKept ==
    ASSUME DashboardInv, PageTyped, [DashboardNext]_dashboardVars
    PROVE  PageTyped'
<1> DEFINE Calls == {"catalog", "refresh", "status", "upload", "remove"}
           Shows == {"shown", "leaving", "loading"}
<1>1. MaxUses \in Nat /\ Listings \subseteq SUBSET Packs
    BY DashboardAssumption
<1>2. CASE UNCHANGED view /\ calls' \subseteq Calls /\ page' \in Shows /\ uses' \in 0 .. MaxUses
    BY <1>2 DEF PageTyped, view
<1>3. Use => uses' \in 0 .. MaxUses
    BY <1>1 DEF Use, PageTyped
<1>4. bar.disabled \in BOOLEAN /\ batch.installing \in BOOLEAN /\ batch \in Batches
    BY DEF PageTyped, DashboardInv, Batches
<1>5. ASSUME NEW packs, NEW installing \in BOOLEAN, SyncSelection(packs, installing)
      PROVE  bar' \in [hidden : BOOLEAN, disabled : BOOLEAN]
    <2> DEFINE h == installing \/ packs = {}
               d == IF installing THEN bar.disabled ELSE ~ Fits(packs) \/ deviceUplink = "down"
    <2>1. h \in BOOLEAN /\ d \in BOOLEAN
        BY <1>4, <1>5
    <2>2. bar' = [hidden |-> h, disabled |-> d]
        BY <1>5 DEF SyncSelection
    <2> HIDE DEF h, d
    <2> QED BY <2>1, <2>2
<1>6. ASSUME NEW p \in Packs, Tick(p) PROVE PageTyped'
    <2>1. bar' \in [hidden : BOOLEAN, disabled : BOOLEAN]
        BY <1>4, <1>5, <1>6 DEF Tick
    <2> QED BY <1>3, <1>6, <2>1 DEF Tick, PageTyped
<1>7. CASE Clear
    <2>1. bar' \in [hidden : BOOLEAN, disabled : BOOLEAN]
        BY <1>4, <1>5, <1>7 DEF Clear
    <2> QED BY <1>3, <1>7, <2>1 DEF Clear, PageTyped
<1>8. ASSUME NEW call, CatalogArrives(call) PROVE PageTyped'
    <2>1. calls' \subseteq Calls /\ UNCHANGED <<deviceUplink, page, uses>>
        BY <1>8 DEF CatalogArrives, PageTyped
    <2>2. CASE boxes' = {} /\ UNCHANGED <<rendered, chosen, bar>>
        BY <2>1, <2>2 DEF PageTyped
    <2>3. ASSUME NEW packs \in Listings, Render(packs) PROVE PageTyped'
        <3>1. bar' \in [hidden : BOOLEAN, disabled : BOOLEAN]
            BY <1>4, <1>5, <2>3 DEF Render
        <3>2. rendered' \subseteq Packs /\ boxes' \subseteq rendered' /\ chosen' \subseteq rendered'
            BY <1>1, <2>3 DEF Render
        <3> QED BY <2>1, <3>1, <3>2 DEF PageTyped
    <2> QED BY <1>8, <2>2, <2>3 DEF CatalogArrives
<1>9. CASE ClickInstall
    <2>1. bar' \in [hidden : BOOLEAN, disabled : BOOLEAN]
        BY <1>5, <1>9 DEF ClickInstall
    <2> QED BY <1>3, <1>9, <2>1 DEF ClickInstall, PageTyped
<1>10. CASE BatchStops
    <2>1. bar' \in [hidden : BOOLEAN, disabled : BOOLEAN]
        BY <1>5, <1>10 DEF BatchStops
    <2> QED BY <1>10, <2>1 DEF BatchStops, PageTyped
<1>11. CASE BatchSucceeds
    BY <1>11 DEF BatchSucceeds, PageTyped
<1>12. CASE PageLoads
    BY <1>12 DEF PageLoads, PageTyped
<1>13. CASE StatusArrives
    BY <1>13 DEF StatusArrives, PageTyped
<1>14. CASE ReloadTimer
    BY <1>2, <1>14 DEF ReloadTimer, Leave, PageTyped
<1>15. CASE RemoveAnswered
    BY <1>2, <1>15 DEF RemoveAnswered, Leave, PageTyped
<1>16. CASE UploadAnswered
    BY <1>2, <1>16 DEF UploadAnswered, PageTyped
<1>17. CASE SubmitFile \/ Refresh \/ WifiSaved \/ ClickRemove
    BY <1>2, <1>3, <1>17 DEF SubmitFile, Refresh, WifiSaved, ClickRemove, PageTyped
<1>18. ASSUME NEW p \in Packs, SubmitUrl(p) PROVE PageTyped'
    BY <1>2, <1>3, <1>18 DEF SubmitUrl, PageTyped
<1>19. CASE OrphanEnds \/ BatchContinues \/ FormReturns \/ UNCHANGED dashboardVars
    BY <1>2, <1>19 DEF OrphanEnds, BatchContinues, FormReturns, dashboardVars, PageTyped
<1>20. ASSUME NEW u \in Callers,
           \/ DeviceTakes(u) \/ Declined(u) \/ DeviceInstalls(u)
           \/ LineArrives(u) \/ StreamEnds(u) \/ StreamBreaks(u)
      PROVE  PageTyped'
    BY <1>2, <1>20 DEF DeviceTakes, Declined, DeviceInstalls, LineArrives, StreamEnds, StreamBreaks, PageTyped
<1> QED BY <1>6, <1>7, <1>8, <1>9, <1>10, <1>11, <1>12, <1>13, <1>14, <1>15, <1>16, <1>17, <1>18, <1>19, <1>20
        DEF DashboardNext

LEMMA TypedAtFirst == DashboardInit => PageTyped /\ ShelfTyped
<1> SUFFICES ASSUME DashboardInit PROVE PageTyped /\ ShelfTyped
    OBVIOUS
<1>1. bar \in [hidden : BOOLEAN, disabled : BOOLEAN]
    BY DEF DashboardInit
<1>2. landed \in [Callers -> SUBSET Packs]
    BY DEF DashboardInit
<1>3. uses \in 0 .. MaxUses
    BY DashboardAssumption DEF DashboardInit
<1> QED BY <1>1, <1>2, <1>3 DEF DashboardInit, PageTyped, ShelfTyped

(* Every variable of the dashboard keeps its type: a ticked pack is one of *)
(* those shown, and what the page says is free is within the volume        *)
(* (manager.js:126-166, 237-288).                                          *)
THEOREM DashboardTypeCorrect == DashboardSpec => []DashboardTypeOK
<1>1. DashboardInv /\ PacksKept /\ BarKept /\ RoomKept /\ PageTyped /\ ShelfTyped /\ [DashboardNext]_dashboardVars
      => DashboardInv' /\ PacksKept' /\ BarKept' /\ RoomKept' /\ PageTyped' /\ ShelfTyped'
    BY DashboardKept, PacksStay, BarStays, RoomStays, PageTypedKept, ShelfTypedKept
<1>2. DashboardInv /\ RoomKept /\ PageTyped /\ ShelfTyped => DashboardTypeOK
    BY DEF DashboardInv, RoomKept, PageTyped, ShelfTyped, DashboardTypeOK, Servings, Batches, Streams
<1> QED BY DashboardInitial, RoomAtFirst, TypedAtFirst, <1>1, <1>2, PTL DEF DashboardSpec

------------------------------------------------------------------------------
(* Residues. *)

LEMMA Residue ==
    ASSUME NEW a \in Int, NEW n \in Nat \ {0}
    PROVE  /\ a % n \in 0 .. n - 1 /\ a \div n \in Int
           /\ a = n * (a \div n) + (a % n)
OBVIOUS

LEMMA NoMultipleBetween ==
    ASSUME NEW x \in Int, NEW n \in Nat \ {0}, n * x > - n, n * x < n
    PROVE  x = 0
<1>1. CASE x < 0
    <2>1. n * x <= - n
        BY <1>1
    <2> QED BY <2>1
<1>2. CASE x > 0
    <2>1. n * x >= n
        BY <1>2
    <2> QED BY <2>1
<1> QED BY <1>1, <1>2

LEMMA ResiduesDiffer ==
    ASSUME NEW a \in Int, NEW b \in Int, NEW n \in Nat \ {0}, a < b, b - a < n
    PROVE  a % n # b % n
<1> SUFFICES ASSUME a % n = b % n PROVE FALSE
    OBVIOUS
<1> DEFINE p == a \div n
           q == b \div n
           r == a % n
<1>1. p \in Int /\ q \in Int /\ r \in Int /\ a = n * p + r /\ b = n * q + r
    BY Residue
<1> HIDE DEF p, q, r
<1>2. b - a = n * (q - p)
    BY <1>1
<1> QED BY <1>1, <1>2, NoMultipleBetween

LEMMA ResidueOfNegative ==
    ASSUME NEW n \in Nat \ {0}, NEW d \in 1 .. n
    PROVE  (0 - d) % n = n - d
<1> DEFINE q == (0 - d) \div n
           r == (0 - d) % n
<1>1. q \in Int /\ r \in 0 .. n - 1 /\ 0 - d = n * q + r
    BY Residue
<1> HIDE DEF q, r
<1>2. n * (q + 1) = n - d - r
    BY <1>1
<1>3. q + 1 = 0
    BY <1>1, <1>2, NoMultipleBetween
<1> QED BY <1>1, <1>2, <1>3 DEF r

LEMMA GreaterOfTwo ==
    ASSUME NEW a \in Nat, NEW b \in Nat
    PROVE  Max({a, b}) \in {a, b} /\ a <= Max({a, b}) /\ b <= Max({a, b})
<1>1. a + b \in Nat /\ \A y \in {a, b} : y <= a + b
    OBVIOUS
<1>2. {a, b} \subseteq Nat /\ {a, b} # {}
    OBVIOUS
<1> QED BY <1>1, <1>2, GreatestIsMax

LEMMA LesserOfTwo ==
    ASSUME NEW a \in Nat, NEW b \in Nat
    PROVE  Min({a, b}) \in {a, b} /\ Min({a, b}) <= a /\ Min({a, b}) <= b
<1>1. {a, b} \subseteq Nat /\ {a, b} # {}
    OBVIOUS
<1> QED BY <1>1, LeastIsMin

------------------------------------------------------------------------------
(* An article on its way: what is stored, and what one call of the         *)
(* inflater produces.                                                      *)

Responses == [caching : {"none", "a day", "no-store"}, body : Seq(Nat), added : {"nothing", "message", "tags"},
              end : {"open", "terminated", "dropped"}]

StoredTyped ==
    /\ \E n \in 0 .. MaxOut : /\ stored.symbol \in [1 .. n -> 1 .. MaxIn]
                              /\ stored.byte \in [1 .. n -> {"right", "wrong", "invalid"}]
    /\ stored.ends \in 1 .. MaxIn
    /\ \A i \in DOMAIN stored.symbol : stored.symbol[i] <= stored.ends

StreamTyped ==
    /\ StoredTyped
    /\ entry \in [comp : 1 .. MaxIn, uncomp : 0 .. MaxOut, dict : 0 .. MaxOut]
    /\ asks \in {"page", "copy held", "download"}
    /\ stage \in {"open", "dictionary", "refill", "inflate", "over"}
    /\ ring \in [0 .. RingSize - 1 -> - RingSize .. MaxOut]
    /\ offered \in 0 .. entry.comp /\ absorbed \in 0 .. offered
    /\ total \in 0 .. entry.uncomp /\ total <= Outputs
    /\ response \in Responses
    /\ faulted \in BOOLEAN

LEMMA Bounds ==
    /\ RingSize \in Nat \ {0} /\ ChunkSize \in Nat \ {0}
    /\ MaxIn \in Nat \ {0} /\ MaxOut \in Nat \ {0}
BY ArticleAssumption

LEMMA StoredShape ==
    ASSUME StoredTyped
    PROVE  /\ Outputs \in 0 .. MaxOut
           /\ stored.symbol \in Seq(1 .. MaxIn) /\ DOMAIN stored.symbol = 1 .. Outputs
           /\ stored.symbol \in [1 .. Outputs -> 1 .. MaxIn]
           /\ stored.byte \in [1 .. Outputs -> {"right", "wrong", "invalid"}]
<1>1. PICK n \in 0 .. MaxOut : /\ stored.symbol \in [1 .. n -> 1 .. MaxIn]
                               /\ stored.byte \in [1 .. n -> {"right", "wrong", "invalid"}]
    BY DEF StoredTyped
<1>2. n \in Nat
    BY Bounds
<1> DEFINE s == stored.symbol
           S == 1 .. MaxIn
<1>3. s \in [1 .. n -> S] /\ DOMAIN s = 1 .. n
    BY <1>1
<1> HIDE DEF s, S
<1>4. s \in Seq(S)
    BY <1>2, <1>3, SeqDef
<1>5. Len(s) = n
    BY <1>2, <1>3, <1>4, LenProperties
<1> QED BY <1>1, <1>3, <1>4, <1>5 DEF Outputs, s, S

LEMMA StreamNumbers ==
    ASSUME StreamTyped
    PROVE  /\ entry.comp \in Nat /\ entry.uncomp \in Nat /\ entry.dict \in Nat
           /\ entry.comp \in 1 .. MaxIn /\ entry.uncomp \in 0 .. MaxOut /\ entry.dict \in 0 .. MaxOut
           /\ offered \in Nat /\ offered <= entry.comp /\ absorbed \in Nat /\ absorbed <= offered
           /\ total \in Nat /\ total <= entry.uncomp /\ total <= Outputs
           /\ stored.ends \in Nat /\ Outputs \in Nat /\ RingSize \in Nat \ {0}
<1>1. entry.comp \in 1 .. MaxIn /\ entry.uncomp \in 0 .. MaxOut /\ entry.dict \in 0 .. MaxOut
    BY DEF StreamTyped
<1>2. entry.comp \in Nat /\ entry.uncomp \in Nat /\ entry.dict \in Nat
    BY <1>1, Bounds
<1>3. offered \in 0 .. entry.comp /\ absorbed \in 0 .. offered /\ total \in 0 .. entry.uncomp /\ total <= Outputs
    BY DEF StreamTyped
<1>4. stored.ends \in 1 .. MaxIn
    BY DEF StreamTyped, StoredTyped
<1>5. Outputs \in 0 .. MaxOut
    BY StoredShape DEF StreamTyped
<1> QED BY <1>1, <1>2, <1>3, <1>4, <1>5, Bounds

(* What is produced fits the room, and every byte of it could be decoded;  *)
(* where there is room left, the next byte could not.                      *)
LEMMA ProducedFits ==
    ASSUME StreamTyped
    PROVE  /\ Produced \in Nat /\ Produced <= Room /\ Room \in 1 .. RingSize
           /\ total + Produced <= Outputs
           /\ Produced < Room => \/ ~ Decodable(total + Produced + 1)
                                 \/ Malformed(total + Produced + 1)
<1> DEFINE Good(n) == \A k \in total + 1 .. total + n : Decodable(k) /\ ~ Malformed(k)
           S == {n \in 0 .. Room : Good(n)}
<1>1. total \in Nat /\ RingSize \in Nat \ {0} /\ total <= Outputs /\ Outputs \in Nat
    BY StreamNumbers
<1>2. Room \in 1 .. RingSize
    <2>1. total % RingSize \in 0 .. RingSize - 1
        BY <1>1
    <2> QED BY <1>1, <2>1 DEF Room
<1>3. Good(0)
    BY <1>1
<1> HIDE DEF Good
<1>4. S \subseteq Nat /\ 0 \in S /\ \A y \in S : y <= Room
    BY <1>2, <1>3
<1>5. Produced = Max(S)
    BY DEF Produced, S, Good
<1>6. Room \in Nat
    BY <1>1, <1>2
<1> HIDE DEF S
<1>7. Produced \in S /\ \A y \in S : y <= Produced
    BY <1>4, <1>5, <1>6, GreatestIsMax
<1>8. Produced \in Nat /\ Produced <= Room /\ Good(Produced)
    BY <1>4, <1>7 DEF S
<1>9. total + Produced <= Outputs
    <2>1. CASE Produced = 0
        BY <1>1, <2>1
    <2>2. CASE Produced # 0
        <3>1. total + Produced \in total + 1 .. total + Produced
            BY <1>1, <1>8, <2>2
        <3> QED BY <1>8, <3>1 DEF Good, Decodable
    <2> QED BY <2>1, <2>2
<1>10. ASSUME Produced < Room, Decodable(total + Produced + 1), ~ Malformed(total + Produced + 1)
       PROVE  FALSE
    <2>1. Good(Produced + 1)
        <3> SUFFICES ASSUME NEW k \in total + 1 .. total + (Produced + 1)
                     PROVE  Decodable(k) /\ ~ Malformed(k)
            BY DEF Good
        <3>1. k \in total + 1 .. total + Produced \/ k = total + Produced + 1
            BY <1>1, <1>8
        <3> QED BY <1>8, <1>10, <3>1 DEF Good
    <2>2. Produced + 1 \in 0 .. Room
        BY <1>2, <1>6, <1>8, <1>10
    <2>3. Produced + 1 \in S
        BY <2>1, <2>2 DEF S
    <2> QED BY <1>7, <1>8, <2>3
<1> QED BY <1>2, <1>8, <1>9, <1>10

LEMMA ConsumedInside ==
    ASSUME StreamTyped
    PROVE  Inflater.consumed \in 0 .. offered
<1> DEFINE next == total + Produced + 1
<1>1. offered \in Nat /\ absorbed \in 0 .. offered /\ stored.ends \in Nat /\ Outputs \in Nat
    BY StreamNumbers
<1>2. next \in Nat \ {0}
    BY ProducedFits, StreamNumbers
<1> HIDE DEF next
<1>3. ASSUME Decodable(next) PROVE stored.symbol[next] \in 0 .. offered
    <2>1. next \in 1 .. Outputs
        BY <1>1, <1>2, <1>3 DEF Decodable
    <2>2. stored.symbol[next] \in 1 .. MaxIn
        BY <2>1, StoredShape DEF StreamTyped
    <2> QED BY <1>1, <1>3, <2>2, Bounds DEF Decodable
<1>4. ASSUME Decodable(next) PROVE Max({absorbed, stored.symbol[next]}) \in 0 .. offered
    <2>1. absorbed \in Nat /\ stored.symbol[next] \in Nat
        BY <1>1, <1>3, <1>4
    <2> QED BY <1>1, <1>3, <1>4, <2>1, GreaterOfTwo
<1>5. Malformed(next) => Decodable(next)
    BY DEF Malformed
<1>6. \/ Decodable(next) /\ Inflater.consumed = stored.symbol[next]
      \/ Decodable(next) /\ Inflater.consumed = Max({absorbed, stored.symbol[next]})
      \/ stored.ends <= offered /\ Inflater.consumed = stored.ends
      \/ Inflater.consumed = offered
    BY <1>5 DEF Inflater, next
<1> QED BY <1>1, <1>3, <1>4, <1>6

------------------------------------------------------------------------------
(* An article on its way: the invariant of a transfer. *)

Started == stage \in {"open", "dictionary"} => total = 0 /\ offered = 0 /\ absorbed = 0

HistoryKept ==
    stage \in {"refill", "inflate"} =>
        \A d \in 1 .. RingSize : d <= total + entry.dict => ring[(total - d) % RingSize] = total - d

(* What was sent is a beginning of the article, a message of failure       *)
(* stands alone, and the ordinary ending came after all of it was checked. *)
Whole == \A k \in 1 .. entry.uncomp : stored.byte[k] = "right"
BodyKept ==
    /\ \E m \in Nat : m <= entry.uncomp /\ m <= Outputs /\ response.body = Run(0, m)
    /\ stage # "over" => response.body = Run(0, total) /\ response.added = "nothing" /\ response.end = "open"
    /\ response.added = "message" => response.body = <<>>
    /\ response.end = "terminated" /\ response.added = "nothing" /\ asks # "copy held" =>
          response.body = Run(0, entry.uncomp) /\ Whole

(* An intact frame with nothing against it has input left until its end.   *)
Unblamed == Intact /\ ~ StraddlesTheEnd /\ ~ faulted
RefusalKept ==
    /\ Unblamed /\ stage # "over" => absorbed < entry.comp
    /\ Unblamed => response.added = "nothing"

StreamInv == StreamTyped /\ Started /\ HistoryKept /\ BodyKept /\ RefusalKept

LEMMA ErrorNamed ==
    ASSUME NEW r
    PROVE  /\ ErrorAfter(r) \in {"nothing", "message", "tags"} /\ ErrorAfter(r) # "nothing"
           /\ ErrorAfter(r) = "message" => r.body = <<>>
BY DEF ErrorAfter

LEMMA ClosedBy ==
    ASSUME NEW r \in Responses, NEW what \in {"nothing", "message", "tags"}, Close(r, what), faulted \in BOOLEAN
    PROVE  /\ stage' = "over" /\ response' \in Responses /\ faulted' \in BOOLEAN
           /\ response'.body = r.body /\ response'.added = what
           /\ faulted => faulted'
<1>1. PICK how \in {"terminated", "dropped"} :
          /\ response' = [r EXCEPT !.added = what, !.end = how]
          /\ faulted' = (faulted \/ how = "dropped")
    BY DEF Close
<1>2. response' \in Responses /\ response'.body = r.body /\ response'.added = what
    BY <1>1 DEF Responses
<1> QED BY <1>1, <1>2 DEF Close

(* A transfer that ends. *)
LEMMA StopsKept ==
    ASSUME StreamInv, stage' = "over", UNCHANGED <<stored, entry, asks>>,
           ring' \in [0 .. RingSize - 1 -> - RingSize .. MaxOut],
           offered' \in 0 .. entry.comp, absorbed' \in 0 .. offered',
           total' \in 0 .. entry.uncomp, total' <= Outputs,
           response' \in Responses, faulted' \in BOOLEAN,
           NEW m \in Nat, m <= entry.uncomp, m <= Outputs, response'.body = Run(0, m),
           response'.added = "message" => response'.body = <<>>,
           response'.end = "terminated" /\ response'.added = "nothing" /\ asks # "copy held" => m = entry.uncomp /\ Whole,
           Intact /\ ~ StraddlesTheEnd /\ ~ faulted' => response'.added = "nothing"
    PROVE  StreamInv'
<1>1. Outputs' = Outputs /\ Intact' = Intact /\ StraddlesTheEnd' = StraddlesTheEnd /\ Whole' = Whole
    BY DEF Outputs, Intact, StraddlesTheEnd, Whole
<1>2. StreamTyped'
    BY <1>1 DEF StreamInv, StreamTyped, StoredTyped
<1>3. BodyKept'
    BY <1>1 DEF BodyKept
<1>4. RefusalKept'
    BY <1>1 DEF RefusalKept, Unblamed
<1> QED BY <1>2, <1>3, <1>4 DEF StreamInv, Started, HistoryKept

(* A transfer that ends with the body it has, by an error when there was a *)
(* reason.                                                                 *)
LEMMA EndsHere ==
    ASSUME StreamInv, stage # "over", UNCHANGED <<stored, entry, asks, total>>,
           ring' \in [0 .. RingSize - 1 -> - RingSize .. MaxOut],
           offered' \in 0 .. entry.comp, absorbed' \in 0 .. offered',
           \/ DecodeError /\ ~ (Intact /\ ~ StraddlesTheEnd /\ ~ faulted)
           \/ ReadError
           \/ SendFails
           \/ FinishResponse /\ asks = "copy held"
    PROVE  StreamInv'
<1>1. /\ response \in Responses /\ faulted \in BOOLEAN /\ response.body = Run(0, total)
      /\ response.added = "nothing"
      /\ total \in 0 .. entry.uncomp /\ total \in Nat /\ total <= entry.uncomp /\ total <= Outputs
    BY StreamNumbers DEF StreamInv, BodyKept, StreamTyped
<1> DEFINE error == ErrorAfter(response)
<1>2. /\ error \in {"nothing", "message", "tags"} /\ error # "nothing"
      /\ error = "message" => response.body = <<>>
    BY ErrorNamed
<1>3. CASE DecodeError /\ ~ (Intact /\ ~ StraddlesTheEnd /\ ~ faulted)
    <2>1. Close(response, error)
        BY <1>3 DEF DecodeError
    <2> HIDE DEF error
    <2>2. /\ stage' = "over" /\ response' \in Responses /\ faulted' \in BOOLEAN
          /\ response'.body = response.body /\ response'.added = error /\ (faulted => faulted')
        BY <1>1, <1>2, <2>1, ClosedBy
    <2>3. response'.added # "nothing" /\ (response'.added = "message" => response'.body = <<>>)
        BY <1>2, <2>2
    <2> QED BY <1>1, <1>3, <2>2, <2>3, StopsKept
<1>4. CASE ReadError
    <2>1. PICK how \in {"terminated", "dropped"} :
              response' = [response EXCEPT !.added = error, !.end = how]
        BY <1>4 DEF ReadError
    <2> HIDE DEF error
    <2>2. response' \in Responses /\ response'.body = response.body /\ response'.added = error
        BY <1>1, <1>2, <2>1 DEF Responses
    <2>3. response'.added # "nothing" /\ (response'.added = "message" => response'.body = <<>>)
        BY <1>2, <2>2
    <2> QED BY <1>1, <1>4, <2>2, <2>3, StopsKept DEF ReadError
<1>5. CASE SendFails
    <2>1. /\ response' \in Responses /\ response'.body = response.body /\ response'.end = "dropped"
          /\ response'.added = response.added
        BY <1>1, <1>5 DEF Responses, SendFails
    <2> QED BY <1>1, <1>5, <2>1, StopsKept DEF SendFails
<1>6. CASE FinishResponse /\ asks = "copy held"
    BY <1>1, <1>6, ClosedBy, StopsKept DEF FinishResponse
<1> QED BY <1>3, <1>4, <1>5, <1>6

(* A transfer that goes on from one stage to the next without output.      *)
LEMMA GoesOn ==
    ASSUME StreamInv, stage # "over", UNCHANGED <<stored, entry, asks, absorbed, total, faulted>>,
           stage' \in {"open", "dictionary", "refill", "inflate"},
           ring' \in [0 .. RingSize - 1 -> - RingSize .. MaxOut],
           offered' \in 0 .. entry.comp, absorbed <= offered',
           response' \in Responses, response'.body = response.body,
           response'.added = response.added, response'.end = response.end,
           Started', HistoryKept'
    PROVE  StreamInv'
<1>1. Outputs' = Outputs /\ Intact' = Intact /\ StraddlesTheEnd' = StraddlesTheEnd /\ Whole' = Whole
    BY DEF Outputs, Intact, StraddlesTheEnd, Whole
<1>2. absorbed' \in 0 .. offered'
    <2>1. entry.comp \in Nat /\ absorbed \in Nat
        BY StreamNumbers DEF StreamInv
    <2> QED BY <2>1
<1>3. StreamTyped'
    BY <1>1, <1>2 DEF StreamInv, StreamTyped, StoredTyped
<1>4. BodyKept'
    BY <1>1 DEF StreamInv, BodyKept
<1>5. RefusalKept'
    BY <1>1 DEF StreamInv, RefusalKept, Unblamed
<1> QED BY <1>3, <1>4, <1>5 DEF StreamInv

LEMMA OpenResponseKept ==
    ASSUME StreamInv, OpenResponse
    PROVE  StreamInv'
<1>1. /\ stage = "open" /\ UNCHANGED <<stored, entry, asks, ring, offered, absorbed, total>>
      /\ response \in Responses /\ ring \in [0 .. RingSize - 1 -> - RingSize .. MaxOut]
      /\ offered \in 0 .. entry.comp /\ absorbed \in 0 .. offered /\ absorbed <= offered
    BY StreamNumbers DEF OpenResponse, StreamInv, StreamTyped
<1>2. CASE asks = "copy held"
    BY <1>1, <1>2, EndsHere DEF OpenResponse
<1>3. CASE asks # "copy held"
    <2>1. /\ stage' = "dictionary" /\ UNCHANGED faulted
          /\ response' = [response EXCEPT !.caching = IF asks = "page" THEN "a day" ELSE "no-store"]
        BY <1>3 DEF OpenResponse
    <2>2. /\ response' \in Responses /\ response'.body = response.body
          /\ response'.added = response.added /\ response'.end = response.end
        BY <1>1, <2>1 DEF Responses
    <2>3. Started' /\ HistoryKept'
        BY <1>1, <2>1 DEF StreamInv, Started, HistoryKept
    <2> QED BY <1>1, <2>1, <2>2, <2>3, GoesOn
<1> QED BY <1>2, <1>3

(* The dictionary ends where the ring ends, which is where the article's   *)
(* first byte expects to find it.                                          *)
LEMMA DictionaryIsHistory ==
    ASSUME StreamTyped, total = 0, entry.dict <= RingSize,
           NEW d \in 1 .. RingSize, d <= total + entry.dict
    PROVE  /\ WithDictionary \in [0 .. RingSize - 1 -> - RingSize .. MaxOut]
           /\ WithDictionary[(total - d) % RingSize] = total - d
<1>1. RingSize \in Nat \ {0} /\ entry.dict \in Nat /\ ring \in [0 .. RingSize - 1 -> - RingSize .. MaxOut]
      /\ MaxOut \in Nat
    BY StreamNumbers, Bounds DEF StreamTyped
<1>2. (total - d) % RingSize = RingSize - d
    BY <1>1, ResidueOfNegative
<1>3. RingSize - d \in 0 .. RingSize - 1 /\ RingSize - d >= RingSize - entry.dict
    BY <1>1
<1>4. WithDictionary[RingSize - d] = (RingSize - d) - RingSize
    BY <1>1, <1>3 DEF WithDictionary
<1>5. \A slot \in 0 .. RingSize - 1 : slot - RingSize \in - RingSize .. MaxOut
    BY <1>1
<1>6. WithDictionary \in [0 .. RingSize - 1 -> - RingSize .. MaxOut]
    BY <1>1, <1>5 DEF WithDictionary
<1> QED BY <1>1, <1>2, <1>4, <1>6

LEMMA DictionaryTyped ==
    ASSUME StreamTyped
    PROVE  WithDictionary \in [0 .. RingSize - 1 -> - RingSize .. MaxOut]
<1>1. RingSize \in Nat \ {0} /\ MaxOut \in Nat /\ ring \in [0 .. RingSize - 1 -> - RingSize .. MaxOut]
    BY Bounds DEF StreamTyped
<1>2. \A slot \in 0 .. RingSize - 1 : slot - RingSize \in - RingSize .. MaxOut
    BY <1>1
<1> QED BY <1>1, <1>2 DEF WithDictionary

LEMMA LoadDictionaryKept ==
    ASSUME StreamInv, LoadDictionary
    PROVE  StreamInv'
<1>1. /\ stage = "dictionary" /\ UNCHANGED <<stored, entry, asks, offered, absorbed, total>>
      /\ response \in Responses /\ ring \in [0 .. RingSize - 1 -> - RingSize .. MaxOut]
      /\ offered \in 0 .. entry.comp /\ absorbed \in 0 .. offered /\ absorbed <= offered
      /\ StreamTyped
    BY StreamNumbers DEF LoadDictionary, StreamInv, StreamTyped
<1>2. CASE entry.dict > RingSize /\ DecodeError /\ UNCHANGED ring
    <2>1. ~ Intact
        BY <1>1, <1>2, StreamNumbers DEF Intact
    <2> QED BY <1>1, <1>2, <2>1, EndsHere
<1>3. CASE ReadError /\ UNCHANGED ring
    BY <1>1, <1>3, EndsHere
<1>4. CASE entry.dict <= RingSize /\ ring' = WithDictionary /\ stage' = "refill" /\ UNCHANGED <<response, faulted>>
    <2>1. total = 0
        BY <1>1 DEF StreamInv, Started
    <2>2. HistoryKept'
        BY <1>1, <1>4, <2>1, DictionaryIsHistory DEF HistoryKept
    <2>3. Started'
        BY <1>4 DEF Started
    <2>4. ring' \in [0 .. RingSize - 1 -> - RingSize .. MaxOut]
        BY <1>1, <1>4, DictionaryTyped
    <2> QED BY <1>1, <1>4, <2>2, <2>3, <2>4, GoesOn
<1> QED BY <1>2, <1>3, <1>4 DEF LoadDictionary

LEMMA RefillKept ==
    ASSUME StreamInv, Refill
    PROVE  StreamInv'
<1>1. /\ stage = "refill" /\ UNCHANGED <<stored, entry, asks, ring, absorbed, total>>
      /\ response \in Responses /\ ring \in [0 .. RingSize - 1 -> - RingSize .. MaxOut]
      /\ offered \in 0 .. entry.comp /\ absorbed \in 0 .. offered /\ absorbed <= offered
      /\ absorbed \in Nat /\ offered \in Nat /\ entry.comp \in Nat /\ ChunkSize \in Nat
    BY StreamNumbers, Bounds DEF Refill, StreamInv, StreamTyped
<1>2. stage' = "inflate" => Started' /\ HistoryKept'
    BY <1>1 DEF StreamInv, Started, HistoryKept
<1>3. CASE stage' = "inflate" /\ UNCHANGED <<offered, response, faulted>>
    BY <1>1, <1>2, <1>3, GoesOn
<1>4. CASE absorbed = offered /\ offered >= entry.comp /\ DecodeError /\ UNCHANGED offered
    <2>1. ~ (Intact /\ ~ StraddlesTheEnd /\ ~ faulted)
        BY <1>1, <1>4 DEF StreamInv, RefusalKept, Unblamed
    <2> QED BY <1>1, <1>4, <2>1, EndsHere
<1>5. CASE ReadError /\ UNCHANGED offered
    BY <1>1, <1>5, EndsHere
<1>6. CASE /\ offered' = Min({entry.comp, offered + ChunkSize}) /\ absorbed = offered
           /\ offered < entry.comp /\ stage' = "inflate" /\ UNCHANGED <<response, faulted>>
    <2>1. offered' \in {entry.comp, offered + ChunkSize} /\ offered' <= entry.comp
        BY <1>1, <1>6, LesserOfTwo
    <2>2. offered' \in 0 .. entry.comp /\ absorbed <= offered'
        BY <1>1, <1>6, <2>1
    <2> QED BY <1>1, <1>2, <1>6, <2>2, GoesOn
<1> QED BY <1>3, <1>4, <1>5, <1>6 DEF Refill

LEMMA RingAfterIsHistory ==
    ASSUME StreamInv, stage = "inflate"
    PROVE  /\ RingAfter \in [0 .. RingSize - 1 -> - RingSize .. MaxOut]
           /\ \A d \in 1 .. RingSize : d <= total + Produced + entry.dict =>
                  RingAfter[(total + Produced - d) % RingSize] = total + Produced - d
<1> DEFINE P == Produced
           Fresh == total .. total + P - 1
<1>1. /\ P \in Nat /\ P <= RingSize /\ total + P <= Outputs
      /\ total \in Nat /\ entry.dict \in Nat /\ RingSize \in Nat \ {0} /\ MaxOut \in Nat /\ Outputs <= MaxOut
      /\ Outputs \in Nat
    <2>1. StreamTyped /\ Outputs \in 0 .. MaxOut /\ MaxOut \in Nat
        BY StoredShape, Bounds DEF StreamInv, StreamTyped
    <2>2. Produced \in Nat /\ Produced <= Room /\ Room \in 1 .. RingSize /\ total + Produced <= Outputs
        BY <2>1, ProducedFits
    <2>3. total \in Nat /\ entry.dict \in Nat /\ RingSize \in Nat \ {0}
        BY <2>1, StreamNumbers
    <2> QED BY <2>1, <2>2, <2>3
<1>2. ring \in [0 .. RingSize - 1 -> - RingSize .. MaxOut] /\ DOMAIN ring = 0 .. RingSize - 1
    BY DEF StreamInv, StreamTyped
<1> HIDE DEF P
<1>3. RingAfter = [slot \in 0 .. RingSize - 1 |->
                      IF \E k \in Fresh : k % RingSize = slot
                      THEN CHOOSE k \in Fresh : k % RingSize = slot
                      ELSE ring[slot]]
    BY <1>2 DEF RingAfter, P
<1>4. \A k \in Fresh : k \in Int /\ k \in - RingSize .. MaxOut
    BY <1>1
<1> HIDE DEF Fresh
<1>5. ASSUME NEW slot \in 0 .. RingSize - 1
      PROVE  RingAfter[slot] \in - RingSize .. MaxOut
    <2>1. CASE \E k \in Fresh : k % RingSize = slot
        BY <1>3, <1>4, <2>1
    <2>2. CASE ~ \E k \in Fresh : k % RingSize = slot
        BY <1>2, <1>3, <2>2
    <2> QED BY <2>1, <2>2
<1>6. RingAfter \in [0 .. RingSize - 1 -> - RingSize .. MaxOut]
    BY <1>3, <1>5
<1>7. ASSUME NEW d \in 1 .. RingSize, d <= total + P + entry.dict
      PROVE  RingAfter[(total + P - d) % RingSize] = total + P - d
    <2> DEFINE k == total + P - d
               slot == k % RingSize
    <2>1. k \in Int /\ slot \in 0 .. RingSize - 1
        BY <1>1, Residue
    <2>2. CASE d <= P
        <3>1. k \in Fresh
            BY <1>1, <2>2 DEF Fresh
        <3>2. ASSUME NEW other \in Fresh, other % RingSize = slot
              PROVE  other = k
            <4>1. other \in Int /\ other - k < RingSize /\ k - other < RingSize
                BY <1>1, <2>2 DEF Fresh
            <4>2. ~ (other < k)
                BY <1>1, <2>1, <3>2, <4>1, ResiduesDiffer
            <4>3. ~ (k < other)
                BY <1>1, <2>1, <3>2, <4>1, ResiduesDiffer
            <4> QED BY <2>1, <4>1, <4>2, <4>3
        <3> HIDE DEF k
        <3>3. RingAfter[slot] = CHOOSE j \in Fresh : j % RingSize = slot
            BY <1>3, <2>1, <3>1
        <3>4. RingAfter[slot] = k
            BY <3>1, <3>2, <3>3
        <3> QED BY <3>4 DEF k
    <2>3. CASE d > P
        <3>1. PICK e \in 1 .. RingSize : e = d - P
            BY <1>1, <2>3
        <3>2. e <= total + entry.dict /\ k = total - e
            BY <1>1, <1>7, <3>1
        <3>3. ring[slot] = k
            BY <1>1, <3>1, <3>2 DEF StreamInv, HistoryKept
        <3>4. ASSUME NEW other \in Fresh, other % RingSize = slot
              PROVE  FALSE
            <4>1. other \in Int /\ k < other /\ other - k < RingSize
                BY <1>1, <2>3 DEF Fresh
            <4> QED BY <1>1, <2>1, <3>4, <4>1, ResiduesDiffer
        <3>5. RingAfter[slot] = ring[slot]
            BY <1>3, <2>1, <3>4
        <3> QED BY <3>3, <3>5
    <2> QED BY <1>1, <2>2, <2>3
<1> QED BY <1>6, <1>7 DEF P

LEMMA SentIsNext ==
    ASSUME StreamInv, stage # "over"
    PROVE  /\ Sent \in Responses /\ Sent.body = Run(0, total + Produced)
           /\ Sent.added = response.added /\ Sent.end = response.end
<1> DEFINE more == [i \in 1 .. Produced |-> total + i - 1]
<1>1. /\ Produced \in Nat /\ total \in Nat /\ response \in Responses /\ response.body = Run(0, total)
    BY ProducedFits, StreamNumbers DEF StreamInv, StreamTyped, BodyKept
<1>2. more = Run(0 + total, Produced)
    BY <1>1 DEF Run
<1>3. 0 + total \in Nat /\ total + Produced \in Nat
    BY <1>1
<1> HIDE DEF more
<1>4. response.body \o more = Run(0, total + Produced)
    BY <1>1, <1>2, RunsJoin
<1>5. Run(0, total + Produced) \in Seq(Nat)
    BY <1>3, RunTyped
<1>6. Sent = [response EXCEPT !.body = Run(0, total + Produced)]
    BY <1>4 DEF Sent, more
<1> QED BY <1>1, <1>5, <1>6 DEF Responses

(* A sound frame is blamed for nothing: the inflater reaches its end with  *)
(* the input used up, and short of the end some input is left, unless the  *)
(* ring ends where the last byte of input starts another symbol.           *)
LEMMA SoundFrameGoesOn ==
    ASSUME StreamInv, stage = "inflate", Intact, ~ StraddlesTheEnd, absorbed < entry.comp
    PROVE  \/ /\ Inflater.status \in {"has more output", "needs more input"}
              /\ Inflater.consumed < entry.comp
           \/ Inflater.status = "done" /\ ~ TrailingInput /\ total + Produced = Outputs
<1> DEFINE P == Produced
           next == total + P + 1
<1>1. /\ P \in Nat /\ P <= Room /\ Room \in 1 .. RingSize /\ total + P <= Outputs
      /\ P < Room => ~ Decodable(next) \/ Malformed(next)
    BY ProducedFits DEF StreamInv
<1>2. /\ entry.comp \in Nat /\ offered \in Nat /\ offered <= entry.comp /\ absorbed \in Nat
      /\ total \in Nat /\ Outputs \in Nat /\ RingSize \in Nat \ {0} /\ stored.ends = entry.comp
      /\ \A k \in 1 .. Outputs : stored.byte[k] = "right"
    BY StreamNumbers DEF StreamInv, Intact
<1>3. \A k \in 1 .. Outputs : stored.symbol[k] \in Nat /\ stored.symbol[k] <= stored.ends
    <2>1. DOMAIN stored.symbol = 1 .. Outputs /\ stored.symbol \in [1 .. Outputs -> 1 .. MaxIn]
        BY StoredShape DEF StreamInv, StreamTyped
    <2>2. \A k \in 1 .. Outputs : stored.symbol[k] \in 1 .. MaxIn
        BY <2>1
    <2>3. \A k \in 1 .. Outputs : stored.symbol[k] <= stored.ends
        BY <2>1 DEF StreamInv, StreamTyped, StoredTyped
    <2> QED BY <2>2, <2>3, Bounds
<1>4. next \in Nat \ {0}
    BY <1>1, <1>2
<1>5. ~ Malformed(next)
    BY <1>2, <1>4 DEF Malformed, Decodable
<1> HIDE DEF P
<1>6. CASE Decodable(next)
    <2>1. P = Room /\ next <= Outputs
        BY <1>1, <1>2, <1>5, <1>6 DEF Decodable
    <2>2. (total + P) % RingSize = 0
        <3> DEFINE q == total \div RingSize
                   r == total % RingSize
        <3>1. q \in Int /\ r \in 0 .. RingSize - 1 /\ total = (RingSize * q) + r /\ P = RingSize - r
            BY <1>2, <2>1, Residue DEF Room
        <3> HIDE DEF q, r
        <3>2. total + P = RingSize * (q + 1)
            BY <1>2, <3>1
        <3> DEFINE q2 == (total + P) \div RingSize
                   r2 == (total + P) % RingSize
        <3>3. q2 \in Int /\ r2 \in 0 .. RingSize - 1 /\ total + P = (RingSize * q2) + r2
            <4>1. total + P \in Int
                BY <1>1, <1>2
            <4> QED BY <1>2, <4>1, Residue
        <3> HIDE DEF q2, r2
        <3>4. RingSize * (q + 1 - q2) = r2
            BY <1>2, <3>1, <3>2, <3>3
        <3>5. q + 1 - q2 = 0
            BY <1>2, <3>1, <3>3, <3>4, NoMultipleBetween
        <3>6. r2 = 0
            BY <1>2, <3>4, <3>5
        <3> QED BY <3>6 DEF r2
    <2>3. total + P \in 1 .. Outputs - 1
        BY <1>1, <1>2, <2>1
    <2>4. stored.symbol[next] # stored.ends
        BY <2>2, <2>3 DEF StraddlesTheEnd
    <2>5. stored.symbol[next] \in Nat /\ stored.symbol[next] < entry.comp
        <3>1. next \in 1 .. Outputs
            BY <1>2, <1>4, <2>1
        <3> QED BY <1>2, <1>3, <2>4, <3>1
    <2>6. Max({absorbed, stored.symbol[next]}) < entry.comp
        BY <1>2, <2>5, GreaterOfTwo
    <2>7. /\ Inflater.status = "has more output"
          /\ Inflater.consumed = Max({absorbed, stored.symbol[next]})
        <3>1. ~ (next > Outputs)
            BY <1>2, <1>4, <2>1
        <3> QED BY <1>5, <1>6, <3>1 DEF Inflater, P
    <2> QED BY <2>6, <2>7
<1>7. CASE ~ Decodable(next) /\ next > Outputs /\ stored.ends <= offered
    <2>1. Inflater.status = "done" /\ Inflater.consumed = stored.ends
        BY <1>5, <1>7 DEF Inflater, P
    <2>2. offered = entry.comp /\ total + P = Outputs
        BY <1>1, <1>2, <1>7
    <2> QED BY <1>2, <2>1, <2>2 DEF TrailingInput, P
<1>8. CASE ~ Decodable(next) /\ ~ (next > Outputs /\ stored.ends <= offered)
    <2>1. offered < entry.comp
        <3>1. CASE next > Outputs
            BY <1>2, <1>8, <3>1
        <3>2. CASE ~ (next > Outputs)
            <4>1. next \in 1 .. Outputs
                BY <1>2, <1>4, <3>2
            <4>2. stored.symbol[next] > offered
                BY <1>2, <1>3, <1>8, <4>1 DEF Decodable
            <4> QED BY <1>2, <1>3, <4>1, <4>2
        <3> QED BY <3>1, <3>2
    <2>2. Inflater.status = "needs more input" /\ Inflater.consumed = offered
        BY <1>5, <1>8, <2>1 DEF Inflater, P
    <2> QED BY <2>1, <2>2
<1> QED BY <1>6, <1>7, <1>8

(* The call of the inflater in numbers, whatever is done with its answer.  *)
LEMMA InflateMoves ==
    ASSUME StreamInv, Inflate
    PROVE  /\ stage = "inflate" /\ UNCHANGED <<stored, entry, asks, offered>>
           /\ ring' = RingAfter /\ absorbed' = Inflater.consumed
           /\ ring' \in [0 .. RingSize - 1 -> - RingSize .. MaxOut]
           /\ offered' \in 0 .. entry.comp /\ absorbed' \in 0 .. offered'
BY RingAfterIsHistory, ConsumedInside DEF Inflate, StreamInv, StreamTyped

LEMMA InflateKept ==
    ASSUME StreamInv, Inflate
    PROVE  StreamInv'
<1> DEFINE P == Produced
<1>1. /\ P \in Nat /\ total + P <= Outputs /\ total \in Nat /\ total <= Outputs /\ total <= entry.uncomp
      /\ entry.uncomp \in Nat /\ Outputs \in Nat /\ total + P \in Nat
    BY ProducedFits, StreamNumbers DEF StreamInv
<1>2. /\ stage = "inflate" /\ UNCHANGED <<stored, entry, asks, offered>>
      /\ ring' = RingAfter /\ absorbed' = Inflater.consumed
      /\ ring' \in [0 .. RingSize - 1 -> - RingSize .. MaxOut]
      /\ offered' \in 0 .. entry.comp /\ absorbed' \in 0 .. offered'
    BY InflateMoves
<1>3. /\ Sent \in Responses /\ Sent.body = Run(0, total + P) /\ Sent.added = "nothing" /\ Sent.end = "open"
      /\ faulted \in BOOLEAN /\ response \in Responses /\ response.added = "nothing"
      /\ response.body = Run(0, total) /\ response.end = "open"
    BY <1>2, SentIsNext DEF StreamInv, StreamTyped, BodyKept
<1>4. ASSUME Intact, ~ StraddlesTheEnd, ~ faulted
      PROVE  /\ ~ TooLong
             /\ \/ /\ Inflater.status \in {"has more output", "needs more input"}
                   /\ Inflater.consumed < entry.comp
                \/ Inflater.status = "done" /\ ~ TrailingInput /\ total + P = Outputs
    <2>1. absorbed < entry.comp
        BY <1>2, <1>4 DEF StreamInv, RefusalKept, Unblamed
    <2>2. ~ TooLong
        BY <1>1, <1>4 DEF Intact, TooLong
    <2> QED BY <1>2, <1>4, <2>1, <2>2, SoundFrameGoesOn
<1>5. CASE P > 0 /\ TooLong
    <2>1. DecodeError /\ UNCHANGED total
        BY <1>5 DEF Inflate
    <2> QED BY <1>2, <1>4, <1>5, <2>1, EndsHere
<1>6. CASE ~ (P > 0 /\ TooLong)
    <2>1. total' = total + P /\ (Proceed \/ (P > 0 /\ SendFails))
        BY <1>6 DEF Inflate
    <2>2. total + P <= entry.uncomp
        BY <1>1, <1>6 DEF TooLong
    <2>3. total' \in 0 .. entry.uncomp /\ total' <= Outputs
        BY <1>1, <2>1, <2>2
    <2>4. CASE SendFails
        <3>1. /\ response' \in Responses /\ response'.body = response.body /\ response'.end = "dropped"
              /\ response'.added = response.added /\ stage' = "over" /\ faulted' = TRUE
            BY <1>3, <2>4 DEF Responses, SendFails
        <3> QED BY <1>1, <1>2, <1>3, <2>3, <3>1, StopsKept
    <2>5. CASE Inflater.status = "done" /\ ~ TrailingInput /\ Verified /\ Close(Sent, "nothing")
        <3>1. total + P = entry.uncomp /\ Whole
            BY <2>5 DEF Verified, Whole
        <3>2. /\ stage' = "over" /\ response' \in Responses /\ faulted' \in BOOLEAN
              /\ response'.body = Sent.body /\ response'.added = "nothing"
            BY <1>3, <2>5, ClosedBy
        <3> QED BY <1>1, <1>2, <1>3, <2>2, <2>3, <3>1, <3>2, StopsKept
    <2>6. CASE /\ Close(Sent, ErrorAfter(Sent))
               /\ ~ (Inflater.status \in {"has more output", "needs more input"})
               /\ ~ (Inflater.status = "done" /\ ~ TrailingInput /\ Verified)
        <3>1. /\ stage' = "over" /\ response' \in Responses /\ faulted' \in BOOLEAN
              /\ response'.body = Sent.body /\ response'.added = ErrorAfter(Sent) /\ (faulted => faulted')
            BY <1>3, <2>6, ClosedBy, ErrorNamed
        <3>3. response'.added # "nothing" /\ (response'.added = "message" => response'.body = <<>>)
            BY <3>1, ErrorNamed
        <3>2. ~ (Intact /\ ~ StraddlesTheEnd /\ ~ faulted)
            BY <1>4, <2>6 DEF Intact, Verified
        <3> QED BY <1>1, <1>2, <1>3, <2>2, <2>3, <3>1, <3>2, <3>3, StopsKept
    <2>7. CASE /\ Inflater.status \in {"has more output", "needs more input"}
               /\ stage' = "refill" /\ response' = Sent /\ UNCHANGED faulted
        <3>1. Outputs' = Outputs /\ Intact' = Intact /\ StraddlesTheEnd' = StraddlesTheEnd /\ Whole' = Whole
            BY <1>2 DEF Outputs, Intact, StraddlesTheEnd, Whole
        <3>2. StreamTyped'
            BY <1>2, <1>3, <2>3, <2>7, <3>1 DEF StreamInv, StreamTyped, StoredTyped
        <3>3. HistoryKept'
            <4>1. \A d \in 1 .. RingSize : d <= total + P + entry.dict =>
                      RingAfter[(total + P - d) % RingSize] = total + P - d
                BY <1>2, RingAfterIsHistory
            <4>2. ring' = RingAfter /\ total' = total + P /\ entry' = entry
                BY <1>2, <2>1
            <4> HIDE DEF P
            <4> SUFFICES ASSUME NEW d \in 1 .. RingSize, d <= total' + entry'.dict
                         PROVE  ring'[(total' - d) % RingSize] = total' - d
                BY DEF HistoryKept
            <4>3. d <= total + P + entry.dict
                BY <4>2
            <4>4. RingAfter[(total + P - d) % RingSize] = total + P - d
                BY <4>1, <4>3
            <4>5. total' - d = total + P - d /\ total + P - d \in Int /\ RingSize \in Nat \ {0}
                BY <1>1, <4>2, Bounds
            <4> QED BY <4>2, <4>4, <4>5
        <3>4. BodyKept'
            <4>1. response'.body = Run(0, total') /\ response'.added = "nothing" /\ response'.end = "open"
                BY <1>3, <2>1, <2>7
            <4>2. total' \in Nat /\ total' <= entry'.uncomp /\ total' <= Outputs'
                BY <1>1, <1>2, <2>1, <2>2, <2>3, <3>1
            <4> QED BY <4>1, <4>2 DEF BodyKept
        <3>5. RefusalKept'
            BY <1>2, <1>3, <1>4, <2>7, <3>1 DEF RefusalKept, Unblamed
        <3> QED BY <2>7, <3>2, <3>3, <3>4, <3>5 DEF StreamInv, Started
    <2>8. Proceed =>
             \/ /\ Inflater.status \in {"has more output", "needs more input"}
                /\ stage' = "refill" /\ response' = Sent /\ UNCHANGED faulted
             \/ Inflater.status = "done" /\ ~ TrailingInput /\ Verified /\ Close(Sent, "nothing")
             \/ /\ Close(Sent, ErrorAfter(Sent))
                /\ ~ (Inflater.status \in {"has more output", "needs more input"})
                /\ ~ (Inflater.status = "done" /\ ~ TrailingInput /\ Verified)
        BY DEF Proceed
    <2> QED BY <2>1, <2>4, <2>5, <2>6, <2>7, <2>8
<1> QED BY <1>5, <1>6

LEMMA StreamInitial == ArticleInit => StreamInv
<1> SUFFICES ASSUME ArticleInit PROVE StreamInv
    OBVIOUS
<1>1. StoredTyped
    <2>1. stored \in Frames /\ \A i \in DOMAIN stored.symbol : stored.symbol[i] <= stored.ends
        BY DEF ArticleInit
    <2> DEFINE Symbols(n) == {t \in [1 .. n -> 1 .. MaxIn] : \A i \in 1 .. n - 1 : t[i] <= t[i + 1]}
               Damage(n) == {c \in [1 .. n -> {"right", "wrong", "invalid"}] :
                                \A i, j \in 1 .. n : c[i] # "right" /\ c[j] # "right" => i = j}
               Of(n) == {[symbol |-> s, byte |-> b, ends |-> e] : s \in Symbols(n), b \in Damage(n), e \in 1 .. MaxIn}
    <2>2. Frames = UNION {Of(n) : n \in 0 .. MaxOut}
        BY DEF Frames
    <2> HIDE DEF Of
    <2>3. PICK n \in 0 .. MaxOut : stored \in Of(n)
        BY <2>1, <2>2
    <2> HIDE DEF Symbols, Damage
    <2>4. PICK s \in Symbols(n), b \in Damage(n), e \in 1 .. MaxIn :
              stored = [symbol |-> s, byte |-> b, ends |-> e]
        BY <2>3 DEF Of
    <2>5. s \in [1 .. n -> 1 .. MaxIn] /\ b \in [1 .. n -> {"right", "wrong", "invalid"}]
        BY DEF Symbols, Damage
    <2>6. stored.symbol = s /\ stored.byte = b /\ stored.ends = e
        BY <2>4
    <2> QED BY <2>1, <2>6, <2>5 DEF StoredTyped
<1>2. RingSize \in Nat \ {0} /\ MaxOut \in Nat /\ Outputs \in 0 .. MaxOut
    BY <1>1, Bounds, StoredShape
<1>3. ring \in [0 .. RingSize - 1 -> - RingSize .. MaxOut]
    <2>1. MaxOut \in - RingSize .. MaxOut
        BY <1>2
    <2> QED BY <2>1 DEF ArticleInit, Stale
<1>4. Run(0, 0) = <<>> /\ <<>> \in Seq(Nat)
    <2>1. Run(0, 0) \in Seq(Nat) /\ Len(Run(0, 0)) = 0
        BY RunTyped
    <2> QED BY <2>1, EmptySeq
<1>5. response \in Responses /\ response.body = Run(0, 0) /\ response.added = "nothing" /\ response.end = "open"
    BY <1>4 DEF ArticleInit, Responses
<1>6. /\ entry \in [comp : 1 .. MaxIn, uncomp : 0 .. MaxOut, dict : 0 .. MaxOut]
      /\ entry.comp \in 1 .. MaxIn /\ entry.uncomp \in 0 .. MaxOut
      /\ stage = "open" /\ offered = 0 /\ absorbed = 0 /\ total = 0 /\ ~ faulted
    BY DEF ArticleInit
<1>7. entry.comp \in Nat /\ entry.comp > 0 /\ entry.uncomp \in Nat
    BY <1>6, Bounds
<1>8. StreamTyped
    <2>1. offered \in 0 .. entry.comp /\ absorbed \in 0 .. offered /\ total \in 0 .. entry.uncomp /\ total <= Outputs
        BY <1>2, <1>6, <1>7
    <2> QED BY <1>1, <1>3, <1>5, <1>6, <2>1 DEF StreamTyped, ArticleInit
<1>9. BodyKept
    <2>1. total \in Nat /\ total <= entry.uncomp /\ total <= Outputs
        BY <1>2, <1>6, <1>7
    <2> QED BY <1>5, <1>6, <2>1 DEF BodyKept
<1>10. RefusalKept
    BY <1>5, <1>6, <1>7 DEF RefusalKept
<1> QED BY <1>6, <1>8, <1>9, <1>10 DEF StreamInv, Started, HistoryKept

LEMMA StreamsKept == StreamInv /\ [ArticleNext]_articleVars => StreamInv'
<1> SUFFICES ASSUME StreamInv, [ArticleNext]_articleVars PROVE StreamInv'
    OBVIOUS
<1>1. CASE UNCHANGED articleVars
    BY <1>1 DEF StreamInv, StreamTyped, StoredTyped, Started, HistoryKept, BodyKept, RefusalKept,
                Unblamed, Whole, Intact, StraddlesTheEnd, Outputs, articleVars
<1> QED BY <1>1, OpenResponseKept, LoadDictionaryKept, RefillKept, InflateKept DEF ArticleNext

LEMMA StreamInvHolds == ArticleSpec => []StreamInv
BY StreamInitial, StreamsKept, PTL DEF ArticleSpec

(* A back-reference finds the byte it means: whatever the sizes of the     *)
(* ring and of the blocks, and however a frame splits its symbols, the     *)
(* ring is the end of the dictionary followed by the output                *)
(* (docs/ARCHIVE_FORMAT.md:25-28).                                         *)
THEOREM RingHoldsHistory == ArticleSpec => []RingIsHistory
<1>1. StreamInv => RingIsHistory
    <2> SUFFICES ASSUME StreamInv, stage \in {"refill", "inflate"},
                        NEW d \in 1 .. Min({RingSize, total + entry.dict})
                 PROVE  ring[(total - d) % RingSize] = total - d
        BY DEF RingIsHistory
    <2>1. RingSize \in Nat /\ total + entry.dict \in Nat
        BY StreamNumbers DEF StreamInv
    <2>2. Min({RingSize, total + entry.dict}) \in {RingSize, total + entry.dict}
          /\ Min({RingSize, total + entry.dict}) <= RingSize
          /\ Min({RingSize, total + entry.dict}) <= total + entry.dict
        BY <2>1, LesserOfTwo
    <2> DEFINE least == Min({RingSize, total + entry.dict})
    <2>3. d \in 1 .. least /\ least \in Nat /\ least <= RingSize /\ least <= total + entry.dict
        BY <2>1, <2>2
    <2> HIDE DEF least
    <2>4. d \in 1 .. RingSize /\ d <= total + entry.dict
        BY <2>1, <2>3
    <2> QED BY <2>4 DEF StreamInv, HistoryKept
<1> QED BY <1>1, StreamInvHolds, PTL

(* What the handler vouches for: text is sent in order and never beyond    *)
(* what the entry declares, its ordinary ending is that of an article      *)
(* whose length and bytes were verified, a message of failure stands       *)
(* alone, and of the intact frames only those with a byte just past a      *)
(* multiple of the ring that needs the last byte of input are refused or   *)
(* broken off (web_server.c:590-723), for every frame, entry, ring and     *)
(* block size.  That a browser could tell a broken page from a whole one   *)
(* is not part of it, and is false: PageIsArticle.                         *)
THEOREM AnswersAreTrue == ArticleSpec => []ArticleAnswered
<1>1. StreamInv => ArticleAnswered
    <2> SUFFICES ASSUME StreamInv PROVE EndedIsVerified /\ OnlyStraddlersRefused
        BY DEF ArticleAnswered
    <2>1. PICK m \in Nat : m <= entry.uncomp /\ response.body = Run(0, m)
        BY DEF StreamInv, BodyKept
    <2>2. entry.uncomp \in Nat
        BY StreamNumbers DEF StreamInv
    <2>3. Len(response.body) <= entry.uncomp
        BY <2>1, RunTyped
    <2>4. \A i \in DOMAIN response.body : response.body[i] = i - 1
        BY <2>1 DEF Run
    <2>5. Len(Run(0, entry.uncomp)) = entry.uncomp
        BY <2>2, RunTyped
    <2>6. EndedIsVerified
        BY <2>3, <2>4, <2>5 DEF StreamInv, BodyKept, Whole, EndedIsVerified
    <2>7. OnlyStraddlersRefused
        BY DEF StreamInv, RefusalKept, Unblamed, OnlyStraddlersRefused
    <2> QED BY <2>6, <2>7
<1> QED BY <1>1, StreamInvHolds, PTL

------------------------------------------------------------------------------
(* Types. *)

LEMMA RunInside ==
    ASSUME NEW from \in Nat, NEW n \in Int, NEW top \in Int, from + n <= top + 1
    PROVE  Run(from, n) \in Seq(0 .. top)
<1>1. CASE n \in Nat
    <2>1. \A i \in 1 .. n : from + i - 1 \in 0 .. top
        BY <1>1
    <2> QED BY <1>1, <2>1 DEF Run
<1>2. CASE n \notin Nat
    <2>1. 1 .. n = 1 .. 0
        BY <1>2
    <2>2. Run(from, n) \in [1 .. 0 -> 0 .. top]
        BY <2>1 DEF Run
    <2> QED BY <1>2, <2>2, SeqDef
<1> QED BY <1>1, <1>2

(* The variables of a transfer keep their types: the locals of             *)
(* serve_article() and stream_article_deflate(), the ring and the response.*)
THEOREM ArticleTypeCorrect == ArticleSpec => []ArticleTypeOK
<1>1. StreamInv => ArticleTypeOK
    <2> SUFFICES ASSUME StreamInv PROVE ArticleTypeOK
        OBVIOUS
    <2>1. /\ Outputs \in 0 .. MaxOut /\ stored.symbol \in Seq(1 .. MaxIn) /\ DOMAIN stored.symbol = 1 .. Outputs
          /\ stored.byte \in [1 .. Outputs -> {"right", "wrong", "invalid"}]
        BY StoredShape DEF StreamInv, StreamTyped
    <2>2. /\ stored.byte \in [DOMAIN stored.symbol -> {"right", "wrong", "invalid"}]
          /\ Len(stored.symbol) <= MaxOut
        BY <2>1, Bounds DEF Outputs
    <2>3. response.body \in Seq(0 .. MaxOut)
        <3>1. PICK m \in Nat : m <= entry.uncomp /\ response.body = Run(0, m)
            BY DEF StreamInv, BodyKept
        <3>2. entry.uncomp \in 0 .. MaxOut /\ MaxOut \in Nat
            BY StreamNumbers, Bounds DEF StreamInv
        <3>3. 0 \in Nat /\ m \in Int /\ MaxOut \in Int /\ 0 + m <= MaxOut + 1
            BY <3>1, <3>2
        <3>4. Run(0, m) \in Seq(0 .. MaxOut)
            BY <3>3, RunInside
        <3> QED BY <3>1, <3>4
    <2>4. response \in [caching : {"none", "a day", "no-store"}, body : Seq(0 .. MaxOut), added : {"nothing", "message", "tags"},
                        end : {"open", "terminated", "dropped"}]
        BY <2>3 DEF StreamInv, StreamTyped, Responses
    <2> QED BY <2>1, <2>2, <2>4 DEF StreamInv, StreamTyped, StoredTyped, ArticleTypeOK
<1> QED BY <1>1, StreamInvHolds, PTL

(* What the routes keep besides the links: the archive that is open is one *)
(* of the libraries, and pages list articles that exist.                   *)
RoutesTyped ==
    /\ opened \in Names
    /\ \A v \in Visitors : scroll[v].seen \in Seq(0 .. MaxArticles - 1)
    /\ changes \in 0 .. MaxChanges

LEMMA ListedInside ==
    ASSUME NEW off \in Nat, NEW size \in 0 .. MaxArticles
    PROVE  Listed(off, size) \in Seq(0 .. MaxArticles - 1)
<1> DEFINE end == PageEnd(off, size)
<1>1. end \in Nat /\ end <= size /\ Listed(off, size) = Run(off, end - off) /\ MaxArticles \in Nat
    BY PageEndsInside, ReaderAssumption
<1> HIDE DEF end
<1>2. end - off \in Int /\ off + (end - off) <= (MaxArticles - 1) + 1 /\ MaxArticles - 1 \in Int
    BY <1>1
<1>3. Run(off, end - off) \in Seq(0 .. MaxArticles - 1)
    BY <1>2, RunInside
<1> QED BY <1>1, <1>3

LEMMA RoutesTypedInitial == ReaderInit => RoutesTyped
<1> SUFFICES ASSUME ReaderInit PROVE RoutesTyped
    OBVIOUS
<1>1. NoScroll.seen = <<>> /\ <<>> \in Seq(0 .. MaxArticles - 1)
    BY EmptySeq DEF NoScroll
<1>2. \A v \in Visitors : scroll[v] = NoScroll
    BY DEF ReaderInit
<1>3. opened \in Names /\ changes \in 0 .. MaxChanges
    BY ReaderAssumption DEF ReaderInit
<1> QED BY <1>1, <1>2, <1>3 DEF RoutesTyped

LEMMA RoutesTypedKept == LinksInv /\ ScrollInv /\ RoutesTyped /\ [ReaderNext]_readerVars => RoutesTyped'
<1> SUFFICES ASSUME LinksInv, ScrollInv, RoutesTyped, [ReaderNext]_readerVars PROVE RoutesTyped'
    OBVIOUS
<1>1. /\ opened \in Names /\ Builtin \in Names /\ NoName \notin Names /\ changes \in 0 .. MaxChanges
      /\ MaxChanges \in Nat /\ scroll \in [Visitors -> Scrolls]
      /\ \A v \in Visitors : scroll[v].seen \in Seq(0 .. MaxArticles - 1)
    BY ReaderAssumption DEF RoutesTyped, ScrollInv
<1>2. ASSUME opened' \in Names, scroll' = scroll, changes' = changes PROVE RoutesTyped'
    BY <1>1, <1>2 DEF RoutesTyped
<1>3. CASE UNCHANGED readerVars
    BY <1>1, <1>2, <1>3 DEF readerVars
<1>4. CASE OthersRead
    BY <1>1, <1>2, <1>4 DEF OthersRead
<1>5. ASSUME NEW v \in Visitors, NEW url \in Urls, NEW referer, ReadingRoute(v, url, referer)
      PROVE  opened' \in Names
    BY <1>1, <1>5 DEF ReadingRoute, SelectLibrary, Opens, Unreadable, Urls
<1>6. ASSUME NEW v \in Visitors, FollowRedirect(v) PROVE RoutesTyped'
    BY <1>2, <1>5, <1>6 DEF FollowRedirect, LinksInv, LinksTyped
<1>7. ASSUME NEW v \in Visitors, FollowPackedLink(v) PROVE RoutesTyped'
    <2>1. PICK long \in BOOLEAN, tells \in BOOLEAN :
              ReadingRoute(v, [pack |-> NoName, long |-> long], IF tells THEN RefererPack(tab[v]) ELSE NoName)
        BY <1>7 DEF FollowPackedLink
    <2>2. [pack |-> NoName, long |-> long] \in Urls
        BY DEF Urls
    <2>3. opened' \in Names
        BY <1>5, <2>1, <2>2
    <2> QED BY <1>2, <1>7, <2>3 DEF FollowPackedLink
<1>8. ASSUME NEW v \in Visitors, NEW s \in Scrolls, s.seen \in Seq(0 .. MaxArticles - 1),
             opened' \in Names, scroll' = [scroll EXCEPT ![v] = s], changes' = changes
      PROVE  RoutesTyped'
    <2>1. scroll'[v] = s /\ \A w \in Visitors \ {v} : scroll'[w] = scroll[w]
        BY <1>1, <1>8
    <2>2. ASSUME NEW w \in Visitors PROVE scroll'[w].seen \in Seq(0 .. MaxArticles - 1)
        BY <1>1, <1>8, <2>1
    <2> QED BY <1>1, <1>8, <2>2 DEF RoutesTyped
<1>9. ASSUME NEW v \in Visitors, FollowNamedLink(v) PROVE RoutesTyped'
    <2>1. PICK n \in Names, long \in BOOLEAN : ReadingRoute(v, [pack |-> n, long |-> long], NoName)
        BY <1>9 DEF FollowNamedLink
    <2>2. [pack |-> n, long |-> long] \in Urls
        BY DEF Urls
    <2>3. opened' \in Names
        BY <1>5, <2>1, <2>2
    <2>4. NoScroll.seen = <<>> /\ <<>> \in Seq(0 .. MaxArticles - 1)
        BY EmptySeq DEF NoScroll
    <2> QED BY <1>8, <1>9, <2>3, <2>4, BlankScroll DEF FollowNamedLink
<1>10. ASSUME NEW v \in Visitors, BrowseOpens(v) PROVE RoutesTyped'
    <2>1. PICK n \in Names, off \in 0 .. OffsetSpace - 1 :
            /\ opened' = n
            /\ scroll' = [scroll EXCEPT ![v] =
                [pack |-> n, from |-> off, off |-> PageEnd(off, Size(n)), total |-> Size(n),
                 seen |-> Listed(off, Size(n)),
                 watching |-> PageEnd(off, Size(n)) < Size(n), clean |-> TRUE]]
        BY <1>10 DEF BrowseOpens, Opens
    <2> DEFINE size == Size(n)
               listed == Listed(off, size)
               end == PageEnd(off, size)
               s == [pack |-> n, from |-> off, off |-> end, total |-> size, seen |-> listed,
                     watching |-> end < size, clean |-> TRUE]
    <2>2. size \in 0 .. MaxArticles /\ size \in Nat /\ off \in Nat
        BY SizeTyped, ReaderAssumption
    <2>3. listed \in Seq(0 .. MaxArticles - 1) /\ listed \in Seq(Nat) /\ end \in Nat
        BY <2>2, ListedInside, PageEndsInside
    <2>4. scroll' = [scroll EXCEPT ![v] = s] /\ changes' = changes
        BY <1>10, <2>1 DEF BrowseOpens
    <2> HIDE DEF size, listed, end
    <2>5. s \in Scrolls /\ s.seen = listed
        BY <2>2, <2>3 DEF Scrolls
    <2> HIDE DEF s
    <2> QED BY <1>8, <2>1, <2>3, <2>4, <2>5
<1>11. ASSUME NEW v \in Visitors, BrowseMore(v) \/ BrowseLost(v) PROVE RoutesTyped'
    <2> DEFINE o == scroll[v]
               listed == Listed(o.off, Size(o.pack))
    <2>1. o.watching /\ o \in Scrolls /\ o.pack \in Names /\ changes' = changes
        BY <1>1, <1>11 DEF BrowseMore, BrowseLost, ScrollInv, ScrollKept, Scrolls
    <2>2. listed \in Seq(0 .. MaxArticles - 1)
        BY <2>1, SizeTyped, ListedInside DEF Scrolls
    <2>3. opened' \in Names
        BY <1>1, <1>11, <2>1 DEF BrowseMore, BrowseLost, Opens, Unreadable
    <2>4. scroll'[v].seen \in {o.seen, o.seen \o listed} /\ \A w \in Visitors \ {v} : scroll'[w] = scroll[w]
        BY <1>1, <1>11, <2>1 DEF BrowseMore, BrowseLost, Scrolls
    <2>5. scroll'[v].seen \in Seq(0 .. MaxArticles - 1)
        <3> DEFINE S == 0 .. MaxArticles - 1
        <3>1. o.seen \in Seq(S) /\ listed \in Seq(S)
            BY <1>1, <2>2
        <3> HIDE DEF S, o, listed
        <3>2. o.seen \o listed \in Seq(S)
            BY <3>1, ConcatProperties
        <3> QED BY <2>4, <3>1, <3>2 DEF S
    <2>6. \A w \in Visitors : scroll'[w].seen \in Seq(0 .. MaxArticles - 1)
        BY <1>1, <2>4, <2>5
    <2> QED BY <1>1, <2>1, <2>3, <2>6 DEF RoutesTyped
<1>12. CASE LibraryChanges
    <2>1. PICK n \in Names : scroll' = [v \in Visitors |-> [scroll[v] EXCEPT !.clean = @ /\ scroll[v].pack # n]]
        BY <1>12 DEF LibraryChanges
    <2>2. ASSUME NEW v \in Visitors PROVE scroll'[v].seen = scroll[v].seen
        BY <1>1, <2>1 DEF Scrolls
    <2>3. opened' \in Names
        BY <1>1, <1>12 DEF LibraryChanges
    <2>4. changes' \in 0 .. MaxChanges
        BY <1>1, <1>12 DEF LibraryChanges
    <2> QED BY <1>1, <2>2, <2>3, <2>4 DEF RoutesTyped
<1> QED BY <1>3, <1>4, <1>6, <1>7, <1>9, <1>10, <1>11, <1>12 DEF ReaderNext

(* The variables of the routes keep their types: the archive that is open  *)
(* is always one of the libraries, and what a browser shows is an article  *)
(* that exists (web_server.c).                                             *)
THEOREM ReaderTypeCorrect == ReaderSpec => []ReaderTypeOK
<1>1. LinksInv /\ ScrollInv /\ RoutesTyped => ReaderTypeOK
    BY DEF LinksInv, LinksTyped, Pages, ScrollInv, RoutesTyped, ReaderTypeOK
<1> QED BY LinksInitial, LinksKept, ScrollInitial, ScrollsKept, RoutesTypedInitial, RoutesTypedKept, <1>1, PTL
        DEF ReaderSpec

------------------------------------------------------------------------------
(* The symbol: its size. *)

LEMMA FitsByRoom ==
    ASSUME NEW n \in Nat
    PROVE  \A v \in 1 .. 6 : n <= s_capacity[v] <=> s_data_cw[v] >= n + 2
BY DEF s_capacity, s_data_cw

LEMMA FittingIs ==
    ASSUME NEW text, Len(text) \in Nat
    PROVE  /\ Fitting(text) = {v \in 1 .. 6 : s_data_cw[v] >= Len(text) + 2}
           /\ Fitting(text) = {} <=> Len(text) > 134
<1>1. Fitting(text) = {v \in 1 .. 6 : s_data_cw[v] >= Len(text) + 2}
    BY FitsByRoom DEF Fitting, Versions6
<1>2. ASSUME Len(text) <= 134 PROVE 6 \in Fitting(text)
    BY <1>2 DEF Fitting, Versions6, s_capacity
<1>3. ASSUME Len(text) > 134, NEW v \in 1 .. 6 PROVE v \notin Fitting(text)
    <2>1. s_capacity[v] <= 134
        BY DEF s_capacity
    <2>2. s_capacity[v] \in Nat
        BY DEF s_capacity
    <2> QED BY <1>3, <2>1, <2>2 DEF Fitting
<1>4. Fitting(text) \subseteq 1 .. 6
    BY DEF Fitting, Versions6
<1> QED BY <1>1, <1>2, <1>3, <1>4

LEMMA EncodedInSmallest ==
    ASSUME NEW text, Len(text) \in Nat
    PROVE  LET s == qr_encode(text)
           IN  /\ s = TooLongToDraw <=> Len(text) > 134
               /\ s # TooLongToDraw => s.size = Side(SmallestFor(Len(text)))
<1>1. CASE Fitting(text) = {}
    BY <1>1, FittingIs DEF qr_encode
<1>2. CASE Fitting(text) # {}
    <2>1. PICK dark : qr_encode(text) = [size |-> Side(Min(Fitting(text))), dark |-> dark]
        BY <1>2, Zenon DEF qr_encode
    <2>2. Min(Fitting(text)) \in 1 .. 6
        BY <1>2, FittingIs, LeastIsMin
    <2>3. qr_encode(text).size = Side(Min(Fitting(text))) /\ Side(Min(Fitting(text))) # 0
        BY <2>1, <2>2 DEF Side
    <2>4. qr_encode(text) # TooLongToDraw
        BY <2>3 DEF TooLongToDraw
    <2>5. Min(Fitting(text)) = SmallestFor(Len(text))
        BY FittingIs, Zenon DEF SmallestFor, Versions6
    <2> QED BY <1>2, <2>3, <2>4, <2>5, FittingIs
<1> QED BY <1>1, <1>2

(* Every text of up to 134 bytes is drawn, in the smallest symbol with     *)
(* room for it, and only a longer one is refused (qr_code.c:341-353).      *)
THEOREM SymbolsAreSmallest == QrSpec => []SmallestDrawn
<1> DEFINE I == SmallestDrawn /\ (payload = NoText \/ payload \in Payloads)
<1>1. QrInit => I
    BY DEF QrInit, SmallestDrawn
<1>2. I /\ [QrNext]_qrVars => I'
    <2> SUFFICES ASSUME I, [QrNext]_qrVars PROVE I'
        OBVIOUS
    <2>1. CASE Encode
        <3>1. payload' = payload
            BY <2>1 DEF Encode
        <3>2. ASSUME payload # NoText PROVE Len(payload) \in Nat /\ symbol' = qr_encode(payload)
            BY <2>1, <3>2, QrAssumption DEF Encode
        <3> QED BY <3>1, <3>2, EncodedInSmallest DEF SmallestDrawn
    <2>2. CASE UNCHANGED qrVars
        BY <2>2 DEF qrVars, SmallestDrawn
    <2> QED BY <2>1, <2>2 DEF QrNext
<1>3. I => SmallestDrawn
    OBVIOUS
<1> QED BY <1>1, <1>2, <1>3, PTL DEF QrSpec
===============================================================================
