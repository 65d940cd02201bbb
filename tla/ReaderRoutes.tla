----------------------------- MODULE ReaderRoutes -----------------------------
(***************************************************************************)
(* The reading routes of web_server.c and the browsers on the other side.  *)
(* One archive is open at a time, and every visitor's request moves it: a  *)
(* reading URL therefore names its library, and one that does not is       *)
(* redirected to the library of the page it was followed from.  A handler  *)
(* runs with the archive lock held, so a request is one step; between a    *)
(* redirect and the request that follows it anything may happen.           *)
(***************************************************************************)
EXTENDS Integers, Sequences

CONSTANTS
    Visitors,     \* browsers, one tab each; there are always others
    Names,        \* library names, the built-in one included
    Builtin,      \* PW_BUILTIN_PACK_NAME
    MaxArticles,  \* bound: articles in a library
    PageSize,     \* PW_BROWSE_PAGE_SIZE
    OffsetSpace,  \* 2^32
    MaxChanges    \* bound: packs installed, replaced or removed

NoName == "none"

ASSUME ReaderAssumption ==
    /\ Builtin \in Names /\ NoName \notin Names
    /\ MaxArticles \in Nat \ {0} /\ PageSize \in Nat \ {0}
    /\ OffsetSpace \in Nat /\ OffsetSpace > MaxArticles + PageSize
    /\ MaxChanges \in Nat

VARIABLES
    installed,    \* articles in each pack file, 0 where there is none
    opened,       \* s_active_name
    tab,          \* what each browser shows
    redirect,     \* the URL a browser was just sent to, or none
    meant,        \* the library the visitor's last link was on
    scroll,       \* the browse page of each visitor
    changes       \* how often the library has changed

readerVars == <<installed, opened, tab, redirect, meant, scroll, changes>>

Urls == [pack : Names \cup {NoName}, long : BOOLEAN]
NoUrl == [pack |-> NoName, long |-> FALSE]
Blank == [shows |-> "nothing", library |-> NoName, url |-> NoUrl]
NoScroll == [pack |-> NoName, from |-> 0, off |-> 0, total |-> 0, seen |-> <<>>,
             watching |-> FALSE, clean |-> TRUE]

ReaderTypeOK ==
    /\ installed \in [Names -> 0 .. MaxArticles]
    /\ opened \in Names
    /\ tab \in [Visitors -> [shows : {"nothing", "article", "error"},
                             library : Names \cup {NoName}, url : Urls]]
    /\ redirect \in [Visitors -> Urls]
    /\ meant \in [Visitors -> Names \cup {NoName}]
    /\ \A v \in Visitors : scroll[v].seen \in Seq(0 .. MaxArticles - 1)
    /\ changes \in 0 .. MaxChanges

------------------------------------------------------------------------------
(* pack_store_open_for_read(): an installed file wins, flash is the        *)
(* fallback for the built-in library; a failure leaves the archive.        *)

Present(n) == n = Builtin \/ installed[n] > 0
Size(n) == IF installed[n] > 0 THEN installed[n] ELSE MaxArticles

(* A file may also fail to load. *)
Opens(n) == Present(n) /\ opened' = n
Unreadable(n) == (installed[n] > 0 \/ ~ Present(n)) /\ n # Builtin /\ UNCHANGED opened

Show(v, what, library, url) ==
    tab' = [tab EXCEPT ![v] = [shows |-> what, library |-> library, url |-> url]]

------------------------------------------------------------------------------
(* /a/<id>, /download/<id> and /title/<title>.                             *)

(* referer_pack(): a page of another kind, a Referer the browser keeps to  *)
(* itself and one of 256 bytes or more tell nothing.                       *)
RefererPack(page) == IF page.shows = "article" /\ ~ page.url.long THEN page.url.pack ELSE NoName

(* redirect_to_canonical() *)
CanonicalUrl(url, pack) ==
    [url EXCEPT !.pack = IF pack = NoName THEN Builtin ELSE pack]
NeverRedirects(url) == FALSE                \* the open archive answers
NeedsCanonical(url) == url.pack = NoName

(* select_requested_library(); without a name, the archive that is open.   *)
SelectLibrary(url) == IF url.pack = NoName THEN UNCHANGED opened ELSE Opens(url.pack)

ReadingRoute(v, url, referer) ==
    \/ /\ NeedsCanonical(url)
       /\ redirect' = [redirect EXCEPT ![v] = CanonicalUrl(url, referer)]
       /\ UNCHANGED <<opened, tab>>
    \/ /\ ~ NeedsCanonical(url)
       /\ redirect' = [redirect EXCEPT ![v] = NoUrl]
       /\ \/ /\ SelectLibrary(url)
             /\ \E found \in BOOLEAN :
                   Show(v, IF found THEN "article" ELSE "error", opened', url)
          \/ /\ url.pack # NoName
             /\ Unreadable(url.pack)
             /\ Show(v, "error", NoName, url)

(* The browser follows the redirect. *)
FollowRedirect(v) ==
    /\ redirect[v] # NoUrl
    /\ ReadingRoute(v, redirect[v], NoName)
    /\ UNCHANGED <<installed, meant, scroll, changes>>

(* A link inside an article: packed articles do not know their pack. The   *)
(* browser may keep the Referer; then the visitor can only mean the        *)
(* built-in library.                                                       *)
FollowPackedLink(v) ==
    /\ redirect[v] = NoUrl
    /\ tab[v].shows = "article"
    /\ \E long, tells \in BOOLEAN :
          /\ meant' = [meant EXCEPT ![v] =
                          IF tells /\ ~ tab[v].url.long THEN tab[v].library ELSE Builtin]
          /\ ReadingRoute(v, [pack |-> NoName, long |-> long],
                          IF tells THEN RefererPack(tab[v]) ELSE NoName)
    /\ UNCHANGED <<installed, scroll, changes>>

(* A link of the shelf, of a search or of a browse page names the pack, as *)
(* a bookmark does.                                                        *)
FollowNamedLink(v) ==
    /\ redirect[v] = NoUrl
    /\ \E n \in Names, long \in BOOLEAN :
          /\ meant' = [meant EXCEPT ![v] = n]
          /\ ReadingRoute(v, [pack |-> n, long |-> long], NoName)
    /\ scroll' = [scroll EXCEPT ![v] = NoScroll]
    /\ UNCHANGED <<installed, changes>>

------------------------------------------------------------------------------

(* Everybody else: handle_root() and handle_search() visit every library   *)
(* and open the built-in one at the end, which may fail; reading and       *)
(* browsing leave the library they name open.                              *)
OthersRead ==
    /\ \E last \in {n \in Names : Present(n)} : opened' = last
    /\ UNCHANGED <<installed, tab, redirect, meant, scroll, changes>>

------------------------------------------------------------------------------
(* /browse and the script it sends with its first page.                    *)

PageEnd(off, total) ==
    LET end == (off + PageSize) % OffsetSpace IN IF end > total THEN total ELSE end
Listed(off, total) == [i \in 1 .. PageEnd(off, total) - off |-> off + i - 1]

(* The first page: everything from the offset, and a sentinel to scroll to *)
(* while there is more.                                                    *)
BrowseOpens(v) ==
    /\ redirect[v] = NoUrl
    /\ \E n \in Names, off \in 0 .. OffsetSpace - 1 :
          /\ Opens(n)
          /\ scroll' = [scroll EXCEPT ![v] =
                [pack |-> n, from |-> off, off |-> PageEnd(off, Size(n)), total |-> Size(n),
                 seen |-> Listed(off, Size(n)),
                 watching |-> PageEnd(off, Size(n)) < Size(n), clean |-> TRUE]]
    /\ tab' = [tab EXCEPT ![v] = Blank]
    /\ meant' = [meant EXCEPT ![v] = NoName]
    /\ UNCHANGED <<installed, redirect, changes>>

(* The sentinel comes into view: the next page is fetched, appended even   *)
(* when it is empty, and the sentinel is watched again while the script's  *)
(* own count says so.                                                      *)
AfterLast(off) == off + PageSize + 1
NextOffset(off) == off + PageSize
BrowseMore(v) ==
    LET s == scroll[v]
    IN  /\ s.watching
        /\ \/ /\ Opens(s.pack)
              /\ scroll' = [scroll EXCEPT ![v] =
                    [s EXCEPT !.seen = @ \o Listed(s.off, Size(s.pack)),
                              !.off = NextOffset(@),
                              !.watching = NextOffset(s.off) < s.total]]
           \/ /\ Unreadable(s.pack)
              /\ scroll' = [scroll EXCEPT ![v] =
                    [s EXCEPT !.off = NextOffset(@), !.watching = NextOffset(s.off) < s.total,
                              !.clean = FALSE]]
        /\ UNCHANGED <<installed, tab, redirect, meant, changes>>

(* The fetch fails: nothing watches the sentinel any more. *)
BrowseLost(v) ==
    /\ scroll[v].watching
    /\ scroll' = [scroll EXCEPT ![v].watching = FALSE, ![v].clean = FALSE]
    /\ UNCHANGED <<installed, opened, tab, redirect, meant, changes>>

------------------------------------------------------------------------------

(* A pack is installed, replaced or removed; one that is open is closed,   *)
(* and the built-in library opened (release_pack_file()).                  *)
LibraryChanges ==
    /\ changes < MaxChanges
    /\ changes' = changes + 1
    /\ \E n \in Names, size \in 0 .. MaxArticles :
          /\ size # installed[n]
          /\ installed' = [installed EXCEPT ![n] = size]
          /\ opened' = IF opened = n THEN Builtin ELSE opened
          /\ scroll' = [v \in Visitors |->
                           [scroll[v] EXCEPT !.clean = @ /\ scroll[v].pack # n]]
    /\ UNCHANGED <<tab, redirect, meant>>

ReaderInit ==
    /\ installed \in [Names -> 0 .. MaxArticles]
    /\ opened = Builtin
    /\ tab = [v \in Visitors |-> Blank]
    /\ redirect = [v \in Visitors |-> NoUrl]
    /\ meant = [v \in Visitors |-> NoName]
    /\ scroll = [v \in Visitors |-> NoScroll]
    /\ changes = 0

ReaderNext ==
    \/ LibraryChanges
    \/ OthersRead
    \/ \E v \in Visitors :
          \/ FollowRedirect(v) \/ FollowPackedLink(v) \/ FollowNamedLink(v)
          \/ BrowseOpens(v) \/ BrowseMore(v) \/ BrowseLost(v)

ReaderSpec == ReaderInit /\ [][ReaderNext]_readerVars

------------------------------------------------------------------------------

(* A reader stays in the library: whatever the other visitors open in the  *)
(* meantime, a link leads to an article of the library whose page it is    *)
(* on, or to an error, as long as the browser can say which page that is   *)
(* (docs/ARCHITECTURE.md:78-84).                                           *)
LinksStayInLibrary ==
    \A v \in Visitors :
        tab[v].shows = "article" /\ redirect[v] = NoUrl => tab[v].library = meant[v]

(* Scrolling to the end of a library that does not change shows every      *)
(* article from where it began exactly once and in order, whatever others  *)
(* read between two pages (web_server.c:2146-2271).                        *)
BrowseShowsEachOnce ==
    \A v \in Visitors :
        LET s == scroll[v]
        IN  s.pack # NoName /\ s.clean /\ ~ s.watching /\ s.from <= s.total =>
                s.seen = [i \in 1 .. s.total - s.from |-> s.from + i - 1]
==============================================================================
