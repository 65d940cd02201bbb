----------------------------- MODULE MCPackStore -----------------------------
(***************************************************************************)
(* What the volume keeps, for TLC, one part at a time: the packs           *)
(* (PackStore) and what a pass over the catalogue document reads           *)
(* (CatalogIndex).  The part that is not chosen stands still in one state. *)
(***************************************************************************)
EXTENDS PackStore, CatalogIndex, TLC

CONSTANTS guide, Guide, alpha, beta,   \* pack names; guide is the built-in's
          g, a, b,                     \* their directory entries
          Subjects                     \* the parts

VARIABLE subject    \* the part this behaviour is about

parts == <<vars, indexVars, subject>>

MCStem == (guide :> g) @@ (Guide :> g) @@ (alpha :> a) @@ (beta :> b)
MCStemSmall == (guide :> g) @@ (Guide :> g) @@ (alpha :> a)

(* Two packs of a catalogue, and entries the device cannot install from:   *)
(* without an id or a url, with a text that fits no buffer or a size that  *)
(* is no number; then values of other kinds, nested ones, and keys it does *)
(* not know.                                                               *)
Good(id, n) == <<Number("bytes", 3), Text("id", id), Text("name", n), Text("sha256", "s"), Text("url", "u")>>
MCEntries ==
    {Good("a", "A"), Good("b", "B"), Good("b", ""), Good("a", Long),
     Tail(Good("a", "A")), SubSeq(Good("b", "B"), 1, 4),
     <<Number("bytes", MaxNumber + 1)>> \o Tail(Good("b", "B")),
     <<Nested("extra", <<Text("other", "x"), Number("more", 2)>>)>> \o Good("b", "B"),
     Good("b", "B") \o <<Number("id", 2), Text("bytes", "x")>>,
     <<Nested("extra", <<Number("more", MaxNumber + 1)>>)>> \o Good("b", "B"),
     <<Nested("extra", <<Text("id", "c")>>)>> \o Good("a", "A"),
     <<Text(Long, "x")>> \o Good("a", "A")}

(* Where each part rests. *)
StoreStill == Init /\ files = [p \in Paths |-> NoFile] /\ flash = Flash /\ ~ guideMarker
ScanStill ==
    /\ document = [schema |-> 1, headerFirst |-> TRUE, packs |-> <<>>]
    /\ pass = [asks |-> "header", ids |-> {}]
    /\ IndexInit

MCInit ==
    /\ subject \in Subjects
    /\ IF subject = "store" THEN Init ELSE StoreStill
    /\ IF subject = "scan" THEN IndexInit ELSE ScanStill

MCNext ==
    /\ UNCHANGED subject
    /\ \/ subject = "store" /\ Next /\ UNCHANGED indexVars
       \/ subject = "scan" /\ IndexNext /\ UNCHANGED vars
       \/ subject = "scan" /\ reply.answered /\ UNCHANGED parts    \* the pass is over

MCSpec == MCInit /\ [][MCNext]_parts

(* Every variable keeps its type: the pack store (pack_store.c) and the    *)
(* scanner (catalog_index.c).                                              *)
TypesOK == TypeOK /\ IndexTypeOK
==============================================================================
