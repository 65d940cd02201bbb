------------------------------ MODULE UploadSlot ------------------------------
(***************************************************************************)
(* What the two ways of uploading a pack, the web server's and the BLE     *)
(* service's, promise together.  An upload that began while no other was   *)
(* going on ends by installing its client's whole pack under the name it   *)
(* was begun with, or not at all, and none can join it but a web upload    *)
(* under a BLE session.  Uploads that do overlap share one staging file:   *)
(* what they install may be either client's or a mixture, and a pack       *)
(* installed under a session stays exposed to its writes until it ends.    *)
(* Nothing else adds to the library or changes a pack, and only a removal  *)
(* takes from it.                                                          *)
(***************************************************************************)

CONSTANTS
    Names,       \* pack names
    Clients,     \* who uploads
    Old,         \* a pack that was there at boot
    Mixture,     \* no client's whole pack
    Nothing      \* no pack

VARIABLES
    library,     \* whose pack is installed under each name
    uploads,     \* the uploads in progress: their clients and names
    contended,   \* the last upload to begin found another in progress
    exposed      \* names whose pack an upload in progress still writes into

svars == <<library, uploads, contended, exposed>>

Init ==
    /\ library \in [Names -> {Old, Nothing}]
    /\ uploads = {}
    /\ contended = FALSE
    /\ exposed = {}

Begin(n, c) ==
    /\ \A u \in uploads : u.by # c
    /\ uploads' = uploads \cup {[name |-> n, by |-> c]}
    /\ contended' = (uploads # {})
    /\ UNCHANGED <<library, exposed>>

(* What an upload that was joined can leave under its name. *)
Outcomes(u) == IF contended THEN Clients \cup {Mixture} ELSE {u.by}

Finish(u) ==
    /\ u \in uploads
    /\ \E who \in Outcomes(u) : library' = [library EXCEPT ![u.name] = who]
    /\ uploads' = uploads \ {u}
    /\ exposed' \subseteq (exposed \ {u.name}) \cup (IF contended THEN {u.name} ELSE {})
    /\ uploads' = {} => exposed' = {}
    /\ UNCHANGED contended

Drop(u) ==
    /\ u \in uploads
    /\ uploads' = uploads \ {u}
    /\ exposed' \subseteq exposed
    /\ uploads' = {} => exposed' = {}
    /\ UNCHANGED <<library, contended>>

Spoil(n) ==
    /\ n \in exposed
    /\ \E who \in Clients \cup {Mixture} : library' = [library EXCEPT ![n] = who]
    /\ UNCHANGED <<uploads, contended, exposed>>

Remove(n) ==
    /\ library' = [library EXCEPT ![n] = Nothing]
    /\ exposed' = exposed \ {n}
    /\ UNCHANGED <<uploads, contended>>

Next ==
    \/ \E n \in Names : Remove(n) \/ Spoil(n) \/ \E c \in Clients : Begin(n, c)
    \/ \E u \in uploads : Finish(u) \/ Drop(u)

Spec == Init /\ [][Next]_svars
==============================================================================
