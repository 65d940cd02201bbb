----------------------------- MODULE PackLibrary -----------------------------
(***************************************************************************)
(* What the pack store promises about the set of installed packs, without *)
(* files, staging or RAM state: a pack appears only as a validated whole,  *)
(* it goes away only when somebody removes it, and one replacement is in   *)
(* progress at a time.  The only pack a fault can cost is the one being    *)
(* replaced at that very moment.                                           *)
(***************************************************************************)

CONSTANTS
    Stems,       \* directory entries a pack can be installed under
    Packs,       \* contents that pass validation
    Unreadable,  \* a file an older firmware left that no longer validates
    NoFile,      \* nothing installed
    Idle         \* no replacement in progress

VARIABLES
    library,     \* what each directory entry holds
    replacing    \* the entry being replaced, or Idle

lvars == <<library, replacing>>

TypeOK ==
    /\ library \in [Stems -> Packs \cup {Unreadable, NoFile}]
    /\ replacing \in Stems \cup {Idle}

Init ==
    /\ library \in [Stems -> Packs \cup {Unreadable, NoFile}]
    /\ replacing = Idle

StartReplacing(s) ==
    /\ replacing = Idle
    /\ replacing' = s
    /\ UNCHANGED library

Install(s, p) ==
    /\ replacing = s
    /\ library' = [library EXCEPT ![s] = p]
    /\ replacing' = Idle

(* The replacement did not happen: the previous pack is still there. *)
Keep ==
    /\ replacing # Idle
    /\ replacing' = Idle
    /\ UNCHANGED library

(* A power cut or a second I/O error inside the replacement itself. *)
Lose(s) ==
    /\ replacing = s
    /\ library' = [library EXCEPT ![s] = NoFile]
    /\ replacing' = Idle

Remove(s) ==
    /\ replacing = Idle
    /\ library' = [library EXCEPT ![s] = NoFile]
    /\ UNCHANGED replacing

Next ==
    \/ \E s \in Stems :
          \/ StartReplacing(s)
          \/ \E p \in Packs : Install(s, p)
          \/ Lose(s)
          \/ Remove(s)
    \/ Keep

Spec == Init /\ [][Next]_lvars
==============================================================================
