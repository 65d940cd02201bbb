----------------------------- MODULE MCPackTasks -----------------------------
(***************************************************************************)
(* Instances of PackTasks for TLC.  Inodes are interchangeable: the only   *)
(* one a step chooses by itself is a free one, which it blanks.            *)
(***************************************************************************)
EXTENDS PackTasks, TLC

MCSymmetry == Permutations(Inodes)
==============================================================================
