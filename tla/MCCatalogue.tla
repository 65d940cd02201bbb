---------------------------- MODULE MCCatalogue ----------------------------
(***************************************************************************)
(* An instance of Catalogue for TLC.  Documents 1 and 3 are older and      *)
(* newer than the embedded document 2, and only 3 lists the pack beta.     *)
(***************************************************************************)
EXTENDS Catalogue

CONSTANTS alpha, beta

MCLists == <<{alpha}, {alpha}, {alpha, beta}>>
MCQueues == {<<>>, <<alpha, beta>>}
MCCatalogues == 1 .. 3
============================================================================
