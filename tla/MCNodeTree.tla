----------------------------- MODULE MCNodeTree -----------------------------
(***************************************************************************)
(* An instance of NodeTree: a device with two cores.                       *)
(***************************************************************************)
EXTENDS NodeTree, TLC

CONSTANTS dev, core, vio

MCParent == dev :> Root @@ core :> dev @@ vio :> dev
=============================================================================
