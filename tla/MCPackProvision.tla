-------------------------- MODULE MCPackProvision --------------------------
(***************************************************************************)
(* A small instance of PackProvision: the two scripts that provision packs, *)
(* and a pack of two chunks.                                                *)
(***************************************************************************)
EXTENDS PackProvision

CONSTANTS host_bootstrap, stage0_check

Scripts == {host_bootstrap, stage0_check}
============================================================================
