-------------------------- MODULE MCRep3InputMerge --------------------------
(***************************************************************************)
(* Model-checking instance of Rep3InputMerge: the bounds are given in the  *)
(* .cfg files that use this module.                                        *)
(***************************************************************************)
CONSTANTS NumKeys, N, Lens, NumSources, None

VARIABLES files, acc, next, status

INSTANCE Rep3InputMerge
=============================================================================
