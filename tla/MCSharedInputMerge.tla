------------------------- MODULE MCSharedInputMerge -------------------------
(***************************************************************************)
(* Model-checking instance of SharedInputMerge: the bounds are given in    *)
(* the .cfg files that use this module.                                    *)
(***************************************************************************)
CONSTANTS NumKeys, N, Lens, NumSources, None

VARIABLES parts, acc, next, status, start

INSTANCE SharedInputMerge
=============================================================================
