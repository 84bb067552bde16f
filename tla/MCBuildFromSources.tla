------------------------- MODULE MCBuildFromSources -------------------------
(***************************************************************************)
(* Model-checking instance of BuildFromSources: the bounds are given in    *)
(* the .cfg files that use this module.                                    *)
(***************************************************************************)
CONSTANTS NumKeys, N, Lens, NumSources, None

VARIABLES files, shared_input, maybe_publics, maybe_shared, next, status

INSTANCE BuildFromSources
=============================================================================
