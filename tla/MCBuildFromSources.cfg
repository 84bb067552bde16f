\* One input name, columns of length 2, three input share files.
CONSTANTS
  NumKeys = 1
  N = 2
  Lens = {2}
  NumSources = 3
  None = None
SPECIFICATION Spec
\* build_from_sources is a finite computation: it returns or panics.
CHECK_DEADLOCK FALSE
INVARIANTS
  TypeOK
  BuildPublicFaithful
  BuildSharedFaithful
  BuildOrderIndependent
  UnsupportedNeverAccepted
