\* One input name, columns of length 1 or 2, two input share files.
CONSTANTS
  NumKeys = 1
  N = 2
  Lens = {1, 2}
  NumSources = 2
  None = None
SPECIFICATION Spec
\* build_from_sources is a finite computation: it returns or panics.
CHECK_DEADLOCK FALSE
INVARIANT BuildLengthsKept
