\* One input name, columns of length 2, three input share files.
CONSTANTS
  NumKeys = 1
  N = 2
  Lens = {2}
  NumSources = 3
  None = None
SPECIFICATION Spec
\* The fold is a finite computation: it stops with "ok" or "error".
CHECK_DEADLOCK FALSE
INVARIANT MaybeSharedStaged
