\* One input name, columns of length 2, three providers: either building
\* their inputs with add_* and then merging them, or merging inputs as a
\* provider's split produces them.
CONSTANTS
  NumKeys = 1
  N = 2
  Lens = {2}
  NumSources = 3
  None = None
SPECIFICATION FoldSpec
\* The fold is a finite computation: it stops with "ok" or "error".
CHECK_DEADLOCK FALSE
INVARIANTS
  PublicAgreed
  SharedStatedOnce
PROPERTY
  MergeImplementsRep3Merge
