\* Every odd prime field of order at most 257.
CONSTANT MaxPrime = 257
SPECIFICATION Spec
\* roots_of_unity returns: the finished state has no successor.
CHECK_DEADLOCK FALSE
INVARIANTS
  TypeOK
  RootsOfUnityCorrect
PROPERTY Terminates
