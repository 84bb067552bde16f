\* An honest session (no garbler deviates, every send succeeds) of a
\* circuit with the constant 0 before its output.
CONSTANTS
  Circuit <- MCCircuitConstZero
  Deviant = {}
  Lossy = {}
SPECIFICATION Spec
CHECK_DEADLOCK FALSE
PROPERTY GarblerImplementsSession
