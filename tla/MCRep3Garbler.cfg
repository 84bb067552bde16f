\* Either garbler may forge one block; at most one does (Forge), and the
\* runs without a forgery are the honest sessions.  Either garbler's
\* send_circuit may fail with an I/O error.
CONSTANTS
  Circuit <- MCCircuit
  Deviant = {1, 2}
  Lossy = {1, 2}
SPECIFICATION Spec
\* A finished session stutters in SessionOver; a session stuck with a party
\* waiting is caught by Completes, which is checked with deadlock off so that
\* TLC reports which party never finishes.
CHECK_DEADLOCK FALSE
INVARIANTS
  TypeOK
  DeltaSecret
PROPERTIES
  Completes
  GarblerImplementsSession
