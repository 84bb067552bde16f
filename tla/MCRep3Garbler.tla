--------------------------- MODULE MCRep3Garbler ---------------------------
(***************************************************************************)
(* Model-checking instance of Rep3Garbler.  MCCircuit exercises every call *)
(* of the garbler: two encoded inputs, the first sent to the evaluator in  *)
(* the circuit by add_bundle_to_circuit (the second reaches it out of      *)
(* band, as an input of its own), a constant, an AND whose output is       *)
(* negated and XORed with the constant, an output to all parties, a second *)
(* AND after it (so gate and output indices continue across two           *)
(* send_circuit calls) and an output to ID0 and ID1 only.  Its constant   *)
(* is 1, which leaves delta as it is.                                      *)
(*                                                                         *)
(* MCCircuitConstZero is the smallest circuit with an even constant before *)
(* an output: input x, constant 0, x XOR 0, output to all parties.         *)
(***************************************************************************)
CONSTANTS Circuit, Deviant, Lossy

VARIABLES bits, pc, phase, rng, delta, current_gate, current_output, wires,
          encoded, circuit, hash, decoded, forged, sendFailed, toEv1, toEv2, fromEv,
          evPc, evStatus, evLabels, evGate, evOut, evSeg, evBits

MCCircuit ==
  << [op |-> "input"],
     [op |-> "input"],
     [op |-> "bundle", w |-> <<1>>],
     [op |-> "and", a |-> 1, b |-> 2],
     [op |-> "not", a |-> 4],
     [op |-> "const", bit |-> 1],
     [op |-> "xor", a |-> 5, b |-> 6],
     [op |-> "out_all", w |-> <<4, 7>>],
     [op |-> "and", a |-> 7, b |-> 1],
     [op |-> "out_01", w |-> <<9>>] >>

MCCircuitConstZero ==
  << [op |-> "input"],
     [op |-> "const", bit |-> 0],
     [op |-> "xor", a |-> 1, b |-> 2],
     [op |-> "out_all", w |-> <<3>>] >>

INSTANCE Rep3Garbler
=============================================================================
