--------------------------- MODULE GarbledSession ---------------------------
(***************************************************************************)
(* What a replicated 3-party garbled-circuit session promises (spec 4.4),  *)
(* stated without labels, blocks or channels.  The circuit's outputs are   *)
(* fixed by the inputs; the evaluator learns them one after the other in   *)
(* circuit order, and each output goes on to the garblers entitled to it,  *)
(* which learn it only after the evaluator has released it.  The session   *)
(* may abort, but only after a garbler has deviated or failed, and nothing *)
(* is released after the abort; a garbler fails only on an I/O error of    *)
(* its own or once the session has aborted.  Rep3Garbler is checked to     *)
(* implement this.                                                         *)
(***************************************************************************)
EXTENDS Naturals, Sequences, SequencesExt

CONSTANTS
  Garblers,  \* the garbling parties
  Deviant,   \* the garblers that may deviate
  Lossy,     \* the garblers whose sends may fail
  Inputs,    \* the possible inputs of the circuit
  Outs(_)    \* Outs(in): the outputs in circuit order, each a record
             \* [val |-> its value, to |-> the garblers entitled to it]

VARIABLES
  inputs,    \* the circuit's inputs, fixed for the session
  revealed,  \* the output values the evaluator has learned, in order
  learned,   \* per garbler: the output values it has learned, in order
  corrupt,   \* the garblers that have deviated
  failed,    \* the garblers that have ended their session with an error
  aborted    \* the session has been aborted

avars == <<inputs, revealed, learned, corrupt, failed, aborted>>

\* The outputs garbler g is entitled to, and how many of them the evaluator
\* has released so far.
GarblerOuts(g) == SelectSeq(Outs(inputs), LAMBDA o : g \in o.to)
Released(g) ==
  Len(SelectSeq(SubSeq(Outs(inputs), 1, Len(revealed)), LAMBDA o : g \in o.to))

Init ==
  /\ inputs \in Inputs
  /\ revealed = <<>>
  /\ learned = [g \in Garblers |-> <<>>]
  /\ corrupt = {}
  /\ failed = {}
  /\ aborted = FALSE

\* One garbler (of two, at most one) deviates.
Corrupt(g) ==
  /\ g \in Deviant
  /\ corrupt = {}
  /\ corrupt' = {g}
  /\ UNCHANGED <<inputs, revealed, learned, failed, aborted>>

\* Garbler g fails: its send failed, or the session was aborted under it.
Fail(g) ==
  /\ g \notin failed
  /\ g \in Lossy \/ aborted
  /\ failed' = failed \cup {g}
  /\ UNCHANGED <<inputs, revealed, learned, corrupt, aborted>>

\* The deviation or failure is detected and the session ends.
Abort ==
  /\ corrupt \cup failed # {}
  /\ ~aborted
  /\ aborted' = TRUE
  /\ UNCHANGED <<inputs, revealed, learned, corrupt, failed>>

\* The evaluator learns the next output, correct, unless the session aborted.
EvLearns ==
  /\ ~aborted
  /\ Len(revealed) < Len(Outs(inputs))
  /\ revealed' = Append(revealed, Outs(inputs)[Len(revealed) + 1].val)
  /\ UNCHANGED <<inputs, learned, corrupt, failed, aborted>>

\* Garbler g learns its next output, once the evaluator has released it,
\* unless it has failed.
GarblerLearns(g) ==
  /\ g \notin failed
  /\ Len(learned[g]) < Released(g)
  /\ learned' = [learned EXCEPT ![g] =
                   Append(@, GarblerOuts(g)[Len(@) + 1].val)]
  /\ UNCHANGED <<inputs, revealed, corrupt, failed, aborted>>

Next ==
  \/ \E g \in Garblers : Corrupt(g) \/ Fail(g) \/ GarblerLearns(g)
  \/ Abort
  \/ EvLearns

\* Every output is eventually learned by the evaluator unless the session
\* aborts, and every released output by the garblers entitled to it that
\* have not failed.
Spec ==
  /\ Init /\ [][Next]_avars
  /\ WF_avars(EvLearns)
  /\ \A g \in Garblers : WF_avars(GarblerLearns(g))
=============================================================================
