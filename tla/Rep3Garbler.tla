---------------------------- MODULE Rep3Garbler ----------------------------
(***************************************************************************)
(* The two garblers of the replicated 3-party garbled circuits (mpc-core   *)
(* rep3/yao/garbler.rs, Rep3Garbler) garbling the same circuit, and the    *)
(* evaluator (party ID0, not in this repository: modelled from the spec)   *)
(* that receives ID1's blocks and ID2's digest of the same blocks.         *)
(*                                                                         *)
(* Wire labels are abstracted to their XOR structure: a label is a set of  *)
(* atoms and XOR (WireMod2::plus) is symmetric difference.  The atoms are  *)
(* the draws of the garbler rng (<<"r", n>>; draw 0 is delta, taken by     *)
(* Rep3Garbler::new) and the output labels of AND gates (<<"c", gate, A,   *)
(* B>>).  A hash or ciphertext block is a tuple naming what it was        *)
(* computed from, so two blocks are equal exactly when their inputs are.   *)
(* Both garblers seed their rng with the same garbler seed, so with the    *)
(* same calls they draw the same atoms.                                    *)
(***************************************************************************)
EXTENDS Integers, Sequences, FiniteSets, FiniteSetsExt, SequencesExt

CONSTANTS
  Circuit,   \* the gate sequence both garblers are driven through
  Deviant,   \* garblers that may forge one block of their own (for the
             \* cross-check run); {} for honest runs
  Lossy      \* garblers whose send to the evaluator may fail (I/O error)

Garblers == {1, 2}   \* PartyID::ID1 (buffers blocks), PartyID::ID2 (hashes)
OutOps == {"out_all", "out_01"}
Pos == 1..Len(Circuit)
InputPos == {p \in Pos : Circuit[p].op = "input"}
\* The inputs whose encoded labels the garblers send in the circuit.
Bundled ==
  UNION {Range(Circuit[p].w) : p \in {q \in Pos : Circuit[q].op = "bundle"}}
NumAnds == Cardinality({p \in Pos : Circuit[p].op = "and"})
NumOutWires == FoldSet(LAMBDA p, n : n + Len(Circuit[p].w), 0,
                       {p \in Pos : Circuit[p].op \in OutOps})

ASSUME Deviant \subseteq Garblers /\ Lossy \subseteq Garblers

VARIABLES
  bits,            \* the plaintext values of the input wires
  pc,              \* per garbler: position in Circuit of its next call
  phase,           \* per garbler: "run", "await" (in read_blocks), "done", "error"
  rng,             \* per garbler: number of rng draws taken
  delta,           \* per garbler: Rep3Garbler.delta
  current_gate,    \* per garbler: Rep3Garbler.current_gate
  current_output,  \* per garbler: Rep3Garbler.current_output
  wires,           \* per garbler: Pos -> the zero label of the wire made there
  encoded,         \* per garbler: Pos -> encode_wire's encoded label of an input
  circuit,         \* per garbler: Rep3Garbler.circuit (ID1's block buffer)
  hash,            \* per garbler: Rep3Garbler.hash (blocks absorbed by ID2)
  decoded,         \* per garbler: the bit vectors output_garbler returned
  forged,          \* garblers that have forged a block
  sendFailed,      \* garblers whose send_circuit failed
  toEv1,           \* channel ID1 -> ID0: circuits sent by send_circuit
  toEv2,           \* channel ID2 -> ID0: digests sent by send_circuit
  fromEv,          \* per garbler: channel ID0 -> garbler of output labels
  evPc, evStatus, evLabels, evGate, evOut, evSeg, evBits   \* evaluator

garblerVars == <<pc, phase, rng, delta, current_gate, current_output, wires,
                 encoded, circuit, hash, decoded, forged, sendFailed>>
evVars == <<evPc, evStatus, evLabels, evGate, evOut, evSeg, evBits>>
vars == <<bits, garblerVars, toEv1, toEv2, fromEv, evVars>>

(***************************************************************************)
(* Labels and blocks (WireMod2, Block, fancy-garbling, GCUtils).           *)
(***************************************************************************)
Rand(n) == {<<"r", n>>}
Delta == Rand(0)
Plus(x, y) == SymDiff(x, y)
\* WireMod2::cmul / cmul_eq on a mod-2 label: c & 1 = 0 gives the zero
\* block, otherwise the label itself.
Cmul(L, c) == IF c % 2 = 1 THEN L ELSE {}
AndOut(gate, A, B) == {<<"c", gate, A, B>>}
\* The k-th half-gate ciphertext of gate, garbled with delta D.
AndBlock(gate, k, A, B, D) == <<"gate", gate, k, A, B, D>>
LabelBlock(L) == <<"label", L>>
OutBlock(i, k, L) == <<"out", i, k, L>>    \* L.hash(output_tweak(i, k))
Digest(blocks) == <<"digest", blocks>>     \* Sha3_256 over the blocks
Forged == <<"forged">>

(***************************************************************************)
(* Garbler steps.  g is the garbler, o = Circuit[pc[g]] the call.          *)
(***************************************************************************)
\* add_block_to_circuit (lines 62-76), for a sequence of blocks: ID1 pushes
\* onto its buffer, ID2 updates its hash.
AddBlocks(g, bs) ==
  IF g = 1
    THEN /\ circuit' = [circuit EXCEPT ![g] = @ \o bs]
         /\ UNCHANGED hash
    ELSE /\ hash' = [hash EXCEPT ![g] = @ \o bs]
         /\ UNCHANGED circuit

Advance(g) == pc' = [pc EXCEPT ![g] = @ + 1]
SetWire(g, L) == wires' = [wires EXCEPT ![g][pc[g]] = L]
Call(g, kind) ==
  phase[g] = "run" /\ pc[g] <= Len(Circuit) /\ Circuit[pc[g]].op = kind

\* The encoded label zero + val*delta of the input at pc[g], under the
\* garbler's delta at the time of the call.
SetEncoded(g, zero) ==
  encoded' = [encoded EXCEPT ![g][pc[g]] = Plus(zero, Cmul(delta[g], bits[pc[g]]))]

\* Mutant: the zero label is taken without advancing the rng.
EncodeWire_NoDraw(g) ==
  /\ Call(g, "input")
  /\ SetWire(g, Rand(rng[g]))
  /\ SetEncoded(g, Rand(rng[g]))
  /\ Advance(g)
  /\ UNCHANGED <<phase, rng, delta, current_gate, current_output, circuit,
                 hash, decoded, forged, sendFailed>>

\* encode_wire (lines 222-224): a fresh zero label from the rng and the
\* encoded label zero + val*delta, which reaches the evaluator with the
\* inputs or in a bundle.
EncodeWire(g) ==
  /\ Call(g, "input")
  /\ SetWire(g, Rand(rng[g]))
  /\ SetEncoded(g, Rand(rng[g]))
  /\ rng' = [rng EXCEPT ![g] = @ + 1]
  /\ Advance(g)
  /\ UNCHANGED <<phase, delta, current_gate, current_output, circuit, hash,
                 decoded, forged, sendFailed>>

\* Mutant: the zero labels are sent instead of the encoded ones.
AddBundle_Zero(g) ==
  LET x == Circuit[pc[g]].w
  IN  /\ Call(g, "bundle")
      /\ AddBlocks(g, [j \in DOMAIN x |-> LabelBlock(wires[g][x[j]])])
      /\ Advance(g)
      /\ UNCHANGED <<phase, rng, delta, current_gate, current_output, wires,
                     encoded, decoded, forged, sendFailed>>

\* add_bundle_to_circuit with add_wire_to_circuit (lines 210-219), given
\* the encoded labels of input wires (encode_wire's second result): one
\* label block per wire, in order.
AddBundle(g) ==
  LET x == Circuit[pc[g]].w
  IN  /\ Call(g, "bundle")
      /\ AddBlocks(g, [j \in DOMAIN x |-> LabelBlock(encoded[g][x[j]])])
      /\ Advance(g)
      /\ UNCHANGED <<phase, rng, delta, current_gate, current_output, wires,
                     encoded, decoded, forged, sendFailed>>

\* Fancy::constant (lines 242-247): self.delta.cmul_eq(x) multiplies the
\* garbler's delta by x in place (an even x makes it the zero label, for
\* the rest of the session) and returns it; zero plus the result is added
\* to the circuit in the clear, the zero label is kept.
Constant(g) ==
  LET zero == Rand(rng[g])
      d    == Cmul(delta[g], Circuit[pc[g]].bit)
  IN  /\ Call(g, "const")
      /\ SetWire(g, zero)
      /\ delta' = [delta EXCEPT ![g] = d]
      /\ AddBlocks(g, <<LabelBlock(Plus(zero, d))>>)
      /\ rng' = [rng EXCEPT ![g] = @ + 1]
      /\ Advance(g)
      /\ UNCHANGED <<phase, current_gate, current_output, encoded, decoded,
                     forged, sendFailed>>

\* FancyBinary::xor (lines 268-270) and negate (lines 276-279): free.
Xor(g) ==
  /\ Call(g, "xor")
  /\ SetWire(g, Plus(wires[g][Circuit[pc[g]].a], wires[g][Circuit[pc[g]].b]))
  /\ Advance(g)
  /\ UNCHANGED <<phase, rng, delta, current_gate, current_output, encoded,
                 circuit, hash, decoded, forged, sendFailed>>

\* Mutant: negation keeps the label (delta not added).
Negate_NoDelta(g) ==
  /\ Call(g, "not")
  /\ SetWire(g, wires[g][Circuit[pc[g]].a])
  /\ Advance(g)
  /\ UNCHANGED <<phase, rng, delta, current_gate, current_output, encoded,
                 circuit, hash, decoded, forged, sendFailed>>

Negate(g) ==
  /\ Call(g, "not")
  /\ SetWire(g, Plus(delta[g], wires[g][Circuit[pc[g]].a]))
  /\ Advance(g)
  /\ UNCHANGED <<phase, rng, delta, current_gate, current_output, encoded,
                 circuit, hash, decoded, forged, sendFailed>>

\* FancyBinary::and (lines 261-266) with garble_and_gate (232-235) and
\* current_gate (120-124): the gate index is taken and incremented, the
\* two half-gate ciphertexts, garbled with the current delta, are added.
And(g) ==
  LET gate == current_gate[g]
      A == wires[g][Circuit[pc[g]].a]
      B == wires[g][Circuit[pc[g]].b]
  IN  /\ Call(g, "and")
      /\ SetWire(g, AndOut(gate, A, B))
      /\ AddBlocks(g, <<AndBlock(gate, 0, A, B, delta[g]),
                         AndBlock(gate, 1, A, B, delta[g])>>)
      /\ current_gate' = [current_gate EXCEPT ![g] = @ + 1]
      /\ Advance(g)
      /\ UNCHANGED <<phase, rng, delta, current_output, encoded, decoded, forged,
                     sendFailed>>

\* Fancy::output (lines 249-257) for every wire of x, in order, with
\* current_output (127-131): two hashes per wire, one per bit value.
OutputBlocks(g, x) ==
  [j \in 1..(2 * Len(x)) |->
     LET w == (j + 1) \div 2
         k == (j + 1) % 2
     IN  OutBlock(current_output[g] + w - 1, k,
                  Plus(wires[g][x[w]], Cmul(delta[g], k)))]

\* Mutant: the party test of line 189 names ID2 instead of ID1.
ReadsBack_ID2(g, kind) == kind = "out_all" \/ g = 2

\* Whether garbler g reads the output back (output_all_parties: both,
\* output_to_id0_and_id1: ID1 only, lines 189-193).
ReadsBack(g, kind) == kind = "out_all" \/ g = 1

\* Mutant: ID2 sends the digest but keeps its hash (no reset at line 98),
\* so its next digest also covers the blocks already sent.
SendCircuit_KeepHash(g, bs) ==
  IF g = 1
    THEN /\ toEv1' = Append(toEv1, circuit[g] \o bs)
         /\ circuit' = [circuit EXCEPT ![g] = <<>>]
         /\ UNCHANGED <<toEv2, hash>>
    ELSE /\ toEv2' = Append(toEv2, Digest(hash[g] \o bs))
         /\ hash' = [hash EXCEPT ![g] = @ \o bs]
         /\ UNCHANGED <<toEv1, circuit>>

\* send_circuit (lines 79-107), right after the output blocks bs were
\* added: ID1 sends its buffer and empties it, ID2 sends the digest of its
\* hash and resets it.
SendCircuit(g, bs) ==
  IF g = 1
    THEN /\ toEv1' = Append(toEv1, circuit[g] \o bs)
         /\ circuit' = [circuit EXCEPT ![g] = <<>>]
         /\ UNCHANGED <<toEv2, hash>>
    ELSE /\ toEv2' = Append(toEv2, Digest(hash[g] \o bs))
         /\ hash' = [hash EXCEPT ![g] = <<>>]
         /\ UNCHANGED <<toEv1, circuit>>

\* Mutant: current_output is taken once per block instead of once per wire
\* (called inside the loop over the two hashes of lines 252-255).
OutputAndSend_IndexPerBlock(g) ==
  LET o == Circuit[pc[g]]
  IN  /\ phase[g] = "run"
      /\ pc[g] <= Len(Circuit)
      /\ o.op \in OutOps
      /\ current_output' = [current_output EXCEPT ![g] = @ + 2 * Len(o.w)]
      /\ SendCircuit(g, OutputBlocks(g, o.w))
      /\ IF ReadsBack(g, o.op)
           THEN /\ phase' = [phase EXCEPT ![g] = "await"]
                /\ UNCHANGED pc
           ELSE /\ Advance(g)
                /\ UNCHANGED phase
      /\ UNCHANGED <<rng, delta, current_gate, wires, encoded, decoded, forged,
                     sendFailed, fromEv>>

\* output_all_parties (lines 167-177) and output_to_id0_and_id1 (179-194)
\* up to the blocking read: output_evaluator (132-139) adds the output
\* blocks, taking one output index per wire (125-130), then send_circuit.
OutputAndSend(g) ==
  LET o == Circuit[pc[g]]
  IN  /\ phase[g] = "run"
      /\ pc[g] <= Len(Circuit)
      /\ o.op \in OutOps
      /\ current_output' = [current_output EXCEPT ![g] = @ + Len(o.w)]
      /\ SendCircuit(g, OutputBlocks(g, o.w))
      /\ IF ReadsBack(g, o.op)
           THEN /\ phase' = [phase EXCEPT ![g] = "await"]
                /\ UNCHANGED pc
           ELSE /\ Advance(g)
                /\ UNCHANGED phase
      /\ UNCHANGED <<rng, delta, current_gate, wires, encoded, decoded, forged,
                     sendFailed, fromEv>>

\* An output call whose network send in send_circuit fails (the ? of lines
\* 90 and 101): ID1 has already swapped its buffer out (86-87), ID2 has
\* already swapped out and finalised its hash (95-97), and nothing reaches
\* the evaluator.  The garbler goes on to phase ph.
FailedSend(g, ph) ==
  LET o == Circuit[pc[g]]
  IN  /\ g \in Lossy
      /\ phase[g] = "run"
      /\ pc[g] <= Len(Circuit)
      /\ o.op \in OutOps
      /\ current_output' = [current_output EXCEPT ![g] = @ + Len(o.w)]
      /\ IF g = 1 THEN /\ circuit' = [circuit EXCEPT ![g] = <<>>]
                       /\ UNCHANGED hash
                  ELSE /\ hash' = [hash EXCEPT ![g] = <<>>]
                       /\ UNCHANGED circuit
      /\ phase' = [phase EXCEPT ![g] = ph]
      /\ sendFailed' = sendFailed \cup {g}
      /\ UNCHANGED <<pc, rng, delta, current_gate, wires, encoded, decoded,
                     forged, toEv1, toEv2, fromEv>>

\* Mutant: the failed send is taken for a sent one and the garbler goes on
\* to read the evaluator's reply.
SendFails_Await(g) == FailedSend(g, "await")

\* The output routine returns the error (send_circuit()? of lines 174 and
\* 186), ending the garbler's session (spec 7).
SendFails(g) == FailedSend(g, "error")

\* output_garbler (lines 143-166) with read_blocks (198-207): one block per
\* output wire; the zero label is 0, the zero label plus delta is 1, any
\* other block or a wrong number of blocks is an error.
Decode(g, x, bs) ==
  [j \in 1..Len(x) |->
     IF bs[j] = wires[g][x[j]] THEN 0
     ELSE IF bs[j] = Plus(wires[g][x[j]], delta[g]) THEN 1 ELSE -1]

OutputGarbler(g) ==
  LET x == Circuit[pc[g]].w
      bs == Head(fromEv[g])
      res == Decode(g, x, bs)
  IN  /\ phase[g] = "await"
      /\ fromEv[g] # <<>>
      /\ fromEv' = [fromEv EXCEPT ![g] = Tail(@)]
      /\ IF Len(bs) = Len(x) /\ \A j \in DOMAIN res : res[j] # -1
           THEN /\ decoded' = [decoded EXCEPT ![g] = Append(@, res)]
                /\ phase' = [phase EXCEPT ![g] = "run"]
                /\ Advance(g)
           ELSE /\ phase' = [phase EXCEPT ![g] = "error"]
                /\ UNCHANGED <<decoded, pc>>
      /\ UNCHANGED <<rng, delta, current_gate, current_output, wires, encoded,
                     circuit, hash, forged, sendFailed, toEv1, toEv2>>

\* read_blocks fails (line 199) once the evaluator has aborted the session.
ReadFails(g) ==
  /\ phase[g] = "await"
  /\ fromEv[g] = <<>>
  /\ evStatus = "abort"
  /\ phase' = [phase EXCEPT ![g] = "error"]
  /\ UNCHANGED <<pc, rng, delta, current_gate, current_output, wires,
                 encoded, circuit, hash, decoded, forged, sendFailed, toEv1,
                 toEv2, fromEv>>

\* The driver has made every call of the circuit.
GarblerDone(g) ==
  /\ phase[g] = "run"
  /\ pc[g] > Len(Circuit)
  /\ phase' = [phase EXCEPT ![g] = "done"]
  /\ UNCHANGED <<pc, rng, delta, current_gate, current_output, wires,
                 encoded, circuit, hash, decoded, forged, sendFailed, toEv1,
                 toEv2, fromEv>>

\* A deviating garbler replaces the last block it added by a forged one.
\* The cross-check is meant to catch one deviating garbler out of two, so
\* at most one garbler deviates.
Forge(g) ==
  /\ g \in Deviant
  /\ forged = {}
  /\ IF g = 1 THEN circuit[g] # <<>> ELSE hash[g] # <<>>
  /\ IF g = 1
       THEN /\ circuit' = [circuit EXCEPT ![g] = Front(@) \o <<Forged>>]
            /\ UNCHANGED hash
       ELSE /\ hash' = [hash EXCEPT ![g] = Front(@) \o <<Forged>>]
            /\ UNCHANGED circuit
  /\ forged' = forged \cup {g}
  /\ UNCHANGED <<pc, phase, rng, delta, current_gate, current_output, wires,
                 encoded, decoded, sendFailed, toEv1, toEv2, fromEv>>

(***************************************************************************)
(* The evaluator ID0 (spec 4.4; its code is not in this repository).  It   *)
(* receives one circuit from ID1 and one digest from ID2 per send_circuit, *)
(* aborts the session if the digest is not that of the circuit, and        *)
(* otherwise evaluates the calls up to the output, consuming the blocks.   *)
(* Half-gate decryption is abstracted: with the two ciphertexts of the     *)
(* expected gate index and input labels that belong to them under the      *)
(* delta the gate was garbled with, it yields the label of the AND of the  *)
(* two values under that delta; anything else yields junk.                 *)
(***************************************************************************)
Junk(p) == {<<"junk", p>>}

\* The garblers the evaluator returns an output to (spec 4.4: to both for
\* output_all_parties, to ID1 for output_to_id0_and_id1).
EvSendsTo(g, kind) == kind = "out_all" \/ g = 1

\* Receive ID1's circuit and ID2's digest and compare them.
EvReceive ==
  /\ evStatus = "wait"
  /\ toEv1 # <<>>
  /\ toEv2 # <<>>
  /\ toEv1' = Tail(toEv1)
  /\ toEv2' = Tail(toEv2)
  /\ IF Digest(Head(toEv1)) = Head(toEv2)
       THEN /\ evSeg' = Head(toEv1)
            /\ evStatus' = "eval"
       ELSE /\ evStatus' = "abort"
            /\ UNCHANGED evSeg
  /\ UNCHANGED <<bits, garblerVars, fromEv, evPc, evLabels, evGate, evOut,
                 evBits>>

\* A garbler's channel is closed (it ended its session with an error) and
\* holds nothing more: the receive fails and the evaluator aborts (spec 7).
EvPeerGone ==
  /\ evStatus = "wait"
  /\ \E g \in Garblers : /\ phase[g] = "error"
                         /\ (IF g = 1 THEN toEv1 ELSE toEv2) = <<>>
  /\ evStatus' = "abort"
  /\ UNCHANGED <<bits, garblerVars, toEv1, toEv2, fromEv, evPc, evLabels,
                 evGate, evOut, evSeg, evBits>>

\* The label the evaluator computes for a non-output call o at position p.
EvAnd(o) ==
  LET b0 == evSeg[1]
      b1 == evSeg[2]
      A == b0[4]
      B == b0[5]
      D == b0[6]
      ea == evLabels[o.a]
      eb == evLabels[o.b]
      va == IF ea = A THEN 0 ELSE 1
      vb == IF eb = B THEN 0 ELSE 1
  IN  IF /\ Len(evSeg) >= 2
         /\ Len(b0) = 6 /\ b0[1] = "gate" /\ b0[2] = evGate /\ b0[3] = 0
         /\ b1 = AndBlock(evGate, 1, A, B, D)
         /\ ea \in {A, Plus(A, D)} /\ eb \in {B, Plus(B, D)}
        THEN Plus(AndOut(evGate, A, B), Cmul(D, va * vb))
        ELSE Junk(evPc)

EvConst ==
  IF evSeg # <<>> /\ Len(evSeg[1]) = 2 /\ evSeg[1][1] = "label"
    THEN evSeg[1][2] ELSE Junk(evPc)

\* Blocks each call consumes from the received circuit.
Consumed(o) ==
  CASE o.op = "const" -> 1
    [] o.op = "bundle" -> Len(o.w)
    [] o.op = "and"   -> 2
    [] o.op \in OutOps -> 2 * Len(o.w)
    [] OTHER          -> 0

EvGate ==
  LET o == Circuit[evPc]
      L == CASE o.op = "input" /\ evPc \notin Bundled ->
                    encoded[1][evPc]
             [] o.op = "input" -> {}      \* arrives with its bundle
             [] o.op = "const" -> EvConst
             [] o.op = "xor"   -> Plus(evLabels[o.a], evLabels[o.b])
             [] o.op = "not"   -> evLabels[o.a]
             [] o.op = "and"   -> EvAnd(o)
  IN  /\ evStatus = "eval"
      /\ evPc <= Len(Circuit)
      /\ o.op \notin OutOps \cup {"bundle"}
      /\ evLabels' = [evLabels EXCEPT ![evPc] = L]
      /\ evGate' = IF o.op = "and" THEN evGate + 1 ELSE evGate
      /\ evSeg' = SubSeq(evSeg, Consumed(o) + 1, Len(evSeg))
      /\ evPc' = evPc + 1
      /\ UNCHANGED <<bits, garblerVars, toEv1, toEv2, fromEv, evStatus,
                     evOut, evBits>>

\* A bundle: the j-th block is the label of the j-th wire.
EvBundle ==
  LET o == Circuit[evPc]
      lab(j) == IF j <= Len(evSeg) /\ Len(evSeg[j]) = 2 /\ evSeg[j][1] = "label"
                THEN evSeg[j][2] ELSE Junk(evPc)
  IN  /\ evStatus = "eval"
      /\ evPc <= Len(Circuit)
      /\ o.op = "bundle"
      /\ evLabels' = [p \in Pos |->
                        IF p \in Range(o.w)
                          THEN lab(CHOOSE j \in DOMAIN o.w : o.w[j] = p)
                          ELSE evLabels[p]]
      /\ evSeg' = SubSeq(evSeg, Consumed(o) + 1, Len(evSeg))
      /\ evPc' = evPc + 1
      /\ UNCHANGED <<bits, garblerVars, toEv1, toEv2, fromEv, evStatus, evGate,
                     evOut, evBits>>

\* An output: match each label against the two hashes of its output index,
\* then send the labels back to the garblers entitled to the result.
EvOutput ==
  LET o == Circuit[evPc]
      ls == [j \in 1..Len(o.w) |-> evLabels[o.w[j]]]
      bit(j) == IF evSeg[2 * j - 1] = OutBlock(evOut + j - 1, 0, ls[j]) THEN 0
                ELSE IF evSeg[2 * j] = OutBlock(evOut + j - 1, 1, ls[j]) THEN 1
                ELSE -1
      res == [j \in 1..Len(o.w) |-> bit(j)]
  IN  /\ evStatus = "eval"
      /\ evPc <= Len(Circuit)
      /\ o.op \in OutOps
      /\ IF Len(evSeg) = 2 * Len(o.w) /\ \A j \in DOMAIN res : res[j] # -1
           THEN /\ evBits' = Append(evBits, res)
                /\ fromEv' = [g \in Garblers |->
                                IF EvSendsTo(g, o.op) THEN Append(fromEv[g], ls)
                                ELSE fromEv[g]]
                /\ evStatus' = IF evPc = Len(Circuit) THEN "done" ELSE "wait"
           ELSE /\ evStatus' = "abort"
                /\ UNCHANGED <<evBits, fromEv>>
      /\ evOut' = evOut + Len(o.w)
      /\ evSeg' = <<>>
      /\ evPc' = evPc + 1
      /\ UNCHANGED <<bits, garblerVars, toEv1, toEv2, evLabels, evGate>>

-----------------------------------------------------------------------------
Init ==
  /\ bits \in [InputPos -> {0, 1}]
  /\ pc = [g \in Garblers |-> 1]
  /\ phase = [g \in Garblers |-> "run"]
  /\ rng = [g \in Garblers |-> 1]          \* draw 0 was delta (new, 38-42)
  /\ delta = [g \in Garblers |-> Delta]
  /\ current_gate = [g \in Garblers |-> 0]
  /\ current_output = [g \in Garblers |-> 0]
  /\ wires = [g \in Garblers |-> [p \in Pos |-> {}]]
  /\ encoded = [g \in Garblers |-> [p \in Pos |-> {}]]
  /\ circuit = [g \in Garblers |-> <<>>]
  /\ hash = [g \in Garblers |-> <<>>]
  /\ decoded = [g \in Garblers |-> <<>>]
  /\ forged = {}
  /\ sendFailed = {}
  /\ toEv1 = <<>>
  /\ toEv2 = <<>>
  /\ fromEv = [g \in Garblers |-> <<>>]
  /\ evPc = 1
  /\ evStatus = "wait"
  /\ evLabels = [p \in Pos |-> {}]
  /\ evGate = 0
  /\ evOut = 0
  /\ evSeg = <<>>
  /\ evBits = <<>>

LocalGate(g) ==
  /\ EncodeWire(g) \/ AddBundle(g) \/ Constant(g) \/ Xor(g) \/ Negate(g)
     \/ And(g)
  /\ UNCHANGED <<toEv1, toEv2, fromEv>>

Garbler(g) ==
  /\ \/ LocalGate(g) \/ OutputAndSend(g) \/ SendFails(g) \/ OutputGarbler(g)
     \/ ReadFails(g) \/ GarblerDone(g)
  /\ UNCHANGED <<bits, evVars>>

Evaluator == EvReceive \/ EvPeerGone \/ EvGate \/ EvBundle \/ EvOutput

\* The session is over: every party has finished or failed.
SessionOver ==
  /\ evStatus \in {"done", "abort"}
  /\ \A g \in Garblers : phase[g] \in {"done", "error"}
  /\ UNCHANGED vars

Next ==
  \/ \E g \in Garblers : Garbler(g)
  \/ \E g \in Garblers : Forge(g) /\ UNCHANGED <<bits, evVars>>
  \/ Evaluator
  \/ SessionOver

\* Every party runs its own thread, and a blocked read returns once its
\* message is there.
Fairness == (\A g \in Garblers : WF_vars(Garbler(g))) /\ WF_vars(Evaluator)

Spec == Init /\ [][Next]_vars /\ Fairness
-----------------------------------------------------------------------------
(***************************************************************************)
(* The plaintext value of the wire made at position p under the inputs b.  *)
(***************************************************************************)
RECURSIVE Value(_, _)
Value(b, p) ==
  LET o == Circuit[p]
  IN  CASE o.op = "input" -> b[p]
        [] o.op = "const" -> o.bit
        [] o.op = "xor"   -> (Value(b, o.a) + Value(b, o.b)) % 2
        [] o.op = "not"   -> 1 - Value(b, o.a)
        [] o.op = "and"   -> Value(b, o.a) * Value(b, o.b)

\* The outputs, in circuit order, that garbler g (or the evaluator) learns.
OutputsOf(g) ==
  SelectSeq([j \in Pos |-> j],
            LAMBDA p : Circuit[p].op \in OutOps /\ EvSendsTo(g, Circuit[p].op))
EvOutputs == SelectSeq([j \in Pos |-> j], LAMBDA p : Circuit[p].op \in OutOps)
Expected(b, p) == [j \in DOMAIN Circuit[p].w |-> Value(b, Circuit[p].w[j])]

\* The outputs of the session under the inputs b, in circuit order, with the
\* garblers the evaluator returns each to.
SessionOuts(b) ==
  [k \in DOMAIN EvOutputs |->
     [val |-> Expected(b, EvOutputs[k]),
      to  |-> {g \in Garblers : EvSendsTo(g, Circuit[EvOutputs[k]].op)}]]

\* Labels the evaluator holds in the clear: the labels of the wires it has
\* evaluated (inputs, constants read from the circuit, and gate outputs).
Known ==
  {evLabels[p] : p \in {q \in Pos : /\ q < evPc
                                   /\ Circuit[q].op \notin OutOps \cup {"bundle"}}}

\* XORs of subsets of a set of labels.
Span(S) == {FoldSet(LAMBDA x, y : Plus(x, y), {}, T) : T \in SUBSET S}

TypeOK ==
  /\ bits \in [InputPos -> {0, 1}]
  /\ pc \in [Garblers -> 1..(Len(Circuit) + 1)]
  /\ phase \in [Garblers -> {"run", "await", "done", "error"}]
  /\ rng \in [Garblers -> Nat]
  /\ current_gate \in [Garblers -> 0..NumAnds]
  /\ current_output \in [Garblers -> 0..NumOutWires]
  /\ forged \subseteq Deviant
  /\ sendFailed \subseteq Lossy
  /\ evStatus \in {"wait", "eval", "abort", "done"}
  /\ evPc \in 1..(Len(Circuit) + 1)

(***************************************************************************)
(* The refinement mapping to the abstract session: the evaluator's         *)
(* decoded outputs are what it has learned, each garbler's output_garbler  *)
(* results what that garbler has learned, a forged block is a deviation,   *)
(* a garbler in its error state has failed, and the evaluator's abort is   *)
(* the session's.                                                          *)
(***************************************************************************)
Session == INSTANCE GarbledSession
             WITH Inputs <- [InputPos -> {0, 1}], Outs <- SessionOuts,
                  inputs <- bits, revealed <- evBits, learned <- decoded,
                  corrupt <- forged,
                  failed <- {g \in Garblers : phase[g] = "error"},
                  aborted <- (evStatus = "abort")

(***************************************************************************)
(* The garblers and the evaluator implement the session: every output a    *)
(* party learns is the value the circuit computes, in circuit order; a     *)
(* garbler learns an output (output_garbler, lines 143-166) only after the *)
(* evaluator has decoded it; the session aborts only after a deviation or  *)
(* a failure; a garbler fails only on its own I/O error or after the       *)
(* abort; and every output is eventually learned by every party entitled   *)
(* to it unless the session aborted.  So honest garblers whose sends       *)
(* succeed always pass the cross-check.  It rests on both garblers adding  *)
(* the same blocks in the same order (lines 62-76), resetting buffer and   *)
(* hash at every send_circuit (87-88, 97-98), the free XOR and negation of *)
(* 268-279, the gate and output indices of 120-131, the output hashes of   *)
(* 249-257 and the read-back rule of 189-193.                              *)
(***************************************************************************)
GarblerImplementsSession == Session!Spec

(***************************************************************************)
(* Delta stays secret: no XOR of the labels the evaluator holds in the     *)
(* clear is a garbler's delta, so it never holds both labels of a wire.  A *)
(* label drawn twice from the garbler rng, a label sent unhashed, or a     *)
(* delta made zero by constant (line 244) breaks it.                       *)
(***************************************************************************)
DeltaSecret == \A g \in Garblers : delta[g] \notin Span(Known)

(***************************************************************************)
(* The session completes: every party eventually stops, the evaluator     *)
(* done or aborted and every garbler done or failed (no party waits        *)
(* forever on another, also after an abort); and when no garbler deviated, *)
(* every party reaches the end of the circuit, every garbler having read   *)
(* back every output it is entitled to (lines 143-166, 189-199).           *)
(***************************************************************************)
Completes ==
  <>(/\ evStatus \in {"done", "abort"}
     /\ \A g \in Garblers : phase[g] \in {"done", "error"}
     /\ forged = {} /\ sendFailed = {} =>
          /\ evStatus = "done"
          /\ \A g \in Garblers : phase[g] = "done"
                                 /\ Len(decoded[g]) = Len(OutputsOf(g)))
=============================================================================
