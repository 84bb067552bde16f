# TLA+ models of co-snarks input merging and the Rep3 garbler

This directory has TLA+ specifications of five parts of co-snarks, plus the
TLC configurations that check them:

- the splitting of an input column into shares, and the merging of the
  resulting input share files (co-circom-snarks `lib.rs`);
- the building of a party's input from several such files (`lib.rs`);
- `SharedInput::merge` and the `add_*` constructors (`lib.rs`);
- `utils::roots_of_unity` (`lib.rs`);
- the two garblers of replicated 3-party garbled circuits
  (mpc-core `rep3/yao/garbler.rs`), together with their evaluator.

`PROJECT.json` lists the components, the runs, the mutants, the line map,
the findings and the hazards.

## Inventory

### Input share files (`lib.rs` 73-96)

`SerializeableSharedRep3Input` is one party's share of the circuit inputs
provided by one input provider. It has four `BTreeMap`s keyed by input name:

| map | holds |
|---|---|
| `public_inputs` | name → vector of field elements |
| `maybe_public_inputs` | name → vector of optional elements; a provider may know only some indices |
| `shared_inputs` | name → a `Rep3ShareVecType`: Replicated, SeededReplicated, Additive or SeededAdditive |
| `maybe_shared_inputs` | name → a `MaybeRep3ShareVecType`: Replicated or Additive with optional shares |

Two operations combine these files:

- **`merge(self, other)`** (180-294) combines two files pairwise. The caller
  folds it over all the files a party received. It checks:
  - that public inputs agree;
  - that a maybe-public name is not public and is staged on both sides,
    with no index held by both;
  - that a shared name appears once and is never public;
  - that the maybe-shared names are the same set with the same scheme.

  It zips the maybe-shared columns and moves a column that is now complete
  into `shared_inputs`.
- **`SharedInput::build_from_sources(files)`** (358-486) is the n-ary
  version. It runs in two steps:
  1. It accumulates public inputs, Replicated shared inputs, and staged
     maybe-public and maybe-shared columns, file by file. It merges
     repeated columns value by value and fails on a disagreement.
  2. It resolves every staged column. The column must be complete and must
     not clash with its own category.

  Schemes other than Replicated hit `todo!()`.

Hard behaviours:

- the order in which files are folded;
- the first failing name in BTreeMap order deciding the outcome;
- indices held by one, both or no provider;
- names staged under different categories in different files;
- `zip` truncating vectors of different lengths;
- panics in the middle of a build.

Properties needed:

- public agreement;
- no share fabricated, lost or moved to another index;
- category disjointness;
- order independence of the build;
- errors rather than panics.

### Rep3 garbler (`garbler.rs`)

Parties ID1 and ID2 each run a `Rep3Garbler` with the same garbler seed, so
they draw the same labels and delta. They are driven through the same
sequence of calls:

- `encode_wire`;
- `constant`;
- `and`, `xor`, `negate`;
- `output_all_parties`;
- `output_to_id0_and_id1`.

Only `and`, `constant` and `output` produce blocks:

- ID1 buffers the blocks in `circuit`.
- ID2 absorbs them into a SHA3 `hash`.

At every output, `send_circuit` sends ID1's buffer and ID2's digest to the
evaluator ID0, and resets both. The evaluator compares the two before it
evaluates anything. It then sends the output labels back:

- to both garblers after `output_all_parties`;
- to ID1 alone after `output_to_id0_and_id1`.

Each receiving garbler decodes the label against its zero label and delta.

`constant` (line 244) computes `zero.plus(self.delta.cmul_eq(x))`.
`cmul_eq` multiplies in place. For an even `x` (the constant 0) it makes the
garbler's own delta the zero label for the rest of the session, so every
later AND, negation, output hash and decode uses it. The model keeps delta
as per-garbler state for this reason.

Hard behaviours:

- three threads interleaving over two channels to ID0 and one channel back;
- the buffer and hash reset at each send;
- the gate and output indices that must agree across the parties;
- which party blocks in `read_blocks`;
- a deviating garbler;
- delta overwritten by `constant` partway through the circuit;
- a `send_circuit` whose network send fails after the buffer or hash was
  already swapped out (lines 86-101);
- the evaluator aborting while a garbler waits.

Properties needed:

- the session does what the abstract session `GarbledSession` promises:
  correct outputs in circuit order, released to a garbler only after the
  evaluator, an abort only after a deviation or a failed send;
- delta never leaks;
- the session completes, also after a failed send.

### SharedInput (`lib.rs` 299-355, 489-531)

A `SharedInput` has a public and a shared map. A provider builds one with
`add_public_input` and `add_shared_input` (plain inserts), and the inputs
are folded with `SharedInput::merge`. That merge repeats, by hand, the
public and shared checks of `SerializeableSharedRep3Input::merge`:

- every public input of `other` must be a public input of `self` with the
  same value (one direction only);
- a shared name of `other` must be neither shared in `self` nor public in
  either input.

### roots_of_unity (`lib.rs` 666-680)

The function searches the smallest quadratic non-residue q with the Euler
criterion, sets `roots[0] = q^TRACE`, squares it down the vector and
reverses the vector. `roots[j]` should then be a primitive 2^j-th root of
unity, as in circom.

### Not modelled

- The witness sharing functions (`lib.rs` 541-615). They slice the
  witness at `num_pub_inputs` and call sharing primitives that are not in
  this repository. They keep no state and make no decision for a model
  checker to explore.
- `encode_field` and `into_delta` of the garbler. `encode_field` is a
  straight-line call into `GCUtils`, which is not in this repository, so
  its number of rng draws is unknown. `into_delta` only returns delta.
- A garbler constructed for ID0 (`garbler.rs` 45-82). `new_with_delta` has
  no role check. Whether construction fails depends on
  `generate_garbler_randomness`, which is not in this repository.
- `VerificationError`: an error enum with no behaviour.
- The UltraHonk polynomial containers (`types.rs`). `spec.md` puts this
  layout out of scope. They are fixed-layout structs and iterators with no
  behaviour worth model checking.

## Modules

| module | models | state | actions |
|---|---|---|---|
| `InputShares` | the file format, and `share_rep3`/`maybe_share_rep3` | constants only | — |
| `Rep3InputMerge` | a fold of `merge` over `NumSources` files | `files`, `acc` (self of the next merge), `next`, `status` | `MergeNext` = one whole call to `merge`, `Finish` |
| `BuildFromSources` | `build_from_sources` | `shared_input`, `maybe_publics`, `maybe_shared`, `next`, `status` | `Accumulate` = one iteration of `for source in sources`, `Resolve` = the final two loops |
| `SharedInputMerge` | `add_*` and a fold of `SharedInput::merge` | `parts` (each provider's input), `acc`, `next`, `status` | `AddPublicInput`, `AddSharedInput`, `StartMerge`, `MergeNext` = one whole call to `merge`, `Finish` |
| `RootsOfUnity` | `roots_of_unity` | `p` (the field), `q`, `roots`, `i`, `pc` | `NextCandidate`, `RaiseToTrace`, `Square`, `ReverseRoots`: one loop iteration each |
| `Rep3Garbler` | both garblers and the evaluator | see below | see below |
| `GarbledSession` | what a garbled session promises (spec 4.4), abstract | `inputs`, `revealed` (the evaluator's outputs), `learned` (each garbler's), `corrupt`, `failed`, `aborted` | `Corrupt`, `Fail`, `Abort`, `EvLearns`, `GarblerLearns` |

**`InputShares`.** Names are the integers `1..NumKeys`, so numeric order is
the code's BTreeMap order. The value stated at index i is one of
`{i, N+i}`. This lets a property see a value that moved index, or two
providers that disagree. `Files` is every file the split tool can produce:
each name appears in exactly one map of a file. A shared entry is this
party's share from `ShareRep3` or `MaybeShareRep3`:

- the scheme tag follows the `seeded` and `additive` flags;
- an unknown element stays unknown in every share;
- the share value is an rng draw from `Cand(i)`.

`None` is a model value. `Lens` is the set of column lengths a file may
state. It is `{2}` except in `build_lengths_kept`.

**`Rep3InputMerge`.** Each loop of `merge` ends in `bail!` on failure, so the
error predicates only say whether some name fails. `Merge` builds the four
maps exactly as lines 288-293 return them.

**`BuildFromSources`.** Where a panic versus an error matters, the outcome of
a loop is decided by its first failing name (`FirstFailure`). `BuildFrom` is
the same function as a `RECURSIVE` operator. The order-independence property
uses it.

**`SharedInputMerge`.** `Init` starts a fold whose inputs the providers
build with the `add_*` calls. `MergeInit` starts the fold from every triple
of inputs a provider's split can give. `FoldSpec` allows both starts, and
`MergeSpec` only the second. The history variable `start` records which
start a behaviour took; it is not in the code. `Lift` reads a `SharedInput`
as a file whose shared inputs are Replicated. The refinement mapping sends
a split start through `Lift` to `Rep3InputMerge`. It sends an `add_*` start
to an abstract merge of empty files that takes no step, because inputs
built with `add_*` may put one name in both maps, which no file can do.
Under that mapping, `FoldSpec` implements `Rep3InputMerge!Spec`.

**`RootsOfUnity`.** `PowMod` is square-and-multiply. `Legendre` is the
Euler criterion. `TwoAdicity` and `Trace` are the field constants. The
properties compare the result with reference definitions by enumeration:

- squares by trying every y;
- the order 2^a by a squarings.

**`Rep3Garbler`.** Labels keep only their XOR structure:

- a label is a set of atoms;
- XOR is symmetric difference;
- delta is draw 0 of the rng, and `delta` holds each garbler's current
  value (`constant` may overwrite it);
- `Cmul(L, c)` is `WireMod2::cmul`: `L` for an odd `c`, the zero label for
  an even one;
- a hash or ciphertext block is a tuple of what it was computed from;
- SHA3 is an injective `Digest`.

Per garbler, the state is `pc` (the next call), `phase`, `rng`, `delta`,
`current_gate`, `current_output`, `wires` (zero labels), `encoded`
(`encode_wire`'s encoded labels, under the delta of the time), `circuit`
and `hash`. There are
three channels: `toEv1`, `toEv2` and `fromEv`. The evaluator's variables
start with `ev`.

Garbler actions, one per operation:

| action | operation |
|---|---|
| `EncodeWire` | `encode_wire` |
| `AddBundle` | `add_bundle_to_circuit` with `add_wire_to_circuit`: one label block per wire, given the encoded labels of inputs both garblers hold |
| `Constant` | `constant`, with `cmul_eq` overwriting the garbler's delta |
| `Xor` | `xor` |
| `Negate` | `negate` |
| `And` | `and` |
| `OutputAndSend` | `output_evaluator` followed by `send_circuit` (the operator `SendCircuit`), up to the blocking read |
| `SendFails` | the same call when the send of `send_circuit` fails (the `?` of lines 90 and 101), after the swap; the step itself is `FailedSend(g, "error")`, which also serves the mutant `SendFails_Await` (the garbler waits on instead of ending in error) |
| `OutputGarbler` | `read_blocks` returning and the decoding |
| `ReadFails` | `read_blocks` failing after an abort |
| `GarblerDone` | the end of the call sequence |

`Forge` lets a garbler in `Deviant` replace the last block it added. At most
one garbler deviates. `SendFails` is possible only for a garbler in `Lossy`.

The evaluator is not in this repository. It is modelled from the spec:

- `EvReceive` compares the digest with the hash of ID1's circuit;
- `EvPeerGone` aborts when a garbler has failed and its channel is empty
  (spec 7: any I/O failure aborts the session);
- `EvGate` evaluates one call, with abstract half-gate decryption;
- `EvBundle` takes the labels of bundled inputs from the circuit (an input
  not in a bundle reaches the evaluator out of band);
- `EvOutput` matches the output hashes and replies.

**`GarbledSession` and the refinement.** The abstract session has no labels,
blocks or channels. The outputs are fixed by the inputs. The evaluator
learns them in circuit order (`EvLearns`), and a garbler learns an output
(`GarblerLearns`) only once the evaluator has released it to that garbler.
`Abort` needs a deviated or failed garbler. `Fail` needs the garbler's own
send failure or an aborted session. Fairness says every output is
eventually learned unless the session aborted.

`Rep3Garbler` defines the instance `Session` with this refinement mapping:

| abstract | concrete |
|---|---|
| `inputs` | `bits` |
| `revealed` | `evBits` |
| `learned` | `decoded` |
| `corrupt` | `forged` |
| `failed` | the garblers in phase `"error"` |
| `aborted` | `evStatus = "abort"` |
| `Outs(in)` | `SessionOuts(in)`: each output's expected value, and the garblers the evaluator sends it to |

The property `GarblerImplementsSession == Session!Spec` is checked in the
garbler run. It replaces the earlier `OutputCorrect` and
`HonestRunAgrees` invariants, because it implies both.

## Runs

Each passing run has a mutant for every property: a plausible bug in the
mapped code that TLC finds.

| run | expect | what it shows |
|---|---|---|
| `merge_fold` | pass | Folding `merge` over 3 files never fabricates, loses, moves or mixes shares, and keeps public inputs consistent (`PublicAgreement`, `SharedFaithful`). |
| `merge_maybe_public_aligned` | violation | `(None, None) => continue` (line 211) shrinks a maybe-public column. |
| `merge_maybe_public_kept` | violation | A maybe-public name only in self is dropped (lines 196, 290). |
| `merge_maybe_shared_staged` | violation | Pairwise merge promotes completed maybe-shared columns (lines 255, 275), which the spec reserves for the final build. |
| `build` | pass | `build_from_sources` returns exactly the stated public values and shares, and its result does not depend on the order of the files (`BuildOrderIndependent`). No share scheme other than Replicated is ever accepted (`UnsupportedNeverAccepted`). |
| `build_categories_disjoint` | violation | One name can end up both public and shared (lines 460, 471). |
| `build_lengths_kept` | violation | Two staged shared columns of lengths 1 and 2 are zipped (line 425) into a shared input of length 1, without an error; staged public columns of different lengths are refused (line 394). |
| `shared_input_merge` | pass | After the `add_*` calls or from split inputs, a successful fold of `SharedInput::merge` keeps every public value and states every share exactly once (`PublicAgreed`, `SharedStatedOnce`). From split inputs, `SharedInput::merge` takes the same steps, with the same errors and results, as `SerializeableSharedRep3Input::merge` on the same inputs (`MergeImplementsRep3Merge`): the two hand-written copies of the checks agree. |
| `shared_input_merge_associative` | violation | The fold depends on its bracketing: with `a.pub = {x}`, `b.pub = {}` and `c.pub = {x}`, `(a·b)·c` succeeds but `a·(b·c)` fails. Spec 4.2 calls merge an associative fold. |
| `roots_of_unity` | pass | For every odd prime field up to 257, `roots_of_unity` ends (`Terminates`). It returns the smallest non-residue and, at every j, a primitive 2^j-th root of unity (`RootsOfUnityCorrect`). |
| `garbler_session` | pass | For a circuit whose only constant is 1: either garbler may forge one block, and either garbler's `send_circuit` may fail. The three parties implement `GarbledSession` (`GarblerImplementsSession`), so honest garblers whose sends succeed always pass the cross-check. No garbler's delta becomes an XOR of labels the evaluator holds (`DeltaSecret`). Every party stops, and every party finishes when nobody forged and no send failed (`Completes`). |
| `garbler_const_zero` | violation | Circuit `x`, `const 0`, `x XOR 0`, output to all parties, with honest garblers. For `x = 1` the session aborts: `constant(0)` zeroed both garblers' delta (line 244), so the output hashes are of `zero` and `zero + 0`, while the evaluator's label still carries the old delta. The abstract session allows no abort without a deviation or failure. |

Two divergences are found by reading the code and have no run:

- `todo!()` panics on unsupported schemes (lines 384-386, 441-449, 482),
  where spec 4.2 asks for an error. The `build` run checks the part of
  that rule the code keeps: such a scheme is never accepted
  (`UnsupportedNeverAccepted`).
- `add_public_input` and `add_shared_input` can put one name in both maps.
- `build_from_sources` accepts a maybe-public or maybe-shared value stated
  equally by two files (lines 399-403, 427-431), where spec 4.2 and 8 call
  any double-provided entry an error. `BuildPublicFaithful` and
  `BuildSharedFaithful` follow the code here.

### Bounds

**Merge and build runs:** 1 name, columns of length 2, 3 files, with every
file the split tool can produce. This gives 46,656 initial states. It covers:

- every category combination of a name across three files;
- indices held by no, one or several providers;
- disagreeing values;
- every tag pair.

Two names would only add BTreeMap ordering between independent names. A
failure is decided by whether any name fails, except for the panic-versus-
error order that `FirstFailure` models.

`build_lengths_kept` uses 2 files with columns of length 1 or 2. Two
files are enough for one zip.

**`SharedInputMerge` runs:** 1 name, length 2, 3 providers. `FoldSpec`
interleaves every `add_*` call and also starts from every triple of inputs
a split can give (3,744 states). `MergeSpec` starts only from the
triples. Three inputs are the fewest that can show a
bracketing difference.

**`roots_of_unity`:** every odd prime up to 257. This covers two-adicities
1 to 8, non-residues from 2 to 7 and 372 states.

**Garbler run:** a 10-call circuit, over all four values of its two input
bits. The circuit covers every call kind: `input`, `bundle` (the first input
is sent in the circuit), `and`, `not`, `const`, `xor`, and both output
kinds. It has:

- an AND gate on each side of an output, so the gate index carries across
  a `send_circuit`;
- two sends, so the buffer and hash reset matter.

`Deviant = Lossy = {1, 2}`: each garbler may forge a block, and each
garbler's send may fail, at either send. That gives 2,432 states.

Its constant is 1, which leaves delta as it is. Any even constant before an
output breaks the session, and `garbler_const_zero` shows that with the
smallest such circuit (4 calls, both values of its input). So
`garbler_session` checks every other behaviour of the garblers, and the
even constant is reported as a finding rather than bounded away silently.

### Fairness

`Rep3Garbler` assumes weak fairness for each garbler and for the evaluator.
Each is its own party in its own process, and a blocked `recv` returns once
its message has arrived, or fails once the channel is closed. `GarbledSession`
asks weak fairness of `EvLearns` and of each `GarblerLearns(g)`, and the
refinement checks that the concrete fairness gives it. `Abort` and `Fail`
carry no fairness: a session need not abort. `RootsOfUnity` assumes weak fairness of
its one sequential thread: a running loop takes its next iteration. The
merge modules have no fairness: they are sequential functions, checked only
for safety.

### Deadlock

- **The merge, build and `roots_of_unity` runs:** deadlock checking is off,
  because these functions return.
- **`garbler_session` and `garbler_const_zero`:** deadlock checking is off. `SessionOver` stutters at
  a finished session. `Completes` checks the session's end, so a party left
  waiting is reported as a liveness violation.

## Plan for later sittings

1. `SharedInputMerge` with maybe-entries and seeded shares: an abstract
   "union of disjoint inputs" specification that both merges and
   `build_from_sources` refine.
2. `encode_field`, once `GCUtils` is in the repository and fixes its draws.
3. Larger merge instances (two names) with symmetry on the values, once
   the initial-state enumeration allows it.
