-------------------------- MODULE SharedInputMerge --------------------------
(***************************************************************************)
(* SharedInput<F, Rep3 share> (co-circom-snarks lib.rs 299-355, 489-531):  *)
(* providers build their SharedInput with add_public_input and             *)
(* add_shared_input, then the inputs are folded with SharedInput::merge,   *)
(* the first input being the accumulator.                                  *)
(*                                                                         *)
(* SharedInput::merge repeats the public and shared checks of              *)
(* SerializeableSharedRep3Input::merge (Rep3InputMerge).  On inputs        *)
(* without maybe-entries the two must agree step for step: MergeSpec is    *)
(* shown to implement Rep3InputMerge!Spec under the mapping Lift, which    *)
(* reads a SharedInput as a file whose shared inputs are Replicated.       *)
(***************************************************************************)
EXTENDS InputShares

VARIABLES
  parts,   \* the SharedInput of every provider, Sources -> [pub, sh]
  acc,     \* the merged SharedInput so far (self of the next merge)
  next,    \* index of the next input to merge (other of the next merge)
  status,  \* "building", "merging", "ok" or "error"
  start    \* history: "add" if the inputs were built with add_* calls,
           \* "split" if the fold started from inputs as a split makes them

vars == <<parts, acc, next, status, start>>

\* SharedInput::default (lines 345-355).
EmptyInput == [pub |-> <<>>, sh |-> <<>>]

\* The inputs a provider's split produces: every name in at most one map
\* (the start states of MergeSpec).
SharedInputs ==
  {[pub |-> MapOf(e, "pub", LAMBDA x : x.vec),
    sh  |-> MapOf(e, "sh", LAMBDA x : x.vec)] :
      e \in [Keys -> {x \in Entries : x.cat \in {"absent", "pub"}
                                     \/ (x.cat = "sh" /\ x.tag = "Replicated")}]}

\* BTreeMap::insert, overwriting an old value.
Insert(m, k, v) == [x \in DOMAIN m \cup {k} |-> IF x = k THEN v ELSE m[x]]

(***************************************************************************)
(* add_public_input and add_shared_input (lines 494-502): plain inserts.   *)
(***************************************************************************)
AddPublicInput(s, k, v) ==
  /\ status = "building"
  /\ parts' = [parts EXCEPT ![s].pub = Insert(@, k, v)]
  /\ UNCHANGED <<acc, next, status, start>>

AddSharedInput(s, k, v) ==
  /\ status = "building"
  /\ parts' = [parts EXCEPT ![s].sh = Insert(@, k, v)]
  /\ UNCHANGED <<acc, next, status, start>>

(***************************************************************************)
(* SharedInput::merge (lines 504-531).                                     *)
(***************************************************************************)
\* Mutant: a shared name of other is not checked against self's public
\* inputs.
MergeError_NoSelfPublic(s, o) ==
  \/ \E k \in DOMAIN o.sh : k \in DOMAIN s.sh \/ k \in DOMAIN o.pub
  \/ \E k \in DOMAIN o.pub : k \notin DOMAIN s.pub \/ s.pub[k] # o.pub[k]

\* Mutant: a shared name already shared in self is not refused.
MergeError_NoDuplicate(s, o) ==
  \/ \E k \in DOMAIN o.sh : k \in DOMAIN s.pub \/ k \in DOMAIN o.pub
  \/ \E k \in DOMAIN o.pub : k \notin DOMAIN s.pub \/ s.pub[k] # o.pub[k]

\* Mutant: only the presence of other's public inputs is checked.
MergeError_NoValueCheck(s, o) ==
  \/ \E k \in DOMAIN o.sh :
        k \in DOMAIN s.sh \/ k \in DOMAIN s.pub \/ k \in DOMAIN o.pub
  \/ \E k \in DOMAIN o.pub : k \notin DOMAIN s.pub

\* lines 507-517: a shared name of other is neither shared in self nor
\* public in either input; lines 518-525: every public input of other is a
\* public input of self with the same value.
MergeError(s, o) ==
  \/ \E k \in DOMAIN o.sh :
        k \in DOMAIN s.sh \/ k \in DOMAIN s.pub \/ k \in DOMAIN o.pub
  \/ \E k \in DOMAIN o.pub : k \notin DOMAIN s.pub \/ s.pub[k] # o.pub[k]

\* lines 505-506, 516, 527-530: self's public inputs, the union of the
\* shared inputs.
Merge(s, o) == [pub |-> s.pub, sh |-> s.sh @@ o.sh]

(***************************************************************************)
(* The fold over the providers' inputs.                                    *)
(***************************************************************************)
Init ==
  /\ parts = [s \in Sources |-> EmptyInput]
  /\ acc = EmptyInput
  /\ next = 1
  /\ status = "building"
  /\ start = "add"

\* Every provider has built its input; the fold starts from the first.
StartMerge ==
  /\ status = "building"
  /\ acc' = parts[1]
  /\ next' = 2
  /\ status' = "merging"
  /\ UNCHANGED <<parts, start>>

\* acc = acc.merge(parts[next])?
MergeNext ==
  /\ status = "merging"
  /\ next <= NumSources
  /\ IF MergeError(acc, parts[next])
       THEN /\ status' = "error"
            /\ UNCHANGED acc
       ELSE /\ acc' = Merge(acc, parts[next])
            /\ UNCHANGED status
  /\ next' = next + 1
  /\ UNCHANGED <<parts, start>>

Finish ==
  /\ status = "merging"
  /\ next > NumSources
  /\ status' = "ok"
  /\ UNCHANGED <<parts, acc, next, start>>

Next ==
  \/ \E s \in Sources, k \in Keys, v \in FullVecs : AddPublicInput(s, k, v)
  \/ \E s \in Sources, k \in Keys, v \in ShareVecs : AddSharedInput(s, k, v)
  \/ StartMerge
  \/ MergeNext
  \/ Finish

Spec == Init /\ [][Next]_vars

\* The fold alone, from inputs as a provider's split produces them.
MergeInit ==
  /\ parts \in [Sources -> SharedInputs]
  /\ acc = parts[1]
  /\ next = 2
  /\ status = "merging"
  /\ start = "split"

MergeSpec == MergeInit /\ [][MergeNext \/ Finish]_vars

\* The fold after either start.
FoldSpec == (Init \/ MergeInit) /\ [][Next]_vars
-----------------------------------------------------------------------------
(***************************************************************************)
(* Public inputs agree: when the fold succeeds, every public input any     *)
(* provider added is in the result with the value that provider gave       *)
(* (merge lines 518-525, with the overwriting inserts of add_public_input). *)
(***************************************************************************)
PublicAgreed ==
  status = "ok" =>
    \A s \in Sources : \A k \in DOMAIN parts[s].pub :
       k \in DOMAIN acc.pub /\ acc.pub[k] = parts[s].pub[k]

(***************************************************************************)
(* Every shared input is stated once: when the fold succeeds, the shared   *)
(* names of the result are those some provider added, each added by       *)
(* exactly one provider, with that provider's shares (merge lines         *)
(* 507-517).                                                               *)
(***************************************************************************)
SharedStatedOnce ==
  status = "ok" =>
    /\ DOMAIN acc.sh = UNION {DOMAIN parts[s].sh : s \in Sources}
    /\ \A k \in DOMAIN acc.sh :
         \E s \in Sources : /\ {t \in Sources : k \in DOMAIN parts[t].sh} = {s}
                            /\ acc.sh[k] = parts[s].sh[k]

(***************************************************************************)
(* The two merges agree: SharedInput::merge folded over inputs without     *)
(* maybe-entries takes the same steps, with the same errors and results,   *)
(* as SerializeableSharedRep3Input::merge folded over the same inputs read *)
(* as files with Replicated shares.                                        *)
(***************************************************************************)
Lift(p) ==
  [pub  |-> p.pub,
   mpub |-> <<>>,
   sh   |-> [k \in DOMAIN p.sh |-> [tag |-> "Replicated", vec |-> p.sh[k]]],
   msh  |-> <<>>]

\* The claim is about inputs as a split makes them (start = "split"); a
\* behaviour that built its inputs with add_* is mapped to an abstract
\* merge of empty files that has not taken a step.
FromSplit == start = "split"
Rep3Merge == INSTANCE Rep3InputMerge
               WITH files  <- [s \in Sources |->
                                 Lift(IF FromSplit THEN parts[s] ELSE EmptyInput)],
                    acc    <- Lift(IF FromSplit THEN acc ELSE EmptyInput),
                    next   <- IF FromSplit THEN next ELSE 2,
                    status <- IF FromSplit THEN status ELSE "merging"

MergeImplementsRep3Merge == Rep3Merge!Spec

(***************************************************************************)
(* The fold is associative (spec 4.2: "pairwise, associative fold"): for   *)
(* three inputs, (a.merge(b)).merge(c) and a.merge(b.merge(c)) fail or     *)
(* succeed together and give the same input.  The public check of lines    *)
(* 518-525 only looks one way.                                             *)
(***************************************************************************)
\* The outcome of a merge as a set: {} for an error, {result} otherwise.
Fold2(a, b) == IF MergeError(a, b) THEN {} ELSE {Merge(a, b)}
Then(R, c) == UNION {Fold2(r, c) : r \in R}
Before(a, R) == UNION {Fold2(a, r) : r \in R}

=============================================================================
