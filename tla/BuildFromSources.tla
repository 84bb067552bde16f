-------------------------- MODULE BuildFromSources --------------------------
(***************************************************************************)
(* SharedInput::build_from_sources (co-circom-snarks lib.rs 358-486): the  *)
(* N-ary merge of one party's input share files into a SharedInput.  One   *)
(* step accumulates one file (the body of the loop of lines 368-457), the  *)
(* last step resolves the staged maybe-inputs (lines 458-485).  An         *)
(* unimplemented scheme combination reaches todo!() and panics.            *)
(***************************************************************************)
EXTENDS InputShares, SequencesExt

VARIABLES
  files,          \* the input share files, 1..NumSources -> Files
  shared_input,   \* [pub: name -> vector, sh: name -> share vector]
  maybe_publics,  \* name -> optional vector
  maybe_shared,   \* name -> [tag, vec] with optional elements
  next,           \* index of the next file to accumulate
  status          \* "accumulating", "ok", "error" or "panic"

vars == <<files, shared_input, maybe_publics, maybe_shared, next, status>>

\* Outcome of a loop over the names D in BTreeMap order, where F(k) is the
\* outcome of the body for name k: the first name that fails decides.
FirstFailure(D, F(_)) ==
  LET bad == {k \in D : F(k) # "none"}
  IN  IF bad = {} THEN "none" ELSE F(Min(bad))

FirstOf(outcomes) ==
  LET failed == {i \in DOMAIN outcomes : outcomes[i] # "none"}
  IN  IF failed = {} THEN "none" ELSE outcomes[Min(failed)]

(***************************************************************************)
(* Accumulating file f into the state st (the loop body, lines 368-457).   *)
(* st is [pub, sh, mpubs, mshs].                                           *)
(***************************************************************************)
\* Mutant: a public input is inserted without comparing the old value.
PublicOutcome_NoCompare(st, f) == "none"

\* lines 369-375: insert, failing on a different old value.
PublicOutcome(st, f) ==
  FirstFailure(DOMAIN f.pub, LAMBDA k :
    IF k \in DOMAIN st.pub /\ st.pub[k] # f.pub[k] THEN "error" ELSE "none")

\* Mutant: the scheme of a shared input is not looked at.
SharedOutcome_AnyTag(st, f) ==
  FirstFailure(DOMAIN f.sh, LAMBDA k :
    IF k \in DOMAIN st.sh THEN "error" ELSE "none")

\* lines 377-387: only Replicated is implemented; a name already shared
\* fails.
SharedOutcome(st, f) ==
  FirstFailure(DOMAIN f.sh, LAMBDA k :
    IF f.sh[k].tag # "Replicated" THEN "panic"
    ELSE IF k \in DOMAIN st.sh THEN "error" ELSE "none")

\* lines 397-408: zip, keeping agreeing values and None.
MergeOpt(a, b) ==
  [i \in 1..ZipLen(a, b) |-> IF IsSome(a[i]) THEN a[i] ELSE b[i]]
Disagree(a, b) ==
  \E i \in 1..ZipLen(a, b) : IsSome(a[i]) /\ IsSome(b[i]) /\ a[i] # b[i]

\* Mutant: staged public columns are merged without comparing values.
MaybePublicOutcome_NoCompare(st, f) ==
  FirstFailure(DOMAIN f.mpub, LAMBDA k :
    IF k \in DOMAIN st.mpubs /\ Len(st.mpubs[k]) # Len(f.mpub[k])
    THEN "error" ELSE "none")

\* lines 390-414: a name already staged must have the same length and
\* agree wherever both hold a value.
MaybePublicOutcome(st, f) ==
  FirstFailure(DOMAIN f.mpub, LAMBDA k :
    IF k \in DOMAIN st.mpubs
       /\ (Len(st.mpubs[k]) # Len(f.mpub[k]) \/ Disagree(st.mpubs[k], f.mpub[k]))
    THEN "error" ELSE "none")

\* Mutant: staged shared columns are merged without comparing shares.
MaybeSharedOutcome_NoCompare(st, f) ==
  FirstFailure(DOMAIN f.msh, LAMBDA k :
    IF k \notin DOMAIN st.mshs THEN "none"
    ELSE IF st.mshs[k].tag # "Replicated" \/ f.msh[k].tag # "Replicated"
      THEN "panic" ELSE "none")

\* lines 416-456: merging two staged columns is implemented for
\* Replicated/Replicated only (no length check); the rest is todo!().
MaybeSharedOutcome(st, f) ==
  FirstFailure(DOMAIN f.msh, LAMBDA k :
    IF k \notin DOMAIN st.mshs THEN "none"
    ELSE IF st.mshs[k].tag # "Replicated" \/ f.msh[k].tag # "Replicated"
      THEN "panic"
    ELSE IF Disagree(st.mshs[k].vec, f.msh[k].vec) THEN "error" ELSE "none")

AccumulateOutcome(st, f) ==
  FirstOf(<<PublicOutcome(st, f), SharedOutcome(st, f),
            MaybePublicOutcome(st, f), MaybeSharedOutcome(st, f)>>)

\* The state after the loop body, for a body without failure.
Accumulated(st, f) ==
  [pub   |-> f.pub @@ st.pub,
   sh    |-> [k \in DOMAIN f.sh |-> f.sh[k].vec] @@ st.sh,
   mpubs |-> [k \in DOMAIN f.mpub |->
                IF k \in DOMAIN st.mpubs THEN MergeOpt(st.mpubs[k], f.mpub[k])
                ELSE f.mpub[k]] @@ st.mpubs,
   mshs  |-> [k \in DOMAIN f.msh |->
                IF k \in DOMAIN st.mshs
                THEN [tag |-> "Replicated",
                      vec |-> MergeOpt(st.mshs[k].vec, f.msh[k].vec)]
                ELSE f.msh[k]] @@ st.mshs]

(***************************************************************************)
(* Resolving the staged maps (lines 458-485).                              *)
(***************************************************************************)
\* Mutant: a staged public column is resolved without the completeness
\* test.
ResolvePublicOutcome_NoCompleteness(st) ==
  FirstFailure(DOMAIN st.mpubs, LAMBDA k :
    IF k \in DOMAIN st.pub THEN "error" ELSE "none")

\* lines 459-468: a staged public name must not be public and must be
\* complete.
ResolvePublicOutcome(st) ==
  FirstFailure(DOMAIN st.mpubs, LAMBDA k :
    IF k \in DOMAIN st.pub \/ ~AllSome(st.mpubs[k]) THEN "error" ELSE "none")

\* lines 470-484: a staged shared name must not be shared, and a
\* Replicated column must be complete; Additive is todo!().
ResolveSharedOutcome(st) ==
  FirstFailure(DOMAIN st.mshs, LAMBDA k :
    IF k \in DOMAIN st.sh THEN "error"
    ELSE IF st.mshs[k].tag # "Replicated" THEN "panic"
    ELSE IF ~AllSome(st.mshs[k].vec) THEN "error" ELSE "none")

ResolveOutcome(st) ==
  FirstOf(<<ResolvePublicOutcome(st), ResolveSharedOutcome(st)>>)

Resolved(st) ==
  [pub |-> st.mpubs @@ st.pub,
   sh  |-> [k \in DOMAIN st.mshs |-> st.mshs[k].vec] @@ st.sh]

(***************************************************************************)
(* The specification.                                                      *)
(***************************************************************************)
State == [pub |-> shared_input.pub, sh |-> shared_input.sh,
          mpubs |-> maybe_publics, mshs |-> maybe_shared]

Init ==
  /\ files \in [Sources -> Files]
  /\ shared_input = [pub |-> <<>>, sh |-> <<>>]
  /\ maybe_publics = <<>>
  /\ maybe_shared = <<>>
  /\ next = 1
  /\ status = "accumulating"

\* One iteration of "for source in sources" (lines 368-457).
Accumulate ==
  /\ status = "accumulating"
  /\ next <= NumSources
  /\ LET f == files[next]
         out == AccumulateOutcome(State, f)
         st == Accumulated(State, f)
     IN  IF out = "none"
           THEN /\ shared_input' = [pub |-> st.pub, sh |-> st.sh]
                /\ maybe_publics' = st.mpubs
                /\ maybe_shared' = st.mshs
                /\ UNCHANGED status
           ELSE /\ status' = out
                /\ UNCHANGED <<shared_input, maybe_publics, maybe_shared>>
  /\ next' = next + 1
  /\ UNCHANGED files

\* "now check if all is present" (lines 458-485).
Resolve ==
  /\ status = "accumulating"
  /\ next > NumSources
  /\ LET out == ResolveOutcome(State)
     IN  IF out = "none"
           THEN /\ shared_input' = Resolved(State)
                /\ maybe_publics' = <<>>
                /\ maybe_shared' = <<>>
                /\ status' = "ok"
           ELSE /\ status' = out
                /\ UNCHANGED <<shared_input, maybe_publics, maybe_shared>>
  /\ UNCHANGED <<files, next>>

Next == Accumulate \/ Resolve

Spec == Init /\ [][Next]_vars

\* The whole of build_from_sources on a sequence of files, as one operator.
RECURSIVE BuildFrom(_, _)
BuildFrom(st, fs) ==
  IF fs = <<>>
    THEN IF ResolveOutcome(st) = "none" THEN [out |-> "ok", res |-> Resolved(st)]
         ELSE [out |-> ResolveOutcome(st), res |-> <<>>]
  ELSE IF AccumulateOutcome(st, Head(fs)) # "none"
    THEN [out |-> AccumulateOutcome(st, Head(fs)), res |-> <<>>]
  ELSE BuildFrom(Accumulated(st, Head(fs)), Tail(fs))

EmptyState == [pub |-> <<>>, sh |-> <<>>, mpubs |-> <<>>, mshs |-> <<>>]
-----------------------------------------------------------------------------
TypeOK ==
  /\ DOMAIN files = Sources
  /\ status \in {"accumulating", "ok", "error", "panic"}
  /\ next \in 1..(NumSources + 1)
  /\ DOMAIN shared_input.pub \subseteq Keys
  /\ \A k \in DOMAIN shared_input.pub : shared_input.pub[k] \in Seq(Vals)
  /\ DOMAIN shared_input.sh \subseteq Keys
  /\ DOMAIN maybe_publics \subseteq Keys
  /\ \A k \in DOMAIN maybe_shared : maybe_shared[k].tag \in MaybeTags

(***************************************************************************)
(* Public inputs are resolved faithfully: when build_from_sources returns  *)
(* a SharedInput, its public names are exactly those some file states as   *)
(* public or maybe-public, every column has the full length, and at every  *)
(* index all files that state a value there state the value the result     *)
(* holds.  Lines 369-375 (public against public), 394-408 (staged against  *)
(* staged) and 459-467 (staged against public, completeness) decide this.  *)
(***************************************************************************)
BuildPublicFaithful ==
  status = "ok" =>
    /\ DOMAIN shared_input.pub
         = {k \in Keys : \E s \in Sources :
                           k \in DOMAIN files[s].pub \cup DOMAIN files[s].mpub}
    /\ \A k \in DOMAIN shared_input.pub :
         /\ Len(shared_input.pub[k]) = N
         /\ \A i \in Idx :
              StatedAt(files, {"pub", "mpub"}, k, i) = {shared_input.pub[k][i]}

(***************************************************************************)
(* Shared inputs are resolved faithfully: the shared names of the result   *)
(* are those some file states as shared or maybe-shared, and at every      *)
(* index of a shared column every file that states a share there states    *)
(* the share the result holds (a column stated whole by two files is       *)
(* refused).  Lines 377-387, 416-451 and 470-481 decide this.              *)
(***************************************************************************)
BuildSharedFaithful ==
  status = "ok" =>
    /\ DOMAIN shared_input.sh
         = {k \in Keys : \E s \in Sources :
                           k \in DOMAIN files[s].sh \cup DOMAIN files[s].msh}
    /\ \A k \in DOMAIN shared_input.sh :
         /\ Cardinality({s \in Sources : k \in DOMAIN files[s].sh}) <= 1
         /\ Len(shared_input.sh[k]) = N
         /\ \A i \in Idx :
              StatedAt(files, {"sh", "msh"}, k, i) = {shared_input.sh[k][i]}

(***************************************************************************)
(* The order of the files does not matter: when build_from_sources        *)
(* succeeds, it succeeds with the same SharedInput for every order of the  *)
(* same files.  The providers' files reach the code in no agreed order.    *)
(***************************************************************************)
BuildOrderIndependent ==
  status = "ok" =>
    \A order \in SetToSeqs(Sources) :
      BuildFrom(EmptyState, [j \in Sources |-> files[order[j]]])
        = [out |-> "ok", res |-> shared_input]

(***************************************************************************)
(* A share scheme the code does not implement is never accepted (spec 4.2: *)
(* unsupported combinations "must be rejected ... rather than silently     *)
(* guessed"): when build_from_sources returns a SharedInput, every shared  *)
(* and maybe-shared column of every file was Replicated.  The todo!() arms *)
(* of lines 384-386, 441-449 and 482 reject the others, whichever file and *)
(* whichever step meets them first.                                        *)
(***************************************************************************)
UnsupportedNeverAccepted ==
  status = "ok" =>
    \A s \in Sources :
      \A c \in {"sh", "msh"} :
        \A k \in DOMAIN files[s][c] : files[s][c][k].tag = "Replicated"

(***************************************************************************)
(* A name is in one collection only (spec 3, SharedInput: "a given name    *)
(* may occupy at most one of the four collections"; 4.2: resolved columns  *)
(* are "re-checked against the disjointness/collision rules"): no name of  *)
(* a returned SharedInput is both public and shared.                       *)
(***************************************************************************)
BuildCategoriesDisjoint ==
  status = "ok" => DOMAIN shared_input.pub \cap DOMAIN shared_input.sh = {}

(***************************************************************************)
(* No column is cut short: when build_from_sources succeeds, every input   *)
(* of the result has the length of every column a file stated for that    *)
(* name.  Line 394 refuses staged public columns of different lengths; the *)
(* staged shared columns are zipped at line 425 with no such test.        *)
(***************************************************************************)
StatedLens(k) ==
  {Len(ColumnOf(files[p[1]], p[2], k)) :
     p \in {q \in Sources \X {"pub", "mpub", "sh", "msh"} :
              k \in DOMAIN files[q[1]][q[2]]}}

BuildLengthsKept ==
  status = "ok" =>
    /\ \A k \in DOMAIN shared_input.pub : StatedLens(k) = {Len(shared_input.pub[k])}
    /\ \A k \in DOMAIN shared_input.sh : StatedLens(k) = {Len(shared_input.sh[k])}
=============================================================================
