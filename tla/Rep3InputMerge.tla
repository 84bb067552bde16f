--------------------------- MODULE Rep3InputMerge ---------------------------
(***************************************************************************)
(* SerializeableSharedRep3Input::merge (co-circom-snarks lib.rs 180-294),  *)
(* folded over the input share files of one party: the first file is the  *)
(* accumulator and every further file is merged into it in turn, the fold  *)
(* stopping at the first error.                                            *)
(***************************************************************************)
EXTENDS InputShares

VARIABLES
  files,   \* the input share files, 1..NumSources -> Files
  acc,     \* the merged file so far (self of the next merge)
  next,    \* index of the next file to merge (other of the next merge)
  status   \* "merging", "ok" or "error"

vars == <<files, acc, next, status>>

(***************************************************************************)
(* Errors of merge(self, other), checked by the code in this order; every  *)
(* one of them ends the merge, so only whether one occurs matters.         *)
(***************************************************************************)
\* Mutant: only the presence of other's public inputs is checked.
PublicError_KeyOnly(s, o) == \E k \in DOMAIN o.pub : k \notin DOMAIN s.pub

\* lines 186-193: every public input of other is a public input of self
\* with the same value.
PublicError(s, o) ==
  \E k \in DOMAIN o.pub : k \notin DOMAIN s.pub \/ s.pub[k] # o.pub[k]

\* lines 196-208: a maybe-public name of other must not be public in self,
\* must be maybe-public in self, and no index may be held by both.
MaybePublicError(s, o) ==
  \E k \in DOMAIN o.mpub :
     \/ k \in DOMAIN s.pub
     \/ k \notin DOMAIN s.mpub
     \/ BothSome(s.mpub[k], o.mpub[k])

\* Mutant: a shared name already shared in self is not refused.
SharedError_NoDuplicate(s, o) ==
  \E k \in DOMAIN o.sh : k \in DOMAIN s.pub \/ k \in DOMAIN o.pub

\* lines 217-225: a shared name of other is neither shared in self nor
\* public in either file.
SharedError(s, o) ==
  \E k \in DOMAIN o.sh :
     k \in DOMAIN s.sh \/ k \in DOMAIN s.pub \/ k \in DOMAIN o.pub

\* lines 230-240, 252, 272, 282-283: both files have the same number of
\* maybe-shared names and their sorted names agree pairwise (so the same
\* set), with the same scheme and no index held by both.
MaybeSharedError(s, o) ==
  \/ DOMAIN s.msh # DOMAIN o.msh
  \/ \E k \in DOMAIN s.msh :
        \/ s.msh[k].tag # o.msh[k].tag
        \/ BothSome(s.msh[k].vec, o.msh[k].vec)

MergeError(s, o) ==
  PublicError(s, o) \/ MaybePublicError(s, o)
  \/ SharedError(s, o) \/ MaybeSharedError(s, o)

(***************************************************************************)
(* The merged maps, for a merge without error.                             *)
(***************************************************************************)
\* lines 206-213: zip the two columns; an index held by neither side is
\* skipped ("continue"), so the merged column is shorter than its inputs.
MergeMaybePublic(a, b) ==
  LET pairs == [i \in 1..ZipLen(a, b) |-> <<a[i], b[i]>>]
      kept  == SelectSeq(pairs, LAMBDA p : p # <<None, None>>)
  IN  [j \in DOMAIN kept |->
         IF IsSome(kept[j][1]) THEN kept[j][1] ELSE kept[j][2]]

\* lines 246-254, 266-274: zip the two columns, keeping None where neither
\* side holds the index.
MergeMaybeShared(a, b) ==
  [i \in 1..ZipLen(a, b) |-> IF IsSome(a[i]) THEN a[i] ELSE b[i]]

\* Mutant: every maybe-shared column is moved to the shared inputs, the
\* completeness test of lines 255 and 275 being dropped.
Merge_PromoteAll(s, o) ==
  LET col(k) == MergeMaybeShared(s.msh[k].vec, o.msh[k].vec)
  IN  [pub  |-> s.pub,
       mpub |-> [k \in DOMAIN o.mpub |->
                   MergeMaybePublic(s.mpub[k], o.mpub[k])],
       sh   |-> [k \in DOMAIN s.msh |-> [tag |-> s.msh[k].tag, vec |-> col(k)]]
                @@ s.sh @@ o.sh,
       msh  |-> <<>>]

\* The whole of merge (lines 180-294).  Public inputs are self's; only
\* other's maybe-public names are merged (lines 195-215); other's shared
\* inputs are added (226); a maybe-shared column that the merge completes
\* is moved to the shared inputs, overwriting (255-256, 275-276), the
\* others stay maybe-shared (257-260, 277-280).
Merge(s, o) ==
  LET col(k) == MergeMaybeShared(s.msh[k].vec, o.msh[k].vec)
      done == {k \in DOMAIN s.msh : AllSome(col(k))}
  IN  [pub  |-> s.pub,
       mpub |-> [k \in DOMAIN o.mpub |->
                   MergeMaybePublic(s.mpub[k], o.mpub[k])],
       sh   |-> [k \in done |-> [tag |-> s.msh[k].tag, vec |-> col(k)]]
                @@ s.sh @@ o.sh,
       msh  |-> [k \in DOMAIN s.msh \ done |->
                   [tag |-> s.msh[k].tag, vec |-> col(k)]]]

(***************************************************************************)
(* The fold over the files.                                                *)
(***************************************************************************)
Init ==
  /\ files \in [Sources -> Files]
  /\ acc = files[1]
  /\ next = 2
  /\ status = "merging"

\* acc = acc.merge(files[next])?
MergeNext ==
  /\ status = "merging"
  /\ next <= NumSources
  /\ IF MergeError(acc, files[next])
       THEN /\ status' = "error"
            /\ UNCHANGED acc
       ELSE /\ acc' = Merge(acc, files[next])
            /\ UNCHANGED status
  /\ next' = next + 1
  /\ UNCHANGED files

\* Every file merged without error.
Finish ==
  /\ status = "merging"
  /\ next > NumSources
  /\ status' = "ok"
  /\ UNCHANGED <<files, acc, next>>

Next == MergeNext \/ Finish

Spec == Init /\ [][Next]_vars

-----------------------------------------------------------------------------
TypeOK ==
  /\ DOMAIN files = Sources
  /\ status \in {"merging", "ok", "error"}
  /\ next \in 2..(NumSources + 1)
  /\ DOMAIN acc = {"pub", "mpub", "sh", "msh"}
  /\ \A c \in {"pub", "mpub", "sh", "msh"} : DOMAIN acc[c] \subseteq Keys
  /\ \A k \in DOMAIN acc.mpub : acc.mpub[k] \in Seq(Vals \cup {None})
  /\ \A k \in DOMAIN acc.sh : acc.sh[k].tag \in ShareTags
                             /\ acc.sh[k].vec \in Seq(Vals)
  /\ \A k \in DOMAIN acc.msh : acc.msh[k].tag \in MaybeTags

(***************************************************************************)
(* Public inputs agree: when the fold succeeds, every public input stated  *)
(* by any file is in the result with the value that file stated (merge     *)
(* lines 186-193 reject a missing or different public input).              *)
(***************************************************************************)
PublicAgreement ==
  status = "ok" =>
    \A s \in Sources : \A k \in DOMAIN files[s].pub :
       k \in DOMAIN acc.pub /\ acc.pub[k] = files[s].pub[k]

(***************************************************************************)
(* Shared inputs are never fabricated or lost: when the fold succeeds, the *)
(* shared and maybe-shared names of the result are exactly those some file *)
(* states as shared or maybe-shared; a shared column stated whole comes    *)
(* from exactly one file unchanged; every other column holds at each index *)
(* the one share exactly one file stated there, in that file's scheme.     *)
(* This is what the disjointness checks of lines 217-225 and the          *)
(* per-index checks and the promotion of lines 241-281 must achieve.       *)
(***************************************************************************)
SharedFaithful ==
  status = "ok" =>
    LET whole(k) == {s \in Sources : k \in DOMAIN files[s].sh}
        part(k)  == {s \in Sources : k \in DOMAIN files[s].msh}
        res(k)   == IF k \in DOMAIN acc.sh THEN acc.sh[k] ELSE acc.msh[k]
    IN  /\ DOMAIN acc.sh \cup DOMAIN acc.msh
             = {k \in Keys : whole(k) \cup part(k) # {}}
        /\ DOMAIN acc.sh \cap DOMAIN acc.msh = {}
        /\ \A k \in DOMAIN acc.sh \cup DOMAIN acc.msh :
             IF whole(k) # {}
               THEN /\ part(k) = {}
                    /\ \E s \in whole(k) : whole(k) = {s}
                                            /\ res(k) = files[s].sh[k]
               ELSE /\ \A s \in part(k) : res(k).tag = files[s].msh[k].tag
                    /\ Len(res(k).vec) = N
                    /\ \A i \in Idx :
                         LET by == {s \in part(k) : IsSome(files[s].msh[k].vec[i])}
                         IN  IF by = {} THEN res(k).vec[i] = None
                             ELSE \E s \in by : by = {s}
                                     /\ res(k).vec[i] = files[s].msh[k].vec[i]
(***************************************************************************)
(* Maybe-public columns keep their indices (spec 4.2: "neither concrete    *)
(* leaves the index unresolved"): when the fold succeeds, a merged         *)
(* maybe-public column has the length of the columns merged and holds at   *)
(* each index either None or a value some file stated at that index.       *)
(* Merge lines 206-213 decide this.                                        *)
(***************************************************************************)
MaybePublicAligned ==
  status = "ok" =>
    \A k \in DOMAIN acc.mpub :
       /\ Len(acc.mpub[k]) = N
       /\ \A i \in Idx :
            IsSome(acc.mpub[k][i]) =>
              acc.mpub[k][i] \in StatedAt(files, {"mpub"}, k, i)

(***************************************************************************)
(* No maybe-public name is dropped (spec 4.2: the name "must be staged on  *)
(* both sides", a missing side being an error): when the fold succeeds,    *)
(* every name some file states as maybe-public is maybe-public in the      *)
(* result.  Merge lines 195-215 and 290 decide this.                       *)
(***************************************************************************)
MaybePublicKept ==
  status = "ok" =>
    \A s \in Sources : DOMAIN files[s].mpub \subseteq DOMAIN acc.mpub

(***************************************************************************)
(* Pairwise merge leaves maybe-shared columns staged (spec 4.2: "Plain     *)
(* two-way merge does not perform this final promotion of maybe-shared     *)
(* columns"): when the fold succeeds, every name some file states as       *)
(* maybe-shared is still maybe-shared in the result.  Merge lines 255-260  *)
(* and 275-280 decide this.                                                *)
(***************************************************************************)
MaybeSharedStaged ==
  status = "ok" =>
    \A s \in Sources : DOMAIN files[s].msh \subseteq DOMAIN acc.msh
=============================================================================
