---------------------------- MODULE InputShares ----------------------------
(***************************************************************************)
(* Data model of one party's input share file, SerializeableSharedRep3Input *)
(* (co-circom-snarks lib.rs): four name-keyed maps                         *)
(*   public_inputs        name -> vector of field elements                 *)
(*   maybe_public_inputs  name -> vector of optional field elements        *)
(*   shared_inputs        name -> tagged share vector (4 Rep3 schemes)     *)
(*   maybe_shared_inputs  name -> tagged optional share vector (2 schemes) *)
(*                                                                         *)
(* Names are the integers 1..NumKeys so that the BTreeMap iteration order  *)
(* of the code is the numeric order.  A field element (or a share of one)  *)
(* stated at index i of a column is one of Cand(i) = {i, N+i}: the values  *)
(* of different indices are distinct, so a value that moves to another     *)
(* index is visible, and two providers can disagree at an index.           *)
(* Only one party's files are modelled: every party merges its own files   *)
(* with the same code and nothing in the merge mixes the parties.          *)
(***************************************************************************)
EXTENDS Integers, Sequences, FiniteSets, FiniteSetsExt, TLC

CONSTANTS
  NumKeys,     \* number of input names
  N,           \* the length of an input column
  Lens,        \* the column lengths a file may state ({N} unless the run is
               \* about columns of different lengths)
  NumSources,  \* number of input share files merged
  None         \* model value: an absent element (Rust None)

ASSUME /\ NumKeys \in Nat \ {0} /\ N \in Nat \ {0} /\ NumSources \in Nat \ {0}
       /\ Lens \subseteq 1..N /\ N \in Lens

Keys == 1..NumKeys
Idx == 1..N
Sources == 1..NumSources

\* Rep3ShareVecType and MaybeRep3ShareVecType variants.
ShareTags == {"Replicated", "SeededReplicated", "Additive", "SeededAdditive"}
MaybeTags == {"Replicated", "Additive"}

Cand(i) == {i, N + i}
Vals == 1..(2 * N)

FullVecs == UNION {{v \in [1..l -> Vals] : \A i \in 1..l : v[i] \in Cand(i)} :
                    l \in Lens}
MaybeVecs == UNION {{v \in [1..l -> Vals \cup {None}] :
                       \A i \in 1..l : v[i] \in Cand(i) \cup {None}} : l \in Lens}
\* A share vector of a provider who knows the whole column.
ShareVecs == {[i \in 1..l |-> i] : l \in Lens}
ShareVec(v) == [i \in DOMAIN v |-> i]

(***************************************************************************)
(* share_rep3 and maybe_share_rep3 (lines 118-177): the split of one input *)
(* column into the three parties' shares, all under the scheme the flags   *)
(* choose.  The share arithmetic is in mpc-core's rep3 module, outside     *)
(* this repository: party j's share at index i is the rng draw r[i] (one   *)
(* of Cand(i)), and an unknown element stays unknown in every share (spec *)
(* 4.1).  Only this party's share (j = 1) enters its files.               *)
(***************************************************************************)
ShareRep3(input, r, seeded, additive) ==
  LET tag == CASE  seeded /\  additive -> "SeededAdditive"
              []   seeded /\ ~additive -> "SeededReplicated"
              []  ~seeded /\  additive -> "Additive"
              []  ~seeded /\ ~additive -> "Replicated"
  IN  [j \in 1..3 |-> [tag |-> tag, vec |-> [i \in DOMAIN input |-> r[i]]]]

MaybeShareRep3(input, r, additive) ==
  [j \in 1..3 |->
     [tag |-> IF additive THEN "Additive" ELSE "Replicated",
      vec |-> [i \in DOMAIN input |-> IF input[i] = None THEN None ELSE r[i]]]]

\* The rng draws for a column of the length of v.
Draws(v) == {r \in FullVecs : Len(r) = Len(v)}

(***************************************************************************)
(* The split tool puts every input name of a provider in exactly one of    *)
(* the four maps, so a file is given by one entry per name: a public or   *)
(* maybe-public column as stated, or this party's share of a column.  A    *)
(* column shared whole is known to one provider only, so one draw of it is *)
(* enough; a maybe-shared column's draws are free, so that two providers   *)
(* can state different shares at one index.                                *)
(***************************************************************************)
Entries ==
       [cat : {"absent"}, tag : {"none"}, vec : {<<>>}]
  \cup [cat : {"pub"}, tag : {"none"}, vec : FullVecs]
  \cup [cat : {"mpub"}, tag : {"none"}, vec : MaybeVecs]
  \cup {[cat |-> "sh"] @@ ShareRep3(v, ShareVec(v), s, a)[1] :
          v \in FullVecs, s \in BOOLEAN, a \in BOOLEAN}
  \cup UNION {{[cat |-> "msh"] @@ MaybeShareRep3(v, r, a)[1] :
                 r \in Draws(v), a \in BOOLEAN} : v \in MaybeVecs}

\* The four maps of a file, as functions on the names they contain.
MapOf(e, c, F(_)) == [k \in {x \in Keys : e[x].cat = c} |-> F(e[k])]
FileOf(e) ==
  [pub  |-> MapOf(e, "pub", LAMBDA x : x.vec),
   mpub |-> MapOf(e, "mpub", LAMBDA x : x.vec),
   sh   |-> MapOf(e, "sh", LAMBDA x : [tag |-> x.tag, vec |-> x.vec]),
   msh  |-> MapOf(e, "msh", LAMBDA x : [tag |-> x.tag, vec |-> x.vec])]

Files == {FileOf(e) : e \in [Keys -> Entries]}

IsSome(x) == x # None
AllSome(v) == \A i \in DOMAIN v : IsSome(v[i])

\* Length of Rust's zip of two vectors.
ZipLen(a, b) == IF Len(a) <= Len(b) THEN Len(a) ELSE Len(b)

\* An index where both vectors hold a value.
BothSome(a, b) == \E i \in 1..ZipLen(a, b) : IsSome(a[i]) /\ IsSome(b[i])

(***************************************************************************)
(* What the files of a run state about name k at index i, over the maps    *)
(* in cats: used by the properties to say where a merged value came from.  *)
(***************************************************************************)
ColumnOf(f, c, k) == IF c \in {"sh", "msh"} THEN f[c][k].vec ELSE f[c][k]

StatedAt(files, cats, k, i) ==
  {ColumnOf(files[p[1]], p[2], k)[i] :
     p \in {q \in (DOMAIN files) \X cats :
              k \in DOMAIN files[q[1]][q[2]]
              /\ i \in DOMAIN ColumnOf(files[q[1]], q[2], k)}} \ {None}
=============================================================================
