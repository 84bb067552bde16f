---------------------------- MODULE RootsOfUnity ----------------------------
(***************************************************************************)
(* utils::roots_of_unity (co-circom-snarks lib.rs 666-680) over the prime  *)
(* field of order p, with p - 1 = 2^s * t and t odd (s is TWO_ADICITY, t   *)
(* is TRACE).  The function searches the smallest quadratic non-residue q  *)
(* by the Euler criterion, takes z = q^t, fills roots[0..s] by repeated    *)
(* squaring from z and reverses the vector, so that roots[j] is meant to   *)
(* be a primitive 2^j-th root of unity (circom's wasm_field1.js).          *)
(*                                                                         *)
(* Each step of the model is one iteration of one of the two loops; the    *)
(* field is chosen in Init among the primes of the run.                    *)
(***************************************************************************)
EXTENDS Integers, Sequences, SequencesExt

CONSTANT Primes   \* the orders of the prime fields F of a run (odd primes)

ASSUME Primes \subseteq {x \in 3..100000 : x % 2 = 1}

VARIABLES
  p,       \* the order of the field F
  q,       \* the candidate non-residue (the result's first component)
  roots,   \* the vector roots, 1-indexed: roots[j] is the code's roots[j-1]
  i,       \* the square loop's index, 1-indexed
  pc       \* "search", "square" or "done"

vars == <<p, q, roots, i, pc>>

\* b^e mod m by square-and-multiply over the bits of e, as Field::pow does.
RECURSIVE PowMod(_, _, _)
PowMod(b, e, m) ==
  IF e = 0 THEN 1 % m
  ELSE LET h == PowMod(b, e \div 2, m)
       IN  IF e % 2 = 0 THEN (h * h) % m ELSE (h * h * b) % m

\* F::TWO_ADICITY and F::TRACE: p - 1 = 2^TwoAdicity(p) * Trace(p).
TwoAdicity(m) ==
  CHOOSE s \in 0..m : (m - 1) % (2^s) = 0 /\ ((m - 1) \div (2^s)) % 2 = 1
Trace(m) == (m - 1) \div (2^TwoAdicity(m))

\* Mutant: Fermat's exponent p - 1 instead of (p - 1) / 2.
Legendre_Fermat(x, m) ==
  LET r == PowMod(x, m - 1, m)
  IN  IF r = 0 THEN "zero" ELSE IF r = 1 THEN "residue" ELSE "nonresidue"

\* Field::legendre: the Euler criterion x^((p-1)/2).
Legendre(x, m) ==
  LET r == PowMod(x, (m - 1) \div 2, m)
  IN  IF r = 0 THEN "zero" ELSE IF r = 1 THEN "residue" ELSE "nonresidue"

\* lines 668-669: roots = vec![F::zero(); TWO_ADICITY + 1], q = F::one().
Init ==
  /\ p \in Primes
  /\ roots = [j \in 1..(TwoAdicity(p) + 1) |-> 0]
  /\ q = 1
  /\ i = 1
  /\ pc = "search"

\* lines 670-672: q += F::one() while q is not a non-residue.
NextCandidate ==
  /\ pc = "search"
  /\ Legendre(q, p) # "nonresidue"
  /\ q' = (q + 1) % p
  /\ UNCHANGED <<p, roots, i, pc>>

\* Mutant: z raised to (p - 1) / 2 instead of TRACE.
RaiseToTrace_Half ==
  /\ pc = "search"
  /\ Legendre(q, p) = "nonresidue"
  /\ roots' = [roots EXCEPT ![1] = PowMod(q, (p - 1) \div 2, p)]
  /\ pc' = "square"
  /\ UNCHANGED <<p, q, i>>

\* lines 673-674: the loop ends; roots[0] = q^TRACE.
RaiseToTrace ==
  /\ pc = "search"
  /\ Legendre(q, p) = "nonresidue"
  /\ roots' = [roots EXCEPT ![1] = PowMod(q, Trace(p), p)]
  /\ pc' = "square"
  /\ UNCHANGED <<p, q, i>>

\* Mutant: the square is not reduced modulo p.
Square_NoReduce ==
  /\ pc = "square"
  /\ i < Len(roots)
  /\ roots' = [roots EXCEPT ![i + 1] = roots[i] * roots[i]]
  /\ i' = i + 1
  /\ UNCHANGED <<p, q, pc>>

\* lines 675-677: roots[i] = roots[i - 1].square().
Square ==
  /\ pc = "square"
  /\ i < Len(roots)
  /\ roots' = [roots EXCEPT ![i + 1] = (roots[i] * roots[i]) % p]
  /\ i' = i + 1
  /\ UNCHANGED <<p, q, pc>>

\* lines 678-679: the loop ends; roots.reverse() and the result.
ReverseRoots ==
  /\ pc = "square"
  /\ i = Len(roots)
  /\ roots' = Reverse(roots)
  /\ pc' = "done"
  /\ UNCHANGED <<p, q, i>>

Next == NextCandidate \/ RaiseToTrace \/ Square \/ ReverseRoots

\* A sequential function: once called it runs its next iteration.
Spec == Init /\ [][Next]_vars /\ WF_vars(Next)
-----------------------------------------------------------------------------
TypeOK ==
  /\ p \in Primes
  /\ q \in 0..(p - 1)
  /\ roots \in [1..(TwoAdicity(p) + 1) -> 0..(p - 1)]
  /\ i \in 1..(TwoAdicity(p) + 1)
  /\ pc \in {"search", "square", "done"}

\* Reference definitions, by enumeration rather than by the Euler criterion:
\* x is a square mod m; x^(2^a) mod m by a squarings; x has order exactly
\* 2^a in the multiplicative group.
IsSquare(x, m) == \E y \in 1..(m - 1) : (y * y) % m = x % m
RECURSIVE SquareN(_, _, _)
SquareN(x, a, m) == IF a = 0 THEN x % m ELSE (SquareN(x, a - 1, m) ^ 2) % m
HasOrder2Pow(x, a, m) ==
  SquareN(x, a, m) = 1 /\ (a = 0 \/ SquareN(x, a - 1, m) # 1)

(***************************************************************************)
(* roots_of_unity returns what circom computes: q is the smallest          *)
(* quadratic non-residue of F (the Euler-criterion search of lines         *)
(* 670-672), and roots[j] is a primitive 2^j-th root of unity for every    *)
(* j in 0..TWO_ADICITY (the power to TRACE, the squaring and the reverse   *)
(* of lines 673-679).                                                      *)
(***************************************************************************)
RootsOfUnityCorrect ==
  pc = "done" =>
    /\ ~IsSquare(q, p)
    /\ \A x \in 1..(q - 1) : IsSquare(x, p)
    /\ \A j \in 1..Len(roots) : HasOrder2Pow(roots[j], j - 1, p)

(***************************************************************************)
(* roots_of_unity returns: the search for a non-residue of line 670 ends   *)
(* for every odd prime field, and so do the squaring loop and the reverse. *)
(***************************************************************************)
Terminates == <>(pc = "done")
=============================================================================
