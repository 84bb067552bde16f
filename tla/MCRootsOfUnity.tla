--------------------------- MODULE MCRootsOfUnity ---------------------------
(***************************************************************************)
(* Model-checking instance of RootsOfUnity: every odd prime field up to    *)
(* MaxPrime, which covers two-adicities 1 to 8 (257 = 2^8 + 1).            *)
(***************************************************************************)
EXTENDS Integers

CONSTANT MaxPrime

VARIABLES p, q, roots, i, pc

OddPrimes ==
  {x \in 3..MaxPrime : x % 2 = 1 /\ \A d \in 2..(x - 1) : x % d # 0}

INSTANCE RootsOfUnity WITH Primes <- OddPrimes
=============================================================================
