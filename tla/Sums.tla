-------------------------------- MODULE Sums --------------------------------
(***************************************************************************)
(* Sums of integer-valued functions over 1..n, the shape of every total   *)
(* the contracts keep (escrow held, fractions allocated, proceeds).  The   *)
(* recursion is a function, so that SumsProofs can reason about it.        *)
(***************************************************************************)
EXTENDS Integers

\* PrefixSums(f, n)[i] = f[1] + ... + f[i]
PrefixSums(f, n) ==
  LET S[i \in 0..n] == IF i = 0 THEN 0 ELSE S[i-1] + f[i]
  IN  S

Sum(f, n) == PrefixSums(f, n)[n]
=============================================================================
