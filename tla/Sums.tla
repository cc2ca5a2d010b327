------------------------------- MODULE Sums --------------------------------
(***************************************************************************)
(* Sums over an initial segment of the naturals.  The vault numbers its    *)
(* deposits, its exits and its leaves from 1 upwards, so what it holds of  *)
(* each is the sum of a function over 1..n.                                *)
(***************************************************************************)
EXTENDS Integers

\* The sum f[1] + ... + f[n].
SumTo(f, n) ==
  LET s[k \in Nat] == IF k = 0 THEN 0 ELSE s[k - 1] + f[k] IN s[n]

============================================================================
