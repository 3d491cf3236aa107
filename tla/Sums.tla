-------------------------------- MODULE Sums --------------------------------
(***************************************************************************)
(* Finite sums over arrays indexed from zero, the way the queue indexes    *)
(* its workers and its channels.  Only the properties use them: the code   *)
(* never adds the per-worker counters up, which is why its accounting is   *)
(* worth stating.                                                          *)
(***************************************************************************)
EXTENDS Integers

(* The function of partial sums: Prefixes(f, n)[k] = f[0] + ... + f[k-1].   *)
Prefixes(f, n) ==
  LET S[k \in 0 .. n] == IF k = 0 THEN 0 ELSE S[k - 1] + f[k - 1]
  IN  S

(* f[0] + ... + f[n-1] *)
SumTo(f, n) == Prefixes(f, n)[n]
=============================================================================
