----------------------------- MODULE Likelihood -----------------------------
(***************************************************************************)
(* The arithmetic of fd_normalize_suspicion (fd_clips.c): a sum of         *)
(* milli-nats becomes a likelihood per mille, and the likelihoods of a     *)
(* pool become shares of exactly 1000.                                     *)
(***************************************************************************)
EXTENDS Integers, FiniteSetsExt

Whole == 1000
Bound == 8000

(* logistic(n nats) * 1000 for n = -8 .. 8.                                *)
TblMistyped == <<0, 1, 2, 7, 18, 47, 119, 269, 500,
                 731, 881, 53, 982, 993, 998, 999, 1000>>
Tbl == <<0, 1, 2, 7, 18, 47, 119, 269, 500,
         731, 881, 953, 982, 993, 998, 999, 1000>>

Clamped(x) == IF x < -Bound THEN -Bound ELSE IF x > Bound THEN Bound ELSE x

(* Linear interpolation between the two points around x.                   *)
Between(i, frac) == Tbl[i + 1] + ((Tbl[i + 2] - Tbl[i + 1]) * frac) \div Whole
Logistic(milliNats) ==
  LET shifted == Clamped(milliNats) + Bound
      idx == shifted \div Whole
  IN  IF idx >= 16 THEN Tbl[17] ELSE Between(idx, shifted % Whole)

(***************************************************************************)
(* Largest remainder.  lik is a function from a finite pool of ranks (the  *)
(* positions of the colors in the fd_player enum) to likelihoods.          *)
(* Definitions preceded by a variant with a plausible mistake: see Cases.  *)
(***************************************************************************)
Total(lik) == SumFunction(lik)

Unrounded(lik) == [c \in DOMAIN lik |-> (lik[c] * Whole) \div Total(lik)]
Remainder(lik) == [c \in DOMAIN lik |-> (lik[c] * Whole) % Total(lik)]

(* c is served before d when the units left over are handed out.           *)
Before(rem, c, d) == rem[c] > rem[d] \/ (rem[c] = rem[d] /\ c < d)

(* The first left colors in the order of Before get one unit more.         *)
ServedByRank(rem, left) ==
  {c \in DOMAIN rem : Cardinality({d \in DOMAIN rem : d < c}) < left}
Served(rem, left) ==
  {c \in DOMAIN rem : Cardinality({d \in DOMAIN rem : Before(rem, d, c)}) < left}
Topped(base, served) ==
  [c \in DOMAIN base |-> IF c \in served THEN base[c] + 1 ELSE base[c]]

(* Nobody has any likelihood: equal shares, the lowest ranks one more.     *)
EqualShares(pool) ==
  LET n == Cardinality(pool)
  IN  [c \in pool |-> Whole \div n
                      + (IF Cardinality({d \in pool : d < c}) < Whole % n
                         THEN 1 ELSE 0)]

ProportionalShares(lik) ==
  LET base == Unrounded(lik)
      left == Whole - Total(base)
  IN  Topped(base, Served(Remainder(lik), left))

Shares(lik) == IF Total(lik) > 0 THEN ProportionalShares(lik)
                                 ELSE EqualShares(DOMAIN lik)
=============================================================================
