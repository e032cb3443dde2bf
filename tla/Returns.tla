------------------------------ MODULE Returns ------------------------------
(***************************************************************************)
(* Compounded rewards and what the promotion gates measure on them: the    *)
(* _metrics of OnlineChampionChallenger and ConservativeChampionChallenger.*)
(*                                                                         *)
(* A reward is the exponent of a power of two, 1 + reward = 2^g: the curve *)
(* of a policy is two to the sum of its rewards, and its drawdown the      *)
(* deepest fall of that sum below an earlier value of it.                  *)
(***************************************************************************)
EXTENDS Integers, Sequences, FiniteSetsExt, Functions

Growth(seq) == SumFunction(seq)
Curve(seq, i) == Growth(SubSeq(seq, 1, i))

(* The total return, as wealth in units that keep 2^(-unit) whole. *)
Wealth(seq, unit) == 2 ^ (unit + Growth(seq))

(* The drawdown is deeper than `fall`; the curve starts with the first     *)
(* reward, a loss on which is no drawdown.                                 *)
FellBy(seq, fall) ==
  \E i, j \in DOMAIN seq : i < j /\ Curve(seq, i) - Curve(seq, j) > fall
=============================================================================
