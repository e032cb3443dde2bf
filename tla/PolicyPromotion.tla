-------------------------- MODULE PolicyPromotion --------------------------
(***************************************************************************)
(* OnlineChampionChallenger (validation/online_rl.py): which policy trades *)
(* and which one only shadows it, while outcomes arrive one by one.        *)
(* Rewards are exponents of powers of two, see Returns.                    *)
(***************************************************************************)
EXTENDS Returns

CONSTANTS
  Policies,         \* versions, each with one PolicyRuntime
  First,            \* the champion at the start
  Rewards,          \* exponents of the rewards
  MaxFall,          \* max_drawdown: the fall that is still allowed
  MinObservations,
  MinAdvantage,     \* min_advantage in units of Wealth
  MaxOutcomes       \* bound: outcomes of a policy
PolicyAssumption ==
  /\ First \in Policies
  /\ Rewards \subseteq Int
  /\ MaxFall \in Nat /\ MinObservations \in Nat /\ MaxOutcomes \in Nat
  /\ MinAdvantage \in Nat \ {0}
  \* The unit is small enough for what a policy may earn or lose.
  /\ \A n \in 0..MaxOutcomes :
       \A seq \in [1..n -> Rewards] : Wealth(seq, 2 * MaxOutcomes) \in Int

VARIABLES
  champion, challenger,   \* challenger is empty or one policy
  active, shadow,         \* the flags of the runtimes
  outcomes,               \* policy -> exponents of its outcomes, in order
  halted,
  promotions              \* history: promotions since the last other event

vars == <<champion, challenger, active, shadow, outcomes, halted, promotions>>

TypeOK ==
  /\ champion \in Policies
  /\ challenger \subseteq Policies /\ Cardinality(challenger) <= 1
  /\ active \in [Policies -> BOOLEAN] /\ shadow \in [Policies -> BOOLEAN]
  /\ \A p \in Policies : /\ Len(outcomes[p]) <= MaxOutcomes
                         /\ \A i \in DOMAIN outcomes[p] : outcomes[p][i] \in Rewards
  /\ halted \in BOOLEAN
  /\ promotions \in Nat

Init ==
  /\ champion = First
  /\ challenger = {}
  /\ active = [p \in Policies |-> p = First]
  /\ shadow = [p \in Policies |-> p # First]
  /\ outcomes = [p \in Policies |-> << >>]
  /\ halted = FALSE
  /\ promotions = 0

-----------------------------------------------------------------------------
(* Beyond the allowed drawdown; no outcomes count as a total loss. *)
FellTooFar(seq) == seq = << >> \/ FellBy(seq, MaxFall)

LoadChallenger(p) ==
  /\ p # champion
  /\ shadow' = [shadow EXCEPT ![p] = TRUE]
  /\ active' = [active EXCEPT ![p] = FALSE]
  /\ challenger' = {p}
  /\ promotions' = 0
  /\ UNCHANGED <<champion, outcomes, halted>>

(* An outcome of the champion or the challenger; others raise. *)
RecordOutcome(p) ==
  /\ p \in {champion} \cup challenger
  /\ Len(outcomes[p]) < MaxOutcomes
  /\ \E g \in Rewards : outcomes' = [outcomes EXCEPT ![p] = Append(@, g)]
  /\ LET fell == FellTooFar(outcomes'[p]) IN
     /\ challenger' = IF fell /\ p # champion THEN {} ELSE challenger
     /\ halted' = (halted \/ (fell /\ p = champion))
  /\ promotions' = 0
  /\ UNCHANGED <<champion, active, shadow>>

(* Mutant of Safe: any candidate inside its drawdown is better. *)
SafeWithoutAdvantage(p) == ~FellTooFar(outcomes[p])

Safe(p) ==
  /\ ~FellTooFar(outcomes[p])
  /\ Wealth(outcomes[p], 2 * MaxOutcomes) - Wealth(outcomes[champion], 2 * MaxOutcomes)
       >= MinAdvantage

(* evaluate_and_promote of a candidate that passes; others change nothing. *)
Promote(p) ==
  /\ challenger = {p}
  /\ Len(outcomes[p]) >= MinObservations
  /\ Safe(p)
  /\ champion' = p
  /\ challenger' = {champion}
  /\ active' = [active EXCEPT ![p] = TRUE, ![champion] = FALSE]
  /\ shadow' = [shadow EXCEPT ![p] = FALSE, ![champion] = TRUE]
  /\ promotions' = promotions + 1
  /\ UNCHANGED <<outcomes, halted>>

Rollback(p) ==
  /\ challenger = {p}
  /\ champion' = p
  /\ challenger' = {champion}
  /\ active' = [active EXCEPT ![p] = TRUE, ![champion] = FALSE]
  /\ shadow' = [shadow EXCEPT ![p] = FALSE, ![champion] = TRUE]
  /\ promotions' = 0
  /\ UNCHANGED <<outcomes, halted>>

Next ==
  \E p \in Policies :
    LoadChallenger(p) \/ RecordOutcome(p) \/ Promote(p) \/ Rollback(p)

Spec == Init /\ [][Next]_vars

-----------------------------------------------------------------------------
(* Exactly the champion is active and exactly the others are shadows,      *)
(* whatever was loaded, dropped, promoted and rolled back.                 *)
OneActivePolicy ==
  /\ \A p \in Policies : active[p] = (p = champion) /\ shadow[p] = (p # champion)
  /\ champion \notin challenger

(* A promotion settles the matter: without a new outcome, load or rollback *)
(* the old champion is not promoted back (evaluate_and_promote).           *)
PromotionSettles == promotions <= 1
=============================================================================
