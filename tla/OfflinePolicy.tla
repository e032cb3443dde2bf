--------------------------- MODULE OfflinePolicy ---------------------------
(***************************************************************************)
(* The offline gate of a policy (validation/offline_rl.py and              *)
(* validation/rl_champion.py): what logged transitions say of a target     *)
(* policy, and whether a challenger replaces the champion.                 *)
(*                                                                         *)
(* A transition is [state, action, reward, supported, available]; its      *)
(* reward is an exponent as in Returns, or none when it is not a number;   *)
(* it is supported when its behaviour probability is above zero.  The      *)
(* weighted estimate enters only by being finite.                          *)
(***************************************************************************)
EXTENDS Returns, SequencesExt

(* g: [supportParts, parts, minSupported, maxPeriods, maxFall, worst,      *)
(*     turnover, advantage, unit]; min_support = supportParts / parts.     *)

(* The members of a sequence that are in S, in order. *)
Only(seq, S) ==
  FlattenSeq([i \in DOMAIN seq |-> IF seq[i] \in S THEN <<seq[i]>> ELSE << >>])

Known(transitions, cutoff) ==
  Only(transitions, {t \in ToSet(transitions) : t.available <= cutoff})

(* Mutant of Evidence: all that is logged, known in time or not. *)
EvidenceUnfiltered(transitions, policy, cutoff) ==
  Only(transitions, {t \in ToSet(transitions) : policy[t.state] = t.action})

(* The transitions the risk metrics are computed on. *)
Evidence(transitions, policy, cutoff) ==
  LET known == Known(transitions, cutoff) IN
  Only(known, {t \in ToSet(known) : policy[t.state] = t.action})

Supported(transitions, policy, cutoff) ==
  LET evidence == Evidence(transitions, policy, cutoff) IN
  Only(evidence, {t \in ToSet(evidence) : t.supported})

IsNumber(t) == t.reward # {}

(* OfflineRLEvaluator.evaluate: enough support and a finite estimate. *)
ReportSafe(g, transitions, policy, cutoff) ==
  LET support == Supported(transitions, policy, cutoff) IN
  /\ Len(support) * g.parts >= g.supportParts * Len(Known(transitions, cutoff))
  /\ \A i \in DOMAIN support : IsNumber(support[i])

(* numpy.array_split: the first rewards of period k of `count`. *)
PeriodStart(length, count, k) ==
  k * (length \div count) + Min({k, length % count})
Periods(g, rewards) ==
  LET count == Max({1, Min({g.maxPeriods, Len(rewards)})}) IN
  {SubSeq(rewards, PeriodStart(Len(rewards), count, k) + 1,
                   PeriodStart(Len(rewards), count, k + 1)) : k \in 0..(count - 1)}

Turnover(actions) ==
  MapThenSumSet(LAMBDA i : Max({actions[i + 1] - actions[i], actions[i] - actions[i + 1]}),
                1..(Len(actions) - 1))

(* evaluate: without evidence enough, or with a reward that is not a       *)
(* number, the metrics are not numbers and the evaluation is degenerate.   *)
Evaluation(g, transitions, policy, cutoff) ==
  LET evidence == Evidence(transitions, policy, cutoff)
      numbers == \A i \in DOMAIN evidence : IsNumber(evidence[i])
      degenerate == Len(evidence) < g.minSupported \/ ~numbers
      rewards == IF degenerate THEN << >>
                 ELSE [i \in DOMAIN evidence |-> CHOOSE r \in evidence[i].reward : TRUE]
      actions == [i \in DOMAIN evidence |-> evidence[i].action]
  IN
  [degenerate |-> degenerate,
   safe |-> /\ ReportSafe(g, transitions, policy, cutoff)
            /\ ~FellBy(rewards, g.maxFall)
            /\ \A period \in Periods(g, rewards) : Growth(period) >= 0 - g.worst
            /\ Turnover(actions) <= g.turnover * Max({1, Len(actions) - 1}),
   wealth |-> Wealth(rewards, g.unit)]

(* decide: a degenerate champion makes the advantage not a number. *)
Approves(g, champion, challenger) ==
  /\ ~challenger.degenerate /\ challenger.safe /\ ~champion.degenerate
  /\ challenger.wealth - champion.wealth >= g.advantage

-----------------------------------------------------------------------------
(* The offline gate never approves two policies against each other, looks  *)
(* at nothing that was not known by the cutoff, and approves only what has *)
(* the evidence and did not lose against it (evaluate, decide).            *)
OfflineSound(g, transitions, p, q, cutoff) ==
  LET eval(policy) == Evaluation(g, transitions, policy, cutoff)
      known == Only(transitions, {t \in ToSet(transitions) : t.available <= cutoff})
      gains(policy) == Only(known, {t \in ToSet(known) : policy[t.state] = t.action})
  IN known # << >> =>
  /\ eval(p) = Evaluation(g, known, p, cutoff)
  /\ ~(Approves(g, eval(p), eval(q)) /\ Approves(g, eval(q), eval(p)))
  /\ Approves(g, eval(p), eval(q)) =>
       Len(gains(q)) >= g.minSupported /\ Len(gains(p)) >= g.minSupported
=============================================================================
