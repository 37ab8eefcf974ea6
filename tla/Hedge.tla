-------------------------------- MODULE Hedge ---------------------------------
(* The economics of one position: internal/hedge, and the recommendation the
   controller derives from it.  Prices are integers of cents.  What the code
   divides by 100 is kept multiplied by 100, so that the arithmetic is exact: a
   field named ...Pct is a hundred times the amount the code computes.

   A step evaluates the next input the feeds and the spec offer, which lets an
   action property compare two evaluations.  HedgeProofs proves the identities
   for every input.                                                            *)
EXTENDS Integers

CONSTANTS
  GPUCounts,      \* the block sizes a position may cover (CRD: at least 1)
  Utilizations,   \* what int32(util + 0.5) may be, out of range values included
  Prices          \* spot and hedged prices, in cents

ASSUME HedgeAssumption ==
  /\ GPUCounts \subseteq Nat \ {0}
  /\ Utilizations \subseteq Int
  /\ Prices \subseteq Int

VARIABLES
  input,    \* the last Inputs of Compute
  result    \* its Result

vars == <<input, result>>

Inputs == [gpus: GPUCounts, util: Utilizations, spot: Prices, hedged: Prices]

(* Mutants of ClampPct: none, and one that takes what is out of range for idle. *)
ClampPctMissing(v) == v

ClampPctDropped(v) == IF v < 0 \/ v > 100 THEN 0 ELSE v

ClampPct(v) == IF v < 0 THEN 0 ELSE IF v > 100 THEN 100 ELSE v

(* Mutant of Effectiveness: not clamped. *)
EffectivenessUnclamped(netPct, target) == IF target <= 0 THEN 0 ELSE netPct \div target

(* net / lockedTarget * 100, clamped to 0..100 and rounded down.  The clamp is
   decided first, so that the quotient is only taken where it is a percentage. *)
Effectiveness(netPct, target) ==
  IF target <= 0 \/ netPct < 0 THEN 0
  ELSE IF netPct > 100 * target THEN 100
  ELSE netPct \div target

(* Mutant of HedgePnL: the sign of a bought position. *)
HedgePnLBought(in) == (in.spot - in.hedged) * in.gpus

(* The position is sold: it gains when the spot price falls. *)
HedgePnL(in) == (in.hedged - in.spot) * in.gpus

Compute(in) ==
  LET utilizedPct == in.gpus * ClampPct(in.util)
      pnl == HedgePnL(in)
      target == in.hedged * in.gpus
      netPct == in.spot * utilizedPct + 100 * pnl
  IN  [ utilizedPct   |-> utilizedPct,
        idlePct       |-> 100 * in.gpus - utilizedPct,
        spotCost      |-> in.spot * in.gpus,
        pnl           |-> pnl,
        target        |-> target,
        netPct        |-> netPct,
        basisPct      |-> 100 * target - netPct,
        effectiveness |-> Effectiveness(netPct, target) ]

(* Mutant of IdleGPUCount: not rounded to the nearest. *)
IdleGPUCountTruncated(r) == r.idlePct \div 100

(* int(x + 0.5): the GPU count of an offer and of the status. *)
IdleGPUCount(r) == (r.idlePct + 50) \div 100

(* buildRecommendation for a fresh price: idle capacity leaks from 1 USD/hr on. *)
Recommendation(r) ==
  IF r.basisPct >= 100 * 100 THEN "sublet or reduce hedge" ELSE "well matched"

Init == input \in Inputs /\ result = Compute(input)

Evaluate == \E in \in Inputs : input' = in /\ result' = Compute(in)

Next == Evaluate

Spec == Init /\ [][Next]_vars
-------------------------------------------------------------------------------
(* The identity in the header of hedge.go: basis risk is the spot value of the
   GPUs that are hedged and not used, whatever the hedged price.              *)
BasisRiskIdentity ==
  result.basisPct = input.spot * (100 * input.gpus - input.gpus * ClampPct(input.util))

(* hedge.go:15: at full utilization the net is the locked target at any spot
   price, and the controller never recommends to sublet.                      *)
FullUseLocksTarget ==
  input.util >= 100 => /\ result.netPct = 100 * result.target
                       /\ Recommendation(result) = "well matched"

(* For prices that are not negative the hedge is never worth more than its
   target, and it is fully effective exactly when nothing leaks.              *)
EffectiveUnlessLeaking ==
  input.spot >= 0 /\ input.hedged > 0 =>
    /\ result.effectiveness \in 0 .. 100
    /\ result.effectiveness = 100 <=> result.basisPct = 0

(* An offer never promises more GPUs than the block has, and what is less than
   half used always offers some: the default threshold posts no empty offer.  *)
OfferFitsBlock ==
  /\ IdleGPUCount(result) \in 0 .. input.gpus
  /\ input.util < 50 => IdleGPUCount(result) >= 1

(* Using more of the same block at the same prices never adds basis risk, never
   makes the hedge less effective and never offers more GPUs.                 *)
MoreUseLessRisk ==
  [][ /\ input'.gpus = input.gpus /\ input'.spot = input.spot
      /\ input'.hedged = input.hedged
      /\ input.util <= input'.util /\ input.spot >= 0
      => /\ result'.basisPct <= result.basisPct
         /\ result'.effectiveness >= result.effectiveness
         /\ IdleGPUCount(result') <= IdleGPUCount(result) ]_vars
===============================================================================
