----------------------------- MODULE MCReconciler -----------------------------
(* Small instances of Reconciler.  The pause/resume half and the marketplace half
   of a reconcile share no data but the working copy: Workload varies the price
   and the specs that decide about a pause, TwoOperators and Converge both feeds.  *)
EXTENDS ReconcilerClaims, TLC

CONSTANTS o1, o2, p1, p2, d1, d2

Batch ==
  [ hedgeParses |-> TRUE, critical |-> FALSE, enableActions |-> TRUE,
    maxSpot |-> 3000, ref |-> d1, idleThreshold |-> 0, idleWindow |-> 1 ]

Critical == [Batch EXCEPT !.critical = TRUE]
Advisory == [Batch EXCEPT !.enableActions = FALSE]
Nowhere == [Batch EXCEPT !.ref = Nil]

Fresh(usd) == [usd |-> usd, old |-> FALSE]
Old(usd) == [usd |-> usd, old |-> TRUE]

(* Far under the cap; just above it and repeated for too long, but stored rounded
   to it, in the band where nothing changes; a feed that fails.                *)
WorkPrices == {Fresh(2000), Old(3004), NoAnswer}
TwoPrices == {Fresh(2000), Fresh(3500)}
(* Under the cap; just above it, but stored rounded to it, in the band where
   nothing changes; a feed that fails, then or for good.                       *)
RestPrices == {Fresh(2000), Fresh(3004), NoAnswer}
(* Low, in the band, recovered, no number, and a feed that fails. *)
RestUtils == {5, 20, 60, NaN, NoAnswer}
OnePrice == {Fresh(2000)}

WorkSpecs == p1 :> {Batch, Critical, Nowhere}
OneSpec == p1 :> {Batch}
AdvisorySpec == p1 :> {Advisory}

(* One position that acts and is never flagged, or one that only is. *)
EitherHalf == p1 :> {[Batch EXCEPT !.idleThreshold = 1], Advisory}

(* Torn is for ever where nobody scales, and WorkloadAccounted is not about it. *)
NotTornYet == torn # Deployments

(* Where nothing is paused the price decides nothing: one of the two is enough. *)
OneFeedEach == \A o \in Operators :
  job[o] # Nil /\ ~job[o].spec.enableActions => job[o].spot = 2000

(* The environment settles while nobody reconciles.  Before it does everything is
   possible that is possible after, so that a reconcile which it would settle in
   the middle of may as well end first.                                        *)
SettlesBetweenReconciles ==
  settled' # settled => \A o \in Operators : job[o] = Nil

OperatorSymmetry == Permutations(Operators)
===============================================================================
