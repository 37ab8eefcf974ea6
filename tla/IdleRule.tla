------------------------------- MODULE IdleRule -------------------------------
(* The idle rule of the ComputePosition controller: evaluateIdle, as a function
   of what it reads.  Reconciler uses it with the coarse clock of a reconcile,
   IdleDetector with a clock finer than the second the API server stores.

   The stored timestamp IdleSince is represented by its age, so that a state
   does not hold an absolute time: time passing makes every age grow.          *)
EXTENDS Integers

CONSTANTS
  Nil,                \* an unset field: no timestamp, no reference, no price
  NaN,                \* the not-a-number Prometheus may answer, which parses
  DefaultIdleWindow   \* defaultIdleWindowSecs, in ticks of the model's clock

ASSUME IdleRuleAssumption ==
  /\ DefaultIdleWindow \in Nat \ {0}
  /\ Nil \notin Int
  /\ NaN \notin Int

DefaultIdleThreshold == 15
IdleResetMargin == 10

OrDefault(v, default) == IF v = 0 THEN default ELSE v

Threshold(spec) == OrDefault(spec.idleThreshold, DefaultIdleThreshold)

Window(spec) == OrDefault(spec.idleWindow, DefaultIdleWindow)

(* Every comparison with a NaN is false, so a NaN is neither low nor recovered. *)
Low(spec, util) == util # NaN /\ util < Threshold(spec)

Recovered(spec, util) == util # NaN /\ util > Threshold(spec) + IdleResetMargin

(* Mutants of the rule: no window, no margin, and a window that every low reading
   restarts.                                                                   *)
EvaluateIdleAtOnce(spec, status, util) ==
  IF Low(spec, util) THEN [idle |-> 0, available |-> TRUE]
  ELSE IF Recovered(spec, util) THEN [idle |-> Nil, available |-> FALSE]
  ELSE [idle |-> status.idle, available |-> status.available]

EvaluateIdleNoMargin(spec, status, util) ==
  LET since == IF status.idle = Nil THEN 0 ELSE status.idle
  IN  IF Low(spec, util) THEN [idle |-> since, available |-> since >= Window(spec)]
      ELSE [idle |-> Nil, available |-> FALSE]

EvaluateIdleRestarting(spec, status, util) ==
  LET since == IF status.idle = Nil THEN 0 ELSE status.idle
  IN  IF Low(spec, util) THEN [idle |-> 0, available |-> since >= Window(spec)]
      ELSE IF Recovered(spec, util) THEN [idle |-> Nil, available |-> FALSE]
      ELSE [idle |-> status.idle, available |-> status.available]

(* What one evaluation makes of the stored idle state: the age of IdleSince it
   leaves in the status (Nil when it clears it), and the flag it returns.  In
   the band between the threshold and the margin both stay as stored.          *)
EvaluateIdle(spec, status, util) ==
  LET since == IF status.idle = Nil THEN 0 ELSE status.idle
  IN  IF Low(spec, util)
      THEN [idle |-> since, available |-> since >= Window(spec)]
      ELSE IF Recovered(spec, util)
           THEN [idle |-> Nil, available |-> FALSE]
           ELSE [idle |-> status.idle, available |-> status.available]
===============================================================================
