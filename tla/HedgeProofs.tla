------------------------------ MODULE HedgeProofs ------------------------------
(* The identities of Hedge for every block size, utilization and price. *)
EXTENDS Hedge, TLAPS

(* The last evaluation is what Compute makes of the last input. *)
Evaluated == input \in Inputs /\ result = Compute(input)

LEMMA AlwaysEvaluated == Spec => []Evaluated
<1>1. Init => Evaluated
  BY DEF Init, Evaluated
<1>2. Evaluated /\ [Next]_vars => Evaluated'
  BY DEF Evaluated, Next, Evaluate, vars, Inputs, Compute
<1> QED BY <1>1, <1>2, PTL DEF Spec

LEMMA InputTypes ==
  ASSUME NEW in \in Inputs
  PROVE  /\ in.gpus \in Nat /\ in.gpus >= 1 /\ in.util \in Int /\ in.spot \in Int /\ in.hedged \in Int
         /\ ClampPct(in.util) \in 0 .. 100
         /\ in.gpus * ClampPct(in.util) \in Int
<1>1. in.gpus \in Nat /\ in.gpus >= 1 /\ in.util \in Int /\ in.spot \in Int /\ in.hedged \in Int
  <2>1. in.gpus \in GPUCounts /\ in.util \in Utilizations /\ in.spot \in Prices /\ in.hedged \in Prices
    BY DEF Inputs
  <2>2. \A n \in Nat \ {0} : n >= 1
    OBVIOUS
  <2> QED BY <2>1, <2>2, HedgeAssumption
<1>2. ClampPct(in.util) \in 0 .. 100
  BY <1>1 DEF ClampPct
<1>3. \A g, c \in Int : g * c \in Int
  OBVIOUS
<1> QED BY <1>1, <1>2, <1>3

(* What is hedged and not used is worth its spot price. *)
LEMMA BasisRisk ==
  ASSUME NEW in \in Inputs
  PROVE  Compute(in).basisPct = in.spot * (100 * in.gpus - in.gpus * ClampPct(in.util))
<1> DEFINE u == in.gpus * ClampPct(in.util)
<1>1. in.gpus \in Int /\ in.spot \in Int /\ in.hedged \in Int /\ u \in Int
  BY InputTypes
<1>2. \A g, s, h, v \in Int :
        100 * (h * g) - (s * v + 100 * ((h - s) * g)) = s * (100 * g - v)
  OBVIOUS
<1>3. Compute(in).basisPct =
        100 * (in.hedged * in.gpus) - (in.spot * u + 100 * ((in.hedged - in.spot) * in.gpus))
  BY DEF Compute, HedgePnL
<1> HIDE DEF u
<1>4. 100 * (in.hedged * in.gpus) - (in.spot * u + 100 * ((in.hedged - in.spot) * in.gpus))
        = in.spot * (100 * in.gpus - u)
  BY <1>1, <1>2
<1> QED BY <1>3, <1>4 DEF u

(* For every block, utilization and price, negative ones included, basis risk is
   the spot value of the hedged GPUs that are not used: the header of hedge.go. *)
THEOREM BasisRiskCorrect == Spec => []BasisRiskIdentity
<1>1. Evaluated => BasisRiskIdentity
  BY BasisRisk DEF Evaluated, BasisRiskIdentity
<1> QED BY <1>1, AlwaysEvaluated, PTL

(* At full utilization the net is the locked target, whatever the spot price. *)
THEOREM FullUseCorrect == Spec => []FullUseLocksTarget
<1>1. ASSUME Evaluated, input.util >= 100
      PROVE  result.netPct = 100 * result.target /\ result.basisPct = 0
  <2>1. input \in Inputs /\ result = Compute(input)
    BY <1>1 DEF Evaluated
  <2>2. /\ input.gpus \in Int /\ input.spot \in Int /\ input.hedged \in Int
        /\ ClampPct(input.util) = 100
    BY <1>1, <2>1, InputTypes DEF ClampPct
  <2>3. /\ result.netPct = input.spot * (input.gpus * 100)
                           + 100 * ((input.hedged - input.spot) * input.gpus)
        /\ result.target = input.hedged * input.gpus
        /\ result.basisPct = 100 * result.target - result.netPct
    BY <2>1, <2>2 DEF Compute, HedgePnL
  <2>4. \A g, s, h \in Int : s * (g * 100) + 100 * ((h - s) * g) = 100 * (h * g)
    OBVIOUS
  <2>5. \A x \in Int : 100 * x - 100 * x = 0
    OBVIOUS
  <2>6. result.netPct = 100 * result.target
    BY <2>2, <2>3, <2>4
  <2>7. result.target \in Int
    BY <2>2, <2>3
  <2> QED BY <2>3, <2>5, <2>6, <2>7
<1>2. Evaluated => FullUseLocksTarget
  BY <1>1 DEF FullUseLocksTarget, Recommendation
<1> QED BY <1>2, AlwaysEvaluated, PTL

(* An offer never promises more GPUs than the block has, at any utilization the
   feed may answer, and one posted below half utilization is never empty.      *)
THEOREM OfferCorrect == Spec => []OfferFitsBlock
<1>1. ASSUME NEW g \in Nat, g >= 1, NEW c \in 0 .. 100
      PROVE  /\ (100 * g - g * c + 50) \div 100 \in 0 .. g
             /\ c < 50 => (100 * g - g * c + 50) \div 100 >= 1
  <2> DEFINE w == g * c
  <2>1. w \in Int /\ 0 <= w /\ w <= 100 * g
    OBVIOUS
  <2>2. c < 50 => w <= 50 * g
    OBVIOUS
  <2> HIDE DEF w
  <2>3. (100 * g - w + 50) \div 100 \in 0 .. g
    BY <1>1, <2>1
  <2>4. c < 50 => (100 * g - w + 50) \div 100 >= 1
    BY <1>1, <2>1, <2>2
  <2> QED BY <2>3, <2>4 DEF w
<1>2. Evaluated => OfferFitsBlock
  <2> SUFFICES ASSUME input \in Inputs, result = Compute(input) PROVE OfferFitsBlock
    BY DEF Evaluated
  <2> DEFINE c == ClampPct(input.util)
  <2>1. input.gpus \in Nat /\ input.gpus >= 1 /\ c \in 0 .. 100
    BY InputTypes
  <2>2. IdleGPUCount(result) = (100 * input.gpus - input.gpus * c + 50) \div 100
    BY DEF IdleGPUCount, Compute
  <2>3. input.util < 50 => c < 50
    BY InputTypes DEF ClampPct
  <2> HIDE DEF c
  <2> QED BY <1>1, <2>1, <2>2, <2>3 DEF OfferFitsBlock
<1> QED BY <1>2, AlwaysEvaluated, PTL

(* What the quotient of a net by its target may be. *)
LEMMA Quotient ==
  ASSUME NEW t \in Int, t >= 1, NEW n \in Int, 0 <= n, n <= 100 * t
  PROVE  /\ n \div t \in 0 .. 100
         /\ n \div t = 100 <=> n = 100 * t
<1> DEFINE q == n \div t
<1>1. q \in Int /\ t * q <= n /\ n < t * q + t
  OBVIOUS
<1> HIDE DEF q
<1>2. q >= 0
  BY <1>1
<1>3. q <= 100
  BY <1>1
<1>4. q = 100 => n = 100 * t
  BY <1>1
<1>5. n = 100 * t => q >= 100
  BY <1>1
<1> QED BY <1>1, <1>2, <1>3, <1>4, <1>5 DEF q

LEMMA QuotientGrows ==
  ASSUME NEW t \in Int, t >= 1, NEW m \in Int, NEW n \in Int, m <= n
  PROVE  m \div t <= n \div t
<1> DEFINE p == m \div t
           q == n \div t
<1>1. p \in Int /\ q \in Int /\ t * p <= m /\ n < t * q + t
  OBVIOUS
<1> HIDE DEF p, q
<1>2. t * p < t * (q + 1)
  BY <1>1
<1>3. p < q + 1
  BY <1>1, <1>2
<1> QED BY <1>1, <1>3 DEF p, q

(* The net and the basis risk of a position whose prices are not negative. *)
LEMMA NetBounds ==
  ASSUME NEW in \in Inputs, in.spot >= 0
  PROVE  LET r == Compute(in) IN
         /\ r.target = in.hedged * in.gpus /\ r.target \in Int /\ r.netPct \in Int
         /\ r.basisPct = 100 * r.target - r.netPct
         /\ r.netPct <= 100 * r.target
         /\ r.effectiveness = Effectiveness(r.netPct, r.target)
<1> DEFINE r == Compute(in)
           c == ClampPct(in.util)
<1>1. /\ in.gpus \in Int /\ in.gpus >= 1 /\ in.spot \in Int /\ in.hedged \in Int
      /\ c \in Int /\ 0 <= c /\ c <= 100
  BY InputTypes
<1>2. /\ r.target = in.hedged * in.gpus
      /\ r.netPct = in.spot * (in.gpus * c) + 100 * ((in.hedged - in.spot) * in.gpus)
      /\ r.basisPct = 100 * r.target - r.netPct
      /\ r.effectiveness = Effectiveness(r.netPct, r.target)
  BY DEF Compute, HedgePnL
<1>3. r.basisPct = in.spot * (100 * in.gpus - in.gpus * c)
  BY BasisRisk
<1> HIDE DEF c, r
<1>4. r.target \in Int /\ r.netPct \in Int
  BY <1>1, <1>2
<1>5. in.gpus * c <= 100 * in.gpus
  BY <1>1
<1>6. \A s, v \in Int : s >= 0 /\ v >= 0 => s * v >= 0
  OBVIOUS
<1>7. in.spot * (100 * in.gpus - in.gpus * c) >= 0
  <2>1. 100 * in.gpus - in.gpus * c \in Int /\ 100 * in.gpus - in.gpus * c >= 0
    BY <1>1, <1>5
  <2> QED BY <1>1, <1>6, <2>1
<1>8. r.netPct <= 100 * r.target
  BY <1>2, <1>3, <1>4, <1>7
<1> QED BY <1>2, <1>4, <1>8 DEF r

(* For prices that are not negative, effectiveness is a percentage, and the full
   one means that nothing leaks.                                               *)
THEOREM EffectivenessCorrect == Spec => []EffectiveUnlessLeaking
<1>1. Evaluated => EffectiveUnlessLeaking
  <2> SUFFICES ASSUME input \in Inputs, result = Compute(input), input.spot >= 0, input.hedged > 0
               PROVE  /\ result.effectiveness \in 0 .. 100
                      /\ result.effectiveness = 100 <=> result.basisPct = 0
    BY DEF Evaluated, EffectiveUnlessLeaking
  <2> DEFINE t == result.target
             n == result.netPct
  <2>1. /\ t = input.hedged * input.gpus /\ t \in Int /\ n \in Int /\ n <= 100 * t
        /\ result.basisPct = 100 * t - n /\ result.effectiveness = Effectiveness(n, t)
    BY NetBounds
  <2>2. t >= 1
    <3>1. \A h, g \in Int : h > 0 /\ g >= 1 => h * g >= 1
      OBVIOUS
    <3> QED BY <2>1, <3>1, InputTypes
  <2> HIDE DEF t, n
  <2>3. CASE n < 0
    BY <2>1, <2>2, <2>3 DEF Effectiveness
  <2>4. CASE n >= 0
    <3>1. Effectiveness(n, t) = n \div t
      BY <2>1, <2>2, <2>4 DEF Effectiveness
    <3>2. n \div t \in 0 .. 100 /\ (n \div t = 100 <=> n = 100 * t)
      BY <2>1, <2>2, <2>4, Quotient
    <3> QED BY <2>1, <2>2, <3>1, <3>2
  <2> QED BY <2>1, <2>3, <2>4
<1> QED BY <1>1, AlwaysEvaluated, PTL

LEMMA EffectivenessGrows ==
  ASSUME NEW t \in Int, NEW m \in Int, NEW n \in Int, m <= n, n <= 100 * t
  PROVE  Effectiveness(m, t) <= Effectiveness(n, t)
<1>1. CASE t <= 0
  BY <1>1 DEF Effectiveness
<1>2. CASE t > 0 /\ m < 0
  <2>1. Effectiveness(m, t) = 0
    BY <1>2 DEF Effectiveness
  <2>2. Effectiveness(n, t) >= 0
    <3>1. n >= 0 => n \div t \in 0 .. 100
      BY <1>2, Quotient
    <3> QED BY <1>2, <3>1 DEF Effectiveness
  <2> QED BY <2>1, <2>2
<1>3. CASE t > 0 /\ m >= 0
  <2>1. Effectiveness(m, t) = m \div t /\ Effectiveness(n, t) = n \div t
    BY <1>3 DEF Effectiveness
  <2> QED BY <1>3, <2>1, QuotientGrows
<1> QED BY <1>1, <1>2, <1>3

(* More use of the same block at the same prices: less basis risk, at least as
   effective, at most as many GPUs offered.                                    *)
THEOREM MoreUseCorrect == Spec => MoreUseLessRisk
<1> DEFINE Step ==
      input'.gpus = input.gpus /\ input'.spot = input.spot
      /\ input'.hedged = input.hedged
      /\ input.util <= input'.util /\ input.spot >= 0
      => /\ result'.basisPct <= result.basisPct
         /\ result'.effectiveness >= result.effectiveness
         /\ IdleGPUCount(result') <= IdleGPUCount(result)
<1>1. ASSUME NEW in \in Inputs, NEW more \in Inputs, more.gpus = in.gpus, more.spot = in.spot,
             more.hedged = in.hedged, in.util <= more.util, in.spot >= 0
      PROVE  /\ Compute(more).basisPct <= Compute(in).basisPct
             /\ Compute(more).effectiveness >= Compute(in).effectiveness
             /\ IdleGPUCount(Compute(more)) <= IdleGPUCount(Compute(in))
  <2> DEFINE r == Compute(in)
             s == Compute(more)
             v == in.gpus * ClampPct(in.util)
             w == in.gpus * ClampPct(more.util)
  <2>1. /\ v \in Int /\ w \in Int /\ v <= w
        /\ in.gpus \in Int /\ in.spot \in Int
    <3>1. ClampPct(in.util) \in Int /\ ClampPct(more.util) \in Int
          /\ ClampPct(in.util) <= ClampPct(more.util)
      BY <1>1, InputTypes DEF ClampPct
    <3>2. \A g, c, d \in Int : g >= 1 /\ c <= d => g * c \in Int /\ g * d \in Int /\ g * c <= g * d
      OBVIOUS
    <3> QED BY <3>1, <3>2, InputTypes
  <2>2. /\ r.basisPct = in.spot * (100 * in.gpus - v) /\ s.basisPct = in.spot * (100 * in.gpus - w)
        /\ r.idlePct = 100 * in.gpus - v /\ s.idlePct = 100 * in.gpus - w
    <3>1. r.basisPct = in.spot * (100 * in.gpus - v) /\ s.basisPct = in.spot * (100 * in.gpus - w)
      BY <1>1, BasisRisk
    <3>2. r.idlePct = 100 * in.gpus - v /\ s.idlePct = 100 * in.gpus - w
      BY <1>1 DEF Compute
    <3> QED BY <3>1, <3>2
  <2>3. /\ s.target = r.target /\ r.target \in Int /\ r.netPct \in Int /\ s.netPct \in Int
        /\ r.basisPct = 100 * r.target - r.netPct /\ s.basisPct = 100 * r.target - s.netPct
        /\ s.netPct <= 100 * r.target
        /\ r.effectiveness = Effectiveness(r.netPct, r.target)
        /\ s.effectiveness = Effectiveness(s.netPct, r.target)
    BY <1>1, NetBounds
  <2> HIDE DEF r, s, v, w
  <2>4. s.basisPct <= r.basisPct
    <3>1. \A p, x, y \in Int : p >= 0 /\ x <= y => p * x <= p * y
      OBVIOUS
    <3>2. 100 * in.gpus - w \in Int /\ 100 * in.gpus - v \in Int
          /\ 100 * in.gpus - w <= 100 * in.gpus - v
      BY <2>1
    <3> QED BY <1>1, <2>1, <2>2, <3>1, <3>2
  <2>5. r.netPct <= s.netPct
    BY <2>3, <2>4
  <2>6. s.effectiveness >= r.effectiveness
    <3>1. Effectiveness(r.netPct, r.target) <= Effectiveness(s.netPct, r.target)
      BY <2>3, <2>5, EffectivenessGrows
    <3>2. \A x, y : x <= y => y >= x
      OBVIOUS
    <3> QED BY <2>3, <3>1, <3>2
  <2>7. IdleGPUCount(s) <= IdleGPUCount(r)
    <3>1. s.idlePct \in Int /\ r.idlePct \in Int /\ s.idlePct <= r.idlePct
      BY <2>1, <2>2
    <3> QED BY <3>1 DEF IdleGPUCount
  <2> QED BY <2>4, <2>6, <2>7 DEF r, s
<1>2. Evaluated /\ Evaluated' /\ [Next]_vars => [Step]_vars
  BY <1>1 DEF Evaluated
<1> QED BY <1>2, AlwaysEvaluated, PTL DEF Spec, MoreUseLessRisk
================================================================================
