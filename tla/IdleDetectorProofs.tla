--------------------------- MODULE IdleDetectorProofs ---------------------------
(* The idle rule over time, for every window, threshold, clock resolution and
   course of the utilization, and the exporter that takes its place.           *)
EXTENDS GpuExporter, TLAPS

LEMMA SpecTypes ==
  ASSUME TypeOK
  PROVE  /\ Window(spec) \in Nat /\ Window(spec) >= 1 /\ Window(spec) <= MaxAge
         /\ Second \in Nat /\ Second >= 1 /\ Second <= MaxAge
         /\ MaxAge \in Nat /\ Nil \notin Int
<1>1. spec.idleWindow \in Nat /\ spec \in Specs
  BY IdleDetectorAssumption DEF TypeOK
<1>2. /\ Window(spec) \in Nat /\ Window(spec) >= 1 /\ Window(spec) <= MaxAge
      /\ Window(spec) % Second = 0
      /\ Second \in Nat /\ Second >= 1 /\ MaxAge \in Nat /\ Nil \notin Int
  BY <1>1, IdleDetectorAssumption, IdleRuleAssumption DEF Window, OrDefault
<1>3. \A w, s \in Nat : w >= 1 /\ s >= 1 /\ w < s => w % s = w
  OBVIOUS
<1>4. Second <= Window(spec)
  BY <1>2, <1>3
<1> QED BY <1>2, <1>4

(* What the detector stores is the first low reading since the last recovered one,
   rounded down to the second that reading came in: its age is ahead of the
   true one by less than a second, up to the cap on ages.                      *)
Faithful ==
  /\ status.idle = Nil <=> lowSince = Nil
  /\ lowSince # Nil => /\ lowSince <= status.idle
                       /\ status.idle < lowSince + Second
  /\ status.available => status.idle # Nil

IdleInv == TypeOK /\ Faithful

(* The rule as the detector applies it. *)
LEMMA Reading ==
  ASSUME TypeOK
  PROVE  LET seen == EvaluateIdle(spec, status, util) IN
         /\ seen.available \in BOOLEAN
         /\ ~(Low(spec, util) /\ Recovered(spec, util))
         /\ Low(spec, util) =>
              /\ seen.idle = IF status.idle = Nil THEN 0 ELSE status.idle
              /\ (seen.available <=> seen.idle >= Window(spec))
         /\ Recovered(spec, util) => seen.idle = Nil /\ ~seen.available
         /\ ~Low(spec, util) /\ ~Recovered(spec, util) =>
              seen.idle = status.idle /\ seen.available = status.available
<1>1. ~(Low(spec, util) /\ Recovered(spec, util))
  <2>1. spec.idleThreshold \in Nat /\ (util \in Int \/ util = NaN)
    BY IdleDetectorAssumption DEF TypeOK
  <2> QED BY <2>1 DEF Low, Recovered, Threshold, OrDefault, DefaultIdleThreshold, IdleResetMargin
<1>2. EvaluateIdle(spec, status, util).available \in BOOLEAN
  <2>1. \A x, y : (x >= y) \in BOOLEAN
    OBVIOUS
  <2>2. status.available \in BOOLEAN
    BY DEF TypeOK
  <2> QED BY <2>1, <2>2 DEF EvaluateIdle
<1> QED BY <1>1, <1>2 DEF EvaluateIdle

LEMMA IdleInit == Init => IdleInv
  BY IdleDetectorAssumption DEF Init, IdleInv, TypeOK, Faithful

(* The cases of a reconcile: the first low reading, a later one, a recovered
   reading, and one in between.                                                *)
LEMMA ReconcileCases ==
  ASSUME IdleInv, Reconcile
  PROVE  /\ status'.available \in BOOLEAN
         /\ \/ /\ Low(spec, util) /\ status.idle = Nil
               /\ status'.idle = phase /\ lowSince' = 0
               /\ ~status'.available /\ confirmed' = 0
            \/ /\ Low(spec, util) /\ status.idle # Nil
               /\ status'.idle = status.idle /\ lowSince' = lowSince
               /\ (status'.available <=> status.idle >= Window(spec))
               /\ confirmed' = IF status'.available THEN Window(spec) ELSE 0
            \/ /\ Recovered(spec, util)
               /\ status'.idle = Nil /\ lowSince' = Nil /\ ~status'.available
               /\ confirmed' = 0
            \/ /\ ~Low(spec, util) /\ ~Recovered(spec, util)
               /\ status'.idle = status.idle /\ lowSince' = lowSince
               /\ status'.available = status.available
               /\ confirmed' = IF status'.available THEN confirmed ELSE 0
  BY Reading, SpecTypes DEF IdleInv, Faithful, Reconcile, NowStored

LEMMA IdleNext == IdleInv /\ [Next]_vars => IdleInv'
<1> SUFFICES ASSUME IdleInv, TypeOK, Faithful, [Next]_vars PROVE IdleInv'
  BY DEF IdleInv
<1>1. CASE Reconcile
  <2>1. UNCHANGED <<spec, util, phase>> /\ \E s, a : status' = [idle |-> s, available |-> a]
    BY <1>1 DEF Reconcile
  <2>2. status'.available \in BOOLEAN /\ status'.idle \in 0 .. MaxAge \cup {Nil}
        /\ lowSince' \in 0 .. MaxAge \cup {Nil} /\ confirmed' \in 0 .. MaxAge
    BY <1>1, ReconcileCases, SpecTypes DEF TypeOK
  <2>3. TypeOK'
    BY <2>1, <2>2 DEF TypeOK
  <2>4. Faithful'
    BY <1>1, ReconcileCases, SpecTypes DEF TypeOK, Faithful
  <2> QED BY <2>3, <2>4 DEF IdleInv
<1>2. CASE Tick
  BY <1>2, SpecTypes DEF IdleInv, TypeOK, Faithful, Tick, Aged
<1>3. CASE MoveUtil \/ EditSpec
  BY <1>3 DEF IdleInv, TypeOK, Faithful, MoveUtil, EditSpec
<1>4. CASE UNCHANGED vars
  BY <1>4 DEF IdleInv, TypeOK, Faithful, vars
<1> QED BY <1>1, <1>2, <1>3, <1>4 DEF Next

LEMMA IdleCorrect == Spec => []IdleInv
  BY IdleInit, IdleNext, PTL DEF Spec

(* The type invariant of the detector, ages within their cap included. *)
THEOREM DetectorTypes == Spec => []TypeOK
<1>1. IdleInv => TypeOK
  BY DEF IdleInv
<1> QED BY <1>1, IdleCorrect, PTL

(* A flag goes up only after a whole window without a recovered reading, short by
   less than the second the store truncates.                                   *)
THEOREM FlaggedCorrect == Spec => FlaggedAfterWindow
<1>1. ASSUME IdleInv, [Next]_vars, ~status.available, status'.available
      PROVE  lowSince' # Nil /\ lowSince' > Window(spec) - Second
  <2>1. CASE Reconcile
    <3>1. /\ status.idle # Nil /\ lowSince' = lowSince /\ status.idle >= Window(spec)
      BY <1>1, <2>1, ReconcileCases DEF IdleInv, TypeOK
    <3>2. /\ lowSince # Nil /\ lowSince \in Int /\ status.idle \in Int
          /\ status.idle < lowSince + Second
      BY <1>1, <3>1 DEF IdleInv, TypeOK, Faithful
    <3> QED BY <1>1, <3>1, <3>2, SpecTypes DEF IdleInv
  <2>2. CASE Tick
    BY <1>1, <2>2 DEF Tick, IdleInv, TypeOK
  <2>3. CASE MoveUtil \/ EditSpec \/ UNCHANGED vars
    BY <1>1, <2>3 DEF MoveUtil, EditSpec, vars
  <2> QED BY <1>1, <2>1, <2>2, <2>3 DEF Next
<1>2. IdleInv /\ [Next]_vars =>
        [~status.available /\ status'.available
         => lowSince' # Nil /\ lowSince' > Window(spec) - Second]_vars
  BY <1>1
<1> QED BY <1>2, IdleCorrect, PTL DEF Spec, FlaggedAfterWindow

(* What the store has to keep for hysteresis: a later low reading finds the window
   that was confirmed still over.                                              *)
FlaggedLong == status.available => status.idle # Nil /\ status.idle >= confirmed

LEMMA FlaggedLongNext == IdleInv /\ FlaggedLong /\ [Next]_vars => FlaggedLong'
<1> SUFFICES ASSUME IdleInv, FlaggedLong, [Next]_vars PROVE FlaggedLong'
  OBVIOUS
<1>1. CASE Reconcile
  <2>1. spec' = spec
    BY <1>1 DEF Reconcile
  <2> QED BY <1>1, <2>1, ReconcileCases, SpecTypes DEF FlaggedLong, IdleInv, TypeOK, Faithful
<1>2. CASE Tick
  BY <1>2, SpecTypes DEF FlaggedLong, IdleInv, TypeOK, Tick, Aged
<1>3. CASE MoveUtil \/ EditSpec \/ UNCHANGED vars
  BY <1>3 DEF FlaggedLong, MoveUtil, EditSpec, vars
<1> QED BY <1>1, <1>2, <1>3 DEF Next

(* A flag comes down only on a reading past the margin: not in the band, not on a
   NaN, and on a low reading only for a window edited to a longer one.         *)
THEOREM ClearedCorrect == Spec => ClearedOnlyPastMargin
<1>1. ASSUME IdleInv, FlaggedLong, [Next]_vars, status.available, ~status'.available
      PROVE  Recovered(spec, util) \/ (Low(spec, util) /\ Window(spec) > confirmed)
  <2>1. CASE Reconcile
    <3>1. /\ status.idle # Nil /\ status.idle >= confirmed
          /\ status.idle \in Int /\ confirmed \in Int /\ Window(spec) \in Int
      BY <1>1, SpecTypes DEF FlaggedLong, IdleInv, TypeOK
    <3>2. Recovered(spec, util) \/ (Low(spec, util) /\ ~(status.idle >= Window(spec)))
      BY <1>1, <2>1, <3>1, ReconcileCases
    <3> QED BY <3>1, <3>2
  <2>2. CASE Tick
    BY <1>1, <2>2 DEF Tick, IdleInv, TypeOK
  <2>3. CASE MoveUtil \/ EditSpec \/ UNCHANGED vars
    BY <1>1, <2>3 DEF MoveUtil, EditSpec, vars
  <2> QED BY <1>1, <2>1, <2>2, <2>3 DEF Next
<1>2. IdleInv /\ FlaggedLong /\ [Next]_vars =>
        [status.available /\ ~status'.available
         => Recovered(spec, util) \/ (Low(spec, util) /\ Window(spec) > confirmed)]_vars
  BY <1>1
<1>3. Init => FlaggedLong
  BY DEF Init, FlaggedLong
<1> QED BY <1>2, <1>3, FlaggedLongNext, IdleCorrect, PTL DEF Spec, ClearedOnlyPastMargin
-------------------------------------------------------------------------------
(* The exporter: its walk stays among the percents, an override too or is a NaN. *)
ExporterInv == walk \in Percents /\ forced \in Percents \cup {Nil, NaN}

LEMMA ReportedIsUtil ==
  ASSUME NEW w \in Percents, NEW f \in Percents \cup {Nil, NaN}
  PROVE  Reported(w, f) \in Utils
BY GpuExporterAssumption DEF Reported, Utilization, Round

LEMMA OverrideIsPercent ==
  ASSUME NEW v \in Requests
  PROVE  Override(v) \in Percents \cup {Nil, NaN}
<1>1. CASE v = NaN
  BY <1>1 DEF Override
<1>2. CASE v # NaN /\ v < 0
  BY <1>2 DEF Override
<1>3. CASE v # NaN /\ ~(v < 0)
  <2>1. v \in Int /\ v >= 0
    BY <1>3, GpuExporterAssumption
  <2>2. CASE v > 100
    BY <1>3, <2>1, <2>2, GpuExporterAssumption DEF Override, Clamp
  <2>3. CASE v <= 100
    <3>1. v \in Percents
      BY <2>1, <2>3, GpuExporterAssumption
    <3> QED BY <1>3, <2>1, <2>3, <3>1 DEF Override, Clamp
  <2> QED BY <2>1, <2>2, <2>3
<1> QED BY <1>1, <1>2, <1>3

(* A step of the exporter is a move of the utilization, or nothing the detection
   could see.                                                                  *)
LEMMA ExporterMoves ==
  ASSUME util' \in Utils, UNCHANGED detector
  PROVE  [Next]_vars
<1>1. CASE util' = util
  BY <1>1 DEF detector, vars
<1>2. CASE util' # util
  BY <1>2 DEF detector, Next, MoveUtil
<1> QED BY <1>1, <1>2

LEMMA DemoStep ==
  ASSUME ExporterInv, [DemoNext]_allVars
  PROVE  [Next]_vars /\ ExporterInv'
<1>1. CASE Detect
  BY <1>1 DEF Detect, Next, ExporterInv, exporter
<1>2. CASE Step
  <2>1. walk' \in Percents /\ forced' \in Percents \cup {Nil, NaN}
    BY <1>2 DEF Step, ExporterInv
  <2>2. util' \in Utils
    BY <1>2, <2>1, ReportedIsUtil DEF Step
  <2> QED BY <1>2, <2>1, <2>2, ExporterMoves DEF Step, ExporterInv
<1>3. CASE Snapshot \/ SetGauge
  BY <1>3 DEF Snapshot, SetGauge, ExporterInv
<1>4. ASSUME NEW v \in Requests, Control(v)
      PROVE  [Next]_vars /\ ExporterInv'
  <2>1. walk' \in Percents /\ forced' \in Percents \cup {Nil, NaN}
    BY <1>4, OverrideIsPercent DEF Control, ExporterInv
  <2>2. util' \in Utils
    BY <1>4, <2>1, ReportedIsUtil DEF Control, ExporterInv
  <2> QED BY <1>4, <2>1, <2>2, ExporterMoves DEF Control, ExporterInv
<1>5. CASE UNCHANGED allVars
  BY <1>5 DEF allVars, exporter, ExporterInv
<1> QED BY <1>1, <1>2, <1>3, <1>4, <1>5 DEF DemoNext, Ticker

(* Every behaviour of the demo, whatever is requested of the exporter and whenever,
   is one that the detection allows under any utilization: what is proved of it
   above holds of positions that the mock exporter answers for.                *)
THEOREM DemoImplements == DemoInit /\ [][DemoNext]_allVars => Spec
<1>1. DemoInit => Init /\ ExporterInv
  BY DEF DemoInit, ExporterInv
<1>2. ExporterInv /\ [DemoNext]_allVars => [Next]_vars /\ ExporterInv'
  BY DemoStep
<1> QED BY <1>1, <1>2, PTL DEF Spec
=================================================================================
