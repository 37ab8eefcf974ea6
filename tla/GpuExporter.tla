------------------------------ MODULE GpuExporter ------------------------------
(* The telemetry of a demo, cmd/gpuexporter, under the idle detection of one of
   the positions it is seeded with: a random walk that anyone may override through
   POST /control, read by the operator through GET /positions and by the dashboard
   through a gauge that the exporter's ticker sets.  util of IdleDetector is what
   GET answers; IdleDetector's own MoveUtil says only that it may be anything.  *)
EXTENDS IdleDetector

CONSTANTS
  Percents,     \* where the walk may be: 0 and 100 are among them
  Requests,     \* the util of a POST /control; a negative one releases
  NaNReported   \* int(NaN), rounded: the Go specification leaves it to the build

ASSUME GpuExporterAssumption ==
  /\ {0, 100} \subseteq Percents /\ Percents \subseteq 0 .. 100
  /\ Requests \subseteq Int \cup {NaN}
  /\ Requests \cap (0 .. 100) \subseteq Percents
  /\ NaNReported \in Int
  /\ Percents \cup {NaNReported} \subseteq Utils

VARIABLES
  walk,     \* the walk: positionState.util
  forced,   \* the override, or Nil
  at,       \* what the ticker's goroutine does next: "step", "snapshot", "gauge"
  snap,     \* the snapshot it has taken and not yet set, or Nil
  gauge     \* DCGM_FI_DEV_GPU_UTIL, Nil before it is first set

exporter == <<walk, forced, at, snap, gauge>>
detector == <<spec, phase, status, lowSince, confirmed>>
allVars == <<vars, exporter>>

-------------------------------------------------------------------------------
Clamp(v) == IF v < 0 THEN 0 ELSE IF v > 100 THEN 100 ELSE v

(* utilization: the override, or the walk. *)
Utilization(w, f) == IF f = Nil THEN w ELSE f

(* Mutant of Round: a NaN is passed on. *)
RoundNothing(v) == v

(* round1 goes through an int; percents here are whole, but a NaN is not. *)
Round(v) == IF v = NaN THEN NaNReported ELSE v

(* What GET /positions/{name} answers from now on. *)
Reported(w, f) == Round(Utilization(w, f))

(* control: comparisons with a NaN are false, so it neither releases nor clamps. *)
Override(v) == IF v = NaN THEN NaN ELSE IF v < 0 THEN Nil ELSE Clamp(v)

Control(v) ==
  /\ forced' = Override(v)
  /\ util' = Reported(walk, forced')
  /\ UNCHANGED <<detector, walk, at, snap, gauge>>

(* Each tick takes the lock twice and then sets the gauge without it: first the
   walk moves, unless it is overridden;                                        *)
Step ==
  /\ at = "step" /\ at' = "snapshot"
  /\ walk' \in IF forced = Nil THEN Percents ELSE {walk}
  /\ util' = Reported(walk', forced)
  /\ UNCHANGED <<detector, forced, snap, gauge>>

(* Mutant of Snapshot: the walk of an overridden position. *)
SnapshotOfWalk ==
  /\ at = "snapshot" /\ at' = "gauge"
  /\ snap' = walk
  /\ UNCHANGED <<vars, walk, forced, gauge>>

(* then the utilizations are read, an override unrounded; *)
Snapshot ==
  /\ at = "snapshot" /\ at' = "gauge"
  /\ snap' = Utilization(walk, forced)
  /\ UNCHANGED <<vars, walk, forced, gauge>>

(* then they are set, perhaps after another override. *)
SetGauge ==
  /\ at = "gauge" /\ at' = "step"
  /\ gauge' = snap /\ snap' = Nil
  /\ UNCHANGED <<vars, walk, forced>>

DemoInit ==
  /\ Init
  /\ walk \in Percents
  /\ forced = Nil
  /\ at = "step" /\ snap = Nil /\ gauge = Nil
  /\ util = Reported(walk, forced)

Detect == (Reconcile \/ Tick \/ EditSpec) /\ UNCHANGED exporter

Ticker == Step \/ Snapshot \/ SetGauge

DemoNext == Detect \/ Ticker \/ \E v \in Requests : Control(v)

(* Both tickers fire and both processes answer. *)
DemoSpec ==
  /\ DemoInit /\ [][DemoNext]_allVars
  /\ WF_allVars(Reconcile /\ UNCHANGED exporter)
  /\ WF_allVars(Tick /\ UNCHANGED exporter)
  /\ WF_allVars(Ticker)
-------------------------------------------------------------------------------
(* All that the detection sees of the exporter is a utilization that moves: every
   request, NaN and out of range included, and every step of the walk is a move
   between numbers, or none, and never part of a reconcile.                     *)
DetectorServed == FairSpec

(* main.go:6 of the exporter, "forces a position idle": an override that stays
   wins, whatever the walk does: under a spec that stays a low one flags the
   position and a high one clears it, for good, and the gauge ends up showing it.          *)
DemoForces ==
  <>[][FALSE]_<<forced, spec>> =>
    <>[](forced \in Int => /\ gauge = forced
                           /\ Low(spec, forced) => status.available
                           /\ Recovered(spec, forced) => ~status.available)
================================================================================
