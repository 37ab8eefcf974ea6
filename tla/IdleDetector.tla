----------------------------- MODULE IdleDetector -----------------------------
(* The idle detection of one position on a clock finer than a second: the API
   server stores IdleSince truncated to the second, readings come at any time,
   and fail or lose their status write at any time.  A tick is a fraction of a
   second; windows are in ticks.                                               *)
EXTENDS IdleRule

CONSTANTS
  Second,    \* ticks in a second
  Specs,     \* [idleThreshold, idleWindow] the position may have
  Utils,     \* the utilizations of its GPUs
  MaxAge     \* ages are not told apart beyond this one

ASSUME IdleDetectorAssumption ==
  /\ Second \in Nat \ {0}
  /\ Specs \subseteq [idleThreshold: Nat, idleWindow: Nat]
  /\ Utils \subseteq Int \cup {NaN}
  /\ MaxAge \in Nat
  /\ \A s \in Specs : Window(s) % Second = 0 /\ Window(s) <= MaxAge

VARIABLES
  spec,      \* the idle settings of the position
  util,      \* its utilization
  phase,     \* the fraction of the second that has passed
  status,    \* the stored idle fields: age of IdleSince or Nil, and the flag
  \* what only the properties read:
  lowSince,  \* the age of the first low reading after the last recovered one, or Nil
  confirmed  \* the window that the last low reading of a flagged position found over

vars == <<spec, util, phase, status, lowSince, confirmed>>

Aged(age) == IF age = Nil \/ age = MaxAge THEN age ELSE age + 1

Init ==
  /\ spec \in Specs
  /\ util \in Utils
  /\ phase \in 0 .. Second - 1
  /\ status = [idle |-> Nil, available |-> FALSE]
  /\ lowSince = Nil
  /\ confirmed = 0

(* Mutant of NowStored: a timestamp rounded up lies in the future. *)
NowRoundedUp == phase - Second

(* The age, when it is set to now, of a time stored to the second, rounded down. *)
NowStored == phase

(* A reconcile whose status write succeeds: a new IdleSince is now, stored as
   the second that has begun.  One that fails anywhere changes nothing.        *)
Reconcile ==
  LET seen == EvaluateIdle(spec, status, util)
      starts == seen.idle # Nil /\ status.idle = Nil
  IN  /\ status' = [idle |-> IF starts THEN NowStored ELSE seen.idle,
                    available |-> seen.available]
      /\ lowSince' = IF Recovered(spec, util) THEN Nil
                     ELSE IF Low(spec, util) /\ lowSince = Nil THEN 0 ELSE lowSince
      /\ confirmed' = IF ~seen.available THEN 0
                      ELSE IF Low(spec, util) THEN Window(spec) ELSE confirmed
      /\ UNCHANGED <<spec, util, phase>>

Tick ==
  /\ phase' = (phase + 1) % Second
  /\ status' = [status EXCEPT !.idle = Aged(status.idle)]
  /\ lowSince' = Aged(lowSince)
  /\ UNCHANGED <<spec, util, confirmed>>

MoveUtil ==
  /\ util' \in Utils \ {util}
  /\ UNCHANGED <<spec, phase, status, lowSince, confirmed>>

(* A user edits threshold and window; a window under way goes on. *)
EditSpec ==
  /\ spec' \in Specs \ {spec}
  /\ UNCHANGED <<util, phase, status, lowSince, confirmed>>

Next == Reconcile \/ Tick \/ MoveUtil \/ EditSpec

Spec == Init /\ [][Next]_vars

(* Reconciles recur and time passes; the utilization moves or not. *)
FairSpec == Spec /\ WF_vars(Reconcile) /\ WF_vars(Tick)
-------------------------------------------------------------------------------
TypeOK ==
  /\ spec \in Specs
  /\ util \in Utils
  /\ phase \in 0 .. Second - 1
  /\ status \in [idle: 0 .. MaxAge \cup {Nil}, available: BOOLEAN]
  /\ lowSince \in 0 .. MaxAge \cup {Nil}
  /\ confirmed \in 0 .. MaxAge

(* A position is flagged only when nothing read it as recovered for the whole
   window it now has, counted from the first reading that was low at its time,
   whatever threshold and window were edited to since.  The stored second makes
   the window look longer than it was, by less than a second and never shorter.  *)
FlaggedAfterWindow ==
  [][~status.available /\ status'.available
     => lowSince' # Nil /\ lowSince' > Window(spec) - Second]_vars

(* Hysteresis: between the threshold and the margin, on a NaN, and on any later
   low reading a flagged position stays flagged; only a window edited to a longer
   one is waited for anew.                                                     *)
ClearedOnlyPastMargin ==
  [][status.available /\ ~status'.available
     => Recovered(spec, util) \/ (Low(spec, util) /\ Window(spec) > confirmed)]_vars

(* A position that stays low is flagged for good, one that stays recovered is
   cleared for good, also while its window is edited again and again.          *)
FollowsUtilization ==
  /\ <>[]Low(spec, util) => <>[]status.available
  /\ <>[]Recovered(spec, util) => <>[]~status.available
===============================================================================
