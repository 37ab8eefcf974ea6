---------------------------- MODULE MCIdleDetector ----------------------------
(* Thirds of a second; windows of the default two seconds and of one, which put
   a window on either side of the truncation; utilizations below, at and around
   the threshold and the margin of both, overridden with any of some, out of
   range and with a NaN, which is read as the least integer.                   *)
EXTENDS GpuExporter

DefaultSpec == {[idleThreshold |-> 0, idleWindow |-> 0]}
MCSpecs == DefaultSpec \cup {[idleThreshold |-> 30, idleWindow |-> 3]}

Least == -1000000
MCPercents == {0, 15, 26, 40, 41, 100}
MCUtils == MCPercents \cup {Least}
MCRequests == {-1, 0, 15, 41, 130, NaN}
===============================================================================
