------------------------------ MODULE PauseResume ------------------------------
(* What the optional action promises for each Deployment, whatever the operators,
   caches, retries and users do: it runs the replicas the user wants, or it is
   down and exactly these are noted, and it moves between the two at once.  The
   promise ends, for one Deployment, when a fault breaks it, and holds again when
   its user scales it by hand.                                                 *)
EXTENDS Naturals

CONSTANTS
  Deployments,
  Broken    \* a Deployment for which nothing is promised

VARIABLE workload   \* [wanted, running, noted: a set] of each Deployment, or Broken

Up(n) == [wanted |-> n, running |-> n, noted |-> {}]

Down(n) == [wanted |-> n, running |-> 0, noted |-> {n}]

Init == \A d \in Deployments : workload[d] = Broken \/ workload[d] = Up(workload[d].wanted)

Pause(d) ==
  /\ workload[d] # Broken
  /\ workload[d].noted = {}
  /\ workload'[d] = Down(workload[d].wanted)

Resume(d) ==
  /\ workload[d] # Broken
  /\ workload[d].noted # {}
  /\ workload'[d] = Up(workload[d].wanted)

(* The user wants other replicas, while it is up. *)
Scale(d) ==
  /\ workload[d] # Broken
  /\ workload[d].noted = {}
  /\ workload'[d] # Broken
  /\ workload'[d] = Up(workload'[d].wanted)

(* A fault breaks the promise; replicas set by hand restore it. *)
Break(d) == workload'[d] = Broken

Repair(d) ==
  /\ workload[d] = Broken
  /\ workload'[d] # Broken
  /\ workload'[d] = Up(workload'[d].wanted)

Stay(d) == workload'[d] = workload[d]

(* The promise is one for each Deployment: nothing is said of two together. *)
Next == \A d \in Deployments : Stay(d) \/ Break(d) \/ Pause(d) \/ Resume(d) \/ Scale(d) \/ Repair(d)

Spec == Init /\ [][Next]_workload
================================================================================
