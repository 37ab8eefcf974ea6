--------------------------- MODULE ReconcilerClaims ---------------------------
(* What comments and documents of the repository say of the controller and its
   code does not do.  Each is the property of one run that violates it; what
   does hold is stated in Reconciler.                                          *)
EXTENDS Reconciler

(* computeposition_types.go:72, "OriginalReplicas stores replicas to restore after
   a pause".  With one write of anyone to the position between the read and the
   status write, the pause is not recorded, and the retry notes zero.          *)
NotedIsWanted ==
  \A p \in Positions :
    \A d \in RefOf(api[p]) : api[p].status.paused => api[p].status.orig = desired[d]

(* QA.md:33, "marks the price stale, holds the last known value, refuses to take
   actions": the code only says so in the recommendation.                      *)
StaleTakesNoAction ==
  \A o \in Operators : job[o] # Nil /\ job[o].stale => job[o].act # "moved"

(* MASTERCLASS.md:245, "posts on false->true, withdraws on true->false", and
   QA.md:18, "carries state safely across restarts in the CR status": a failed
   call, or a crash between the call and the status write, leaves listings and
   flags apart, and nothing repairs it, although everything works again.       *)
ListedWhenFlagged ==
  <>[](settled # Nil =>
         \A p \in Positions : api[p] # Gone => (p \in offers <=> api[p].status.available))
===============================================================================
