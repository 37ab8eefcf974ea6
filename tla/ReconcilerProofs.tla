--------------------------- MODULE ReconcilerProofs ---------------------------
(* Theorems about Reconciler for every number of operators, positions and
   Deployments, every spec and every mix of disturbances.                      *)
EXTENDS Reconciler, TLAPS

(* An operator that works on something has a reconcile of the right type. *)
LEMMA AtJob ==
  ASSUME TypeOK, NEW o \in Operators, NEW step, At(o, step)
  PROVE  job[o] \in Job
  BY DEF TypeOK, At

(* A user's or an operator's write only ever clears the current flag. *)
LEMMA ReplacedType ==
  ASSUME TypeOK, NEW p
  PROVE  Replaced(p) \in [Operators -> Job \cup {Nil}]
<1> SUFFICES ASSUME NEW o \in Operators
             PROVE  (IF o \in Working(p) THEN [job[o] EXCEPT !.current = FALSE] ELSE job[o])
                      \in Job \cup {Nil}
  BY DEF Replaced
<1>1. CASE o \in Working(p)
  <2>1. job[o] \in Job
    BY <1>1 DEF TypeOK, Working
  <2> QED BY <1>1, <2>1 DEF Job
<1>2. CASE o \notin Working(p)
  BY <1>2 DEF TypeOK
<1> QED BY <1>1, <1>2

(* The rule leaves an age or nothing, and starts a window when it flags. *)
LEMMA EvaluateIdleType ==
  ASSUME NEW spec, NEW util, NEW status \in Status
  PROVE  EvaluateIdle(spec, status, util) \in [idle: Nat \cup {Nil}, available: BOOLEAN]
  BY DEF EvaluateIdle, Status

(* The order of a reconcile: it calls the marketplace exactly when the flag
   flips, acts after that, and only for an eligible position.                  *)
InOrder(j) ==
  /\ j.at = "market" => j.call = "none"
  /\ j.at # "market" => (j.call = "none" <=> j.available = j.status.available)
  /\ j.at # "status" => j.act = "none"
  /\ j.act # "none" => Eligible(j.spec)

StepsInOrder == \A o \in Operators : job[o] # Nil => InOrder(job[o])

TypeInv == TypeOK /\ CachesSound /\ StepsInOrder

LEMMA TypeInit == Init => TypeInv
<1> SUFFICES ASSUME Init PROVE TypeInv
  OBVIOUS
<1>1. api \in [Positions -> Object \cup {Gone}]
  <2>1. \A p \in Positions : Specs[p] \subseteq PositionSpec
    BY ReconcilerAssumption
  <2>2. NewStatus \in Status
    BY DEF NewStatus, Status
  <2>3. api \in [Positions -> [spec: UNION {Specs[p] : p \in Positions}, status: {NewStatus}]]
    BY DEF Init
  <2>4. UNION {Specs[p] : p \in Positions} \subseteq PositionSpec
    BY <2>1
  <2> QED BY <2>2, <2>3, <2>4 DEF Object
<1>2. replicas \in [Deployments -> Nat]
  BY ReconcilerAssumption DEF Init
<1>3. opted \subseteq Deployments
  <2>1. \A p \in Positions : OptedBy(api[p]) \subseteq Deployments
    BY <1>1 DEF OptedBy, RefOf, Object, PositionSpec
  <2> QED BY <2>1 DEF Init
<1>4. torn \subseteq Deployments
  BY DEF Init, SharedIn
<1>5. TypeOK
  BY <1>1, <1>2, <1>3, <1>4 DEF Init, TypeOK
<1> QED BY <1>1, <1>2, <1>5 DEF Init, TypeInv, CachesSound, ViewsSound, CopySound, StepsInOrder

LEMMA LostType ==
  ASSUME TypeInv, NEW ops \in SUBSET Operators, \A x \in ops : job[x] # Nil
  PROVE  LostMoves(ops) \subseteq Deployments /\ LostCalls(ops) \subseteq Positions
<1> SUFFICES ASSUME NEW x \in ops
             PROVE  /\ job[x].act = "moved" => job[x].spec.ref \in Deployments
                    /\ job[x].pos \in Positions
  BY DEF LostMoves, LostCalls
<1>1. job[x] \in Job
  BY DEF TypeInv, TypeOK
<1> QED BY <1>1 DEF TypeInv, StepsInOrder, InOrder, Eligible, Job, PositionSpec

(* One step per action; only what it changes needs a type. *)
LEMMA TypeNext == TypeInv /\ [Next]_vars => TypeOK'
<1> SUFFICES ASSUME TypeInv, TypeOK, [Next]_vars PROVE TypeOK'
  BY DEF TypeInv
<1> USE SentinelAssumption, IdleRuleAssumption, ReconcilerAssumption
<1>1. ASSUME NEW o \in Operators, NEW p \in Positions, Observe(o, p) PROVE TypeOK'
  <2> DEFINE seen == posCache[o][p]
  <2>1. seen \in Object
    BY <1>1 DEF TypeOK, Observe
  <2>2. PICK util \in UtilFeed \ {NoAnswer}, price \in PriceFeed :
          /\ price = NoAnswer => seen.status.spot # Nil
          /\ job' = [job EXCEPT ![o] =
               [ at |-> "market", pos |-> p, spec |-> seen.spec,
                 status |-> [seen.status EXCEPT !.idle = EvaluateIdle(seen.spec, seen.status, util).idle],
                 spot |-> IF price = NoAnswer THEN seen.status.spot ELSE price.usd,
                 stale |-> price = NoAnswer \/ price.old,
                 available |-> EvaluateIdle(seen.spec, seen.status, util).available,
                 call |-> "none", act |-> "none",
                 current |-> <<o, p>> \notin posLag ]]
    BY <1>1 DEF Observe, PriceKnown
  <2>3. EvaluateIdle(seen.spec, seen.status, util) \in [idle: Nat \cup {Nil}, available: BOOLEAN]
    BY <2>1, EvaluateIdleType DEF Object
  <2>4. price \in [usd: Int, old: BOOLEAN] \cup {NoAnswer}
    BY DEF PriceFeed, TypeOK
  <2>5. (IF price = NoAnswer THEN seen.status.spot ELSE price.usd) \in Int
    BY <2>1, <2>2, <2>4 DEF Object, Status
  <2>6. (price = NoAnswer \/ price.old) \in BOOLEAN
    BY <2>4
  <2>7. [seen.status EXCEPT !.idle = EvaluateIdle(seen.spec, seen.status, util).idle] \in Status
    BY <2>1, <2>3 DEF Object, Status
  <2>8. job' \in [Operators -> Job \cup {Nil}]
    BY <2>1, <2>2, <2>3, <2>5, <2>6, <2>7 DEF TypeOK, Job, Object
  <2> QED BY <1>1, <2>8 DEF TypeOK, Observe, store, posView, depView, history
<1>2. ASSUME NEW o \in Operators, HandleMarketplace(o) PROVE TypeOK'
  <2>1. job[o] \in Job
    BY <1>2, AtJob DEF HandleMarketplace, KeepOffer, FlipOffer, MarketplaceError
  <2>2. CASE KeepOffer(o)
    BY <2>1, <2>2 DEF TypeOK, KeepOffer, Job, store, posView, depView, history
  <2>3. CASE FlipOffer(o)
    <3>1. job' \in [Operators -> Job \cup {Nil}]
      BY <2>1, <2>3 DEF TypeOK, FlipOffer, Job
    <3>2. offers' \subseteq Positions /\ tornOffers' \subseteq Positions
      BY <2>1, <2>3 DEF TypeOK, FlipOffer, Listed, Job
    <3> QED BY <2>3, <3>1, <3>2 DEF TypeOK, FlipOffer, posView, depView
  <2>4. CASE MarketplaceError(o)
    <3>1. job' \in [Operators -> Job \cup {Nil}]
      BY <2>1, <2>4 DEF TypeOK, MarketplaceError, Job
    <3>2. offers' \subseteq Positions /\ tornOffers' \subseteq Positions
      BY <2>1, <2>4 DEF TypeOK, MarketplaceError, Listed, Job
    <3> QED BY <2>4, <3>1, <3>2 DEF TypeOK, MarketplaceError, posView, depView
  <2> QED BY <1>2, <2>2, <2>3, <2>4 DEF HandleMarketplace
<1>3. ASSUME NEW o \in Operators, NoAction(o) PROVE TypeOK'
  <2>1. job[o] \in Job
    BY <1>3, AtJob DEF NoAction
  <2> QED BY <1>3, <2>1 DEF TypeOK, NoAction, Job, store, posView, depView, history
<1>4. ASSUME NEW o \in Operators, Pause(o) \/ Resume(o) PROVE TypeOK'
  <2>1. job[o] \in Job
    BY <1>4, AtJob DEF Pause, Resume
  <2>2. job[o].spec.ref \in Deployments
    BY <1>4, <2>1 DEF Pause, Resume, Eligible, Job, PositionSpec
  <2>3. ASSUME NEW n \in Nat, NEW done \in Status, NEW failed \in Status,
               UpdateReplicas(o, n, done, failed)
        PROVE  TypeOK'
    <3>1. replicas' \in [Deployments -> Nat]
      BY <2>3 DEF TypeOK, UpdateReplicas
    <3>2. depLag' \subseteq Operators \X Deployments
      BY <2>2, <2>3 DEF TypeOK, UpdateReplicas
    <3>3. torn' \subseteq Deployments
      BY <2>2, <2>3 DEF TypeOK, UpdateReplicas
    <3>4. \E s \in Status, a \in {"none", "same", "moved"} :
            job' = [job EXCEPT ![o] = [job[o] EXCEPT !.at = "status", !.status = s, !.act = a]]
      BY <2>3 DEF UpdateReplicas
    <3>5. \A s \in Status, a \in {"none", "same", "moved"} :
            [job[o] EXCEPT !.at = "status", !.status = s, !.act = a] \in Job
      BY <2>1 DEF Job
    <3>6. PICK s \in Status, a \in {"none", "same", "moved"} :
            job' = [job EXCEPT ![o] = [job[o] EXCEPT !.at = "status", !.status = s, !.act = a]]
      BY <3>4
    <3>7. [job[o] EXCEPT !.at = "status", !.status = s, !.act = a] \in Job
      BY <3>5
    <3>8. job' \in [Operators -> Job \cup {Nil}]
      BY <3>6, <3>7 DEF TypeOK
    <3> QED BY <2>3, <3>1, <3>2, <3>3, <3>8 DEF TypeOK, UpdateReplicas, posView
  <2>4. CASE Pause(o)
    <3> DEFINE noted == [job[o].status EXCEPT !.orig = depCache[o][job[o].spec.ref]]
    <3>1. noted \in Status
      <4>1. depCache[o][job[o].spec.ref] \in Nat
        BY <2>2 DEF TypeOK
      <4>2. job[o].status \in Status
        BY <2>1 DEF Job
      <4> QED BY <4>1, <4>2 DEF Status
    <3>2. [noted EXCEPT !.paused = TRUE] \in Status
      BY <3>1 DEF Status
    <3>3. UpdateReplicas(o, 0, [noted EXCEPT !.paused = TRUE], noted)
      BY <2>4 DEF Pause
    <3> HIDE DEF noted
    <3> QED BY <2>3, <3>1, <3>2, <3>3
  <2>5. CASE Resume(o)
    <3> DEFINE restore == IF job[o].status.orig = Nil THEN 1 ELSE job[o].status.orig
               resumed == [job[o].status EXCEPT !.paused = FALSE, !.orig = Nil]
    <3>1. job[o].status \in Status
      BY <2>1 DEF Job
    <3>2. resumed \in Status
      BY <3>1 DEF Status
    <3>3. restore \in Nat
      BY <3>1 DEF Status
    <3>4. UpdateReplicas(o, restore, resumed, job[o].status)
      BY <2>5 DEF Resume
    <3> HIDE DEF restore, resumed
    <3> QED BY <2>3, <3>1, <3>2, <3>3, <3>4
  <2> QED BY <1>4, <2>4, <2>5
<1>5. ASSUME NEW o \in Operators, UpdateStatus(o) PROVE TypeOK'
  <2>1. job[o] \in Job
    BY <1>5, AtJob DEF UpdateStatus, SaveStatus, StatusAccepted, LoseStatus
  <2>2. job[o].pos \in Positions /\ job[o].status \in Status /\ job[o].spot \in Int
        /\ job[o].available \in BOOLEAN
    BY <2>1 DEF Job
  <2>3. CASE SaveStatus(o)
    <3> DEFINE p == job[o].pos
               others == Working(p) \ {o}
    <3>1. LostMoves(others) \subseteq Deployments /\ LostCalls(others) \subseteq Positions
      BY LostType DEF Working
    <3>2. api' \in [Positions -> Object \cup {Gone}]
      <4>1. Money(job[o].spot) \in Int
        BY <2>2 DEF Money
      <4>2. WrittenStatus(job[o]) \in Status
        BY <2>2, <4>1 DEF WrittenStatus, Status
      <4>3. api[p] \in Object
        BY <2>2, <2>3 DEF TypeInv, TypeOK, CachesSound, CopySound, SaveStatus, StatusAccepted, At
      <4>4. api' = [api EXCEPT ![p] = [api[p] EXCEPT !.status = WrittenStatus(job[o])]]
        BY <2>3 DEF SaveStatus, StatusAccepted
      <4> QED BY <4>2, <4>3, <4>4 DEF TypeOK, Object
    <3>3. job' \in [Operators -> Job \cup {Nil}]
      BY <2>3, ReplacedType DEF SaveStatus, StatusAccepted
    <3> QED BY <2>2, <2>3, <3>1, <3>2, <3>3 DEF SaveStatus, StatusAccepted, TypeOK, depView
  <2>4. CASE LoseStatus(o)
    <3>1. LostMoves({o}) \subseteq Deployments /\ LostCalls({o}) \subseteq Positions
      BY <2>4, LostType DEF LoseStatus, At
    <3> QED BY <2>4, <3>1 DEF LoseStatus, TypeOK, store, posView, depView
  <2> QED BY <1>5, <2>3, <2>4 DEF UpdateStatus
<1>6. ASSUME NEW o \in Operators, NEW p \in Positions, SyncPosition(o, p) PROVE TypeOK'
  BY <1>6 DEF TypeOK, SyncPosition, store, depView, history
<1>7. ASSUME NEW o \in Operators, NEW d \in Deployments, SyncDeployment(o, d) PROVE TypeOK'
  BY <1>7 DEF TypeOK, SyncDeployment, store, posView, history
<1>8. ASSUME NEW o \in Operators, Restart(o) PROVE TypeOK'
  <2>1. job[o] # Nil => /\ LostMoves({o}) \subseteq Deployments
                        /\ LostCalls({o}) \subseteq Positions
    BY LostType
  <2> QED BY <1>8, <2>1 DEF TypeOK, Restart, store
<1>9. ASSUME NEW p \in Positions, NEW x \in Object \cup {Gone},
             NEW broken \in SUBSET Deployments, WritePosition(p, x, broken),
             \E gone \in SUBSET {p} : tornOffers' = tornOffers \cup LostCalls(Working(p)) \cup gone
      PROVE  TypeOK'
  <2>1. LostMoves(Working(p)) \subseteq Deployments /\ LostCalls(Working(p)) \subseteq Positions
    BY LostType DEF Working
  <2>2. api' \in [Positions -> Object \cup {Gone}]
    BY <1>9 DEF WritePosition, TypeOK
  <2>3. OptedBy(x) \subseteq Deployments /\ SharedIn(api') \subseteq Deployments
    BY DEF OptedBy, RefOf, SharedIn, Object, PositionSpec
  <2>4. job' \in [Operators -> Job \cup {Nil}]
    BY <1>9, ReplacedType DEF WritePosition
  <2> QED BY <1>9, <2>1, <2>2, <2>3, <2>4 DEF WritePosition, TypeOK, depView
<1>10. ASSUME NEW p \in Positions, NEW s \in Specs[p],
              EditPosition(p, s) \/ CreatePosition(p, s)
       PROVE  TypeOK'
  <2>1. s \in PositionSpec
    OBVIOUS
  <2>2. CASE EditPosition(p, s)
    <3> DEFINE broken == IF api[p].status.paused /\ s.ref # api[p].spec.ref
                         THEN {api[p].spec.ref, s.ref} \ {Nil} ELSE {}
    <3>1. api[p] \in Object
      BY <2>2 DEF EditPosition, TypeOK
    <3>2. [api[p] EXCEPT !.spec = s] \in Object
      BY <2>1, <3>1 DEF Object
    <3>3. broken \in SUBSET Deployments
      BY <2>1, <3>1 DEF Object, PositionSpec
    <3>4. WritePosition(p, [api[p] EXCEPT !.spec = s], broken)
      BY <2>2 DEF EditPosition
    <3> HIDE DEF broken
    <3> QED BY <1>9, <2>2, <3>2, <3>3, <3>4 DEF EditPosition
  <2>3. CASE CreatePosition(p, s)
    <3>1. [spec |-> s, status |-> NewStatus] \in Object
      BY <2>1 DEF Object, NewStatus, Status
    <3> QED BY <1>9, <2>3, <3>1 DEF CreatePosition
  <2> QED BY <1>10, <2>2, <2>3
<1>11. ASSUME NEW p \in Positions, DeletePosition(p) PROVE TypeOK'
  <2>1. RefOf(api[p]) \subseteq Deployments
    BY DEF RefOf, TypeOK, Object, PositionSpec
  <2> QED BY <1>9, <1>11, <2>1 DEF DeletePosition
<1>12. ASSUME NEW d \in Deployments, NEW n \in ReplicaCounts, ScaleWorkload(d, n) PROVE TypeOK'
  BY <1>12 DEF TypeOK, ScaleWorkload, posView
<1>13. ASSUME NEW d \in Deployments, TouchWorkload(d) PROVE TypeOK'
  BY <1>13 DEF TypeOK, TouchWorkload, store, posView, history
<1>14. ASSUME Tick PROVE TypeOK'
  <2>1. \A s \in Status : Older(s) \in Status
    BY DEF Older, Status
  <2>2. \A x \in Object \cup {Gone} : OlderObject(x) \in Object \cup {Gone}
    BY <2>1 DEF OlderObject, Object
  <2>3. job' \in [Operators -> Job \cup {Nil}]
    <3>1. \A j \in Job : [j EXCEPT !.status = Older(j.status)] \in Job
      BY <2>1 DEF Job
    <3> QED BY <1>14, <3>1 DEF TypeOK, Tick
  <2> QED BY <1>14, <2>2, <2>3 DEF TypeOK, Tick, depView, history
<1>15. ASSUME Settle PROVE TypeOK'
  BY <1>15 DEF TypeOK, Settle, store, posView, depView, history
<1>16. ASSUME UNCHANGED vars PROVE TypeOK'
  BY <1>16 DEF TypeOK, vars, store, posView, depView, history
<1> QED BY <1>1, <1>2, <1>3, <1>4, <1>5, <1>6, <1>7, <1>8, <1>10, <1>11, <1>12,
           <1>13, <1>14, <1>15, <1>16
        DEF Next, Operator, Environment, ApplyOptionalAction

(* The reconcile that starts with an observation. *)
LEMMA ObservedJob ==
  ASSUME TypeOK, NEW o \in Operators, NEW p \in Positions, Observe(o, p)
  PROVE  /\ job[o] = Nil /\ posCache[o][p] \in Object
         /\ job'[o].at = "market" /\ job'[o].pos = p
         /\ job'[o].spec = posCache[o][p].spec
         /\ job'[o].status.available = posCache[o][p].status.available
         /\ job'[o].status.paused = posCache[o][p].status.paused
         /\ job'[o].status.orig = posCache[o][p].status.orig
         /\ job'[o].call = "none" /\ job'[o].act = "none"
         /\ job'[o].current = (<<o, p>> \notin posLag)
         /\ \A x \in Operators \ {o} : job'[x] = job[x]
<1>1. posCache[o][p] \in Object
  BY DEF TypeOK, Observe, PriceKnown
<1>2. PICK util \in UtilFeed \ {NoAnswer}, price \in PriceFeed :
        job' = [job EXCEPT ![o] =
               [ at |-> "market", pos |-> p, spec |-> posCache[o][p].spec,
                 status |-> [posCache[o][p].status EXCEPT
                   !.idle = EvaluateIdle(posCache[o][p].spec, posCache[o][p].status, util).idle],
                 spot |-> IF price = NoAnswer THEN posCache[o][p].status.spot ELSE price.usd,
                 stale |-> price = NoAnswer \/ price.old,
                 available |-> EvaluateIdle(posCache[o][p].spec, posCache[o][p].status, util).available,
                 call |-> "none", act |-> "none",
                 current |-> <<o, p>> \notin posLag ]]
  BY DEF Observe, PriceKnown
<1>3. posCache[o][p].status \in Status
  BY <1>1 DEF Object
<1>4. \A x \in Operators \ {o} : job'[x] = job[x]
  BY DEF Observe, PriceKnown, TypeOK
<1>5. job[o] = Nil
  BY DEF Observe
<1> QED BY <1>1, <1>2, <1>3, <1>4, <1>5 DEF Status, TypeOK

(* The idle state in its working copy is what the reading makes of the cached one. *)
LEMMA ObservedIdle ==
  ASSUME TypeOK, NEW o \in Operators, NEW p \in Positions, Observe(o, p)
  PROVE  LET seen == posCache[o][p] IN
         \E util \in UtilFeed \ {NoAnswer} :
           /\ job'[o].status =
                [seen.status EXCEPT !.idle = EvaluateIdle(seen.spec, seen.status, util).idle]
           /\ job'[o].available = EvaluateIdle(seen.spec, seen.status, util).available
<1> DEFINE seen == posCache[o][p]
           Copy(util, price) ==
             [ at |-> "market", pos |-> p, spec |-> seen.spec,
               status |-> [seen.status EXCEPT !.idle = EvaluateIdle(seen.spec, seen.status, util).idle],
               spot |-> IF price = NoAnswer THEN seen.status.spot ELSE price.usd,
               stale |-> price = NoAnswer \/ price.old,
               available |-> EvaluateIdle(seen.spec, seen.status, util).available,
               call |-> "none", act |-> "none",
               current |-> <<o, p>> \notin posLag ]
<1>1. PICK util \in UtilFeed \ {NoAnswer}, price \in PriceFeed :
        job' = [job EXCEPT ![o] = Copy(util, price)]
  BY DEF Observe
<1>2. /\ Copy(util, price).status =
           [seen.status EXCEPT !.idle = EvaluateIdle(seen.spec, seen.status, util).idle]
      /\ Copy(util, price).available = EvaluateIdle(seen.spec, seen.status, util).available
  OBVIOUS
<1> HIDE DEF Copy
<1>3. job'[o] = Copy(util, price)
  BY <1>1 DEF TypeOK
<1> QED BY <1>2, <1>3

(* What the marketplace step, or a return without action, does to a job. *)
LEMMA MarketJob ==
  ASSUME TypeOK, StepsInOrder, NEW o \in Operators, HandleMarketplace(o) \/ NoAction(o)
  PROVE  /\ job[o] \in Job /\ job'[o] \in Job /\ InOrder(job'[o])
         /\ job'[o].act = job[o].act /\ job'[o].spec = job[o].spec
         /\ job'[o].pos = job[o].pos /\ job'[o].status = job[o].status
         /\ job'[o].current = job[o].current /\ job'[o].available = job[o].available
         /\ \A x \in Operators \ {o} : job'[x] = job[x]
<1>1. job[o] \in Job /\ InOrder(job[o])
  BY AtJob, SentinelAssumption
     DEF HandleMarketplace, KeepOffer, FlipOffer, MarketplaceError, NoAction, StepsInOrder
<1>2. \A x \in Operators \ {o} : job'[x] = job[x]
  BY DEF HandleMarketplace, KeepOffer, FlipOffer, MarketplaceError, NoAction, TypeOK
<1>3. CASE KeepOffer(o)
  BY <1>1, <1>2, <1>3 DEF KeepOffer, At, TypeOK, Job, InOrder
<1>4. CASE FlipOffer(o)
  BY <1>1, <1>2, <1>4 DEF FlipOffer, At, TypeOK, Job, InOrder
<1>5. CASE MarketplaceError(o)
  BY <1>1, <1>2, <1>5 DEF MarketplaceError, At, TypeOK, Job, InOrder
<1>6. CASE NoAction(o)
  BY <1>1, <1>2, <1>6 DEF NoAction, At, TypeOK, Job, InOrder
<1> QED BY <1>3, <1>4, <1>5, <1>6 DEF HandleMarketplace

(* What an update, accepted or not, does to the job. *)
LEMMA ActionJob ==
  ASSUME TypeOK, StepsInOrder, NEW o \in Operators, Pause(o) \/ Resume(o)
  PROVE  /\ job[o] \in Job /\ job'[o] \in Job /\ InOrder(job'[o])
         /\ job[o].act = "none" /\ Eligible(job[o].spec)
         /\ job[o].spec.ref \in Deployments
         /\ job'[o].spec = job[o].spec /\ job'[o].pos = job[o].pos
         /\ job'[o].current = job[o].current /\ job'[o].available = job[o].available
         /\ job'[o].call = job[o].call
         /\ job'[o].status.available = job[o].status.available
         /\ job'[o].status.idle = job[o].status.idle
         /\ job'[o].act = "none" => /\ job'[o].status.paused = job[o].status.paused
                                    /\ job'[o].status.paused =>
                                         job'[o].status.orig = job[o].status.orig
         /\ \A x \in Operators \ {o} : job'[x] = job[x]
<1>1. job[o] \in Job /\ InOrder(job[o]) /\ job[o].at = "action"
  BY AtJob, SentinelAssumption DEF Pause, Resume, StepsInOrder, At
<1>2. Eligible(job[o].spec) /\ job[o].spec.ref \in Deployments
  BY <1>1, IdleRuleAssumption DEF Pause, Resume, Eligible, Job, PositionSpec
<1> DEFINE Goes(s, a) ==
      job' = [job EXCEPT ![o] = [job[o] EXCEPT !.at = "status", !.status = s, !.act = a]]
<1>3. ASSUME NEW s \in Status, NEW a \in {"none", "same", "moved"}, Goes(s, a)
      PROVE  /\ job'[o] \in Job
             /\ InOrder(job'[o]) \/ s.available # job[o].status.available
             /\ job'[o].spec = job[o].spec /\ job'[o].pos = job[o].pos
             /\ job'[o].current = job[o].current /\ job'[o].available = job[o].available
             /\ job'[o].call = job[o].call
             /\ job'[o].status = s /\ job'[o].act = a
             /\ \A x \in Operators \ {o} : job'[x] = job[x]
  BY <1>1, <1>2, <1>3 DEF TypeOK, Job, InOrder
<1>4. CASE Pause(o)
  <2> DEFINE noted == [job[o].status EXCEPT !.orig = depCache[o][job[o].spec.ref]]
  <2>1. /\ noted \in Status /\ noted.available = job[o].status.available
        /\ noted.idle = job[o].status.idle
        /\ noted.paused = job[o].status.paused /\ ~job[o].status.paused
    <3>1. depCache[o][job[o].spec.ref] \in Nat
      BY <1>2 DEF TypeOK
    <3>2. job[o].status \in Status
      BY <1>1 DEF Job
    <3> QED BY <1>4, <3>1, <3>2 DEF Status, Pause
  <2>2. /\ [noted EXCEPT !.paused = TRUE] \in Status
        /\ [noted EXCEPT !.paused = TRUE].available = noted.available
        /\ [noted EXCEPT !.paused = TRUE].idle = noted.idle
    BY <2>1 DEF Status
  <2>3. \/ Goes(noted, "none")
        \/ \E a \in {"same", "moved"} : Goes([noted EXCEPT !.paused = TRUE], a)
    BY <1>4 DEF Pause, UpdateReplicas
  <2> HIDE DEF noted, Goes
  <2> QED BY <1>1, <1>2, <1>3, <2>1, <2>2, <2>3 DEF InOrder
<1>5. CASE Resume(o)
  <2> DEFINE resumed == [job[o].status EXCEPT !.paused = FALSE, !.orig = Nil]
  <2>1. job[o].status \in Status
    BY <1>1 DEF Job
  <2>2. /\ resumed \in Status /\ resumed.available = job[o].status.available
        /\ resumed.idle = job[o].status.idle
    BY <2>1 DEF Status
  <2>3. \/ Goes(job[o].status, "none")
        \/ \E a \in {"same", "moved"} : Goes(resumed, a)
    BY <1>5 DEF Resume, UpdateReplicas
  <2> HIDE DEF resumed, Goes
  <2> QED BY <1>1, <1>2, <1>3, <2>1, <2>2, <2>3 DEF InOrder
<1> QED BY <1>4, <1>5

(* Who leaves an update with Paused set has noted replicas, if the copy had. *)
LEMMA NotedPause ==
  ASSUME TypeOK, StepsInOrder, NEW o \in Operators, Pause(o) \/ Resume(o),
         job[o].status.paused => job[o].status.orig # Nil
  PROVE  job'[o].status.paused => job'[o].status.orig # Nil
<1>1. job[o] \in Job /\ job[o].status \in Status /\ job[o].spec.ref \in Deployments
  BY ActionJob DEF Job
<1>2. ASSUME NEW t, NEW a,
             job' = [job EXCEPT ![o] = [job[o] EXCEPT !.at = "status", !.status = t, !.act = a]]
      PROVE  job'[o].status = t
  BY <1>1, <1>2 DEF TypeOK, Job
<1>3. CASE Pause(o)
  <2> DEFINE noted == [job[o].status EXCEPT !.orig = depCache[o][job[o].spec.ref]]
             done == [noted EXCEPT !.paused = TRUE]
  <2>1. noted.orig # Nil /\ done.orig # Nil
    <3>1. depCache[o][job[o].spec.ref] \in Nat
      BY <1>1 DEF TypeOK
    <3> QED BY <1>1, <3>1, IdleRuleAssumption DEF Status
  <2>2. UpdateReplicas(o, 0, done, noted)
    BY <1>3 DEF Pause
  <2> HIDE DEF noted, done
  <2>3. job'[o].status = done \/ job'[o].status = noted
    BY <1>2, <2>2 DEF UpdateReplicas
  <2> QED BY <2>1, <2>3
<1>4. CASE Resume(o)
  <2> DEFINE restore == IF job[o].status.orig = Nil THEN 1 ELSE job[o].status.orig
             done == [job[o].status EXCEPT !.paused = FALSE, !.orig = Nil]
  <2>1. ~done.paused
    BY <1>1 DEF Status
  <2>2. UpdateReplicas(o, restore, done, job[o].status)
    BY <1>4 DEF Resume
  <2> HIDE DEF restore, done
  <2>3. job'[o].status = done \/ job'[o].status = job[o].status
    BY <1>2, <2>2 DEF UpdateReplicas
  <2> QED BY <2>1, <2>3
<1> QED BY <1>3, <1>4

(* A write clears the current flag of a job and nothing else. *)
LEMMA ReplacedJob ==
  ASSUME TypeOK, NEW p, NEW o \in Operators
  PROVE  /\ job[o] = Nil => Replaced(p)[o] = Nil
         /\ job[o] # Nil =>
              /\ Replaced(p)[o] # Nil
              /\ Replaced(p)[o] = IF job[o].pos = p THEN [job[o] EXCEPT !.current = FALSE]
                                  ELSE job[o]
              /\ InOrder(job[o]) => InOrder(Replaced(p)[o])
<1>1. CASE job[o] = Nil
  BY <1>1 DEF Replaced, Working
<1>2. CASE job[o] # Nil /\ job[o].pos # p
  BY <1>2 DEF Replaced, Working
<1>3. CASE job[o] # Nil /\ job[o].pos = p
  <2> DEFINE k == [job[o] EXCEPT !.current = FALSE]
  <2>1. Replaced(p)[o] = k
    BY <1>3 DEF Replaced, Working
  <2>2. job[o] \in Job /\ k \in Job
    BY <1>3 DEF TypeOK, Job
  <2>3. k # Nil
    BY <2>2, SentinelAssumption
  <2>4. InOrder(job[o]) => InOrder(k)
    BY <2>2 DEF InOrder, Job
  <2> HIDE DEF k
  <2> QED BY <1>3, <2>1, <2>3, <2>4 DEF k
<1> QED BY <1>1, <1>2, <1>3

LEMMA OrderNext == TypeInv /\ [Next]_vars => StepsInOrder'
<1> SUFFICES ASSUME TypeInv, TypeOK, StepsInOrder, [Next]_vars PROVE StepsInOrder'
  BY DEF TypeInv
<1> USE SentinelAssumption
<1>1. ASSUME NEW o \in Operators, NEW p \in Positions, Observe(o, p) PROVE StepsInOrder'
  <2>1. InOrder(job'[o])
    BY <1>1, ObservedJob DEF InOrder
  <2>2. \A x \in Operators \ {o} : job'[x] = job[x]
    BY <1>1, ObservedJob
  <2> QED BY <2>1, <2>2 DEF StepsInOrder
<1>2. ASSUME NEW o \in Operators, HandleMarketplace(o) \/ NoAction(o) PROVE StepsInOrder'
  BY <1>2, MarketJob DEF StepsInOrder
<1>3. ASSUME NEW o \in Operators, Pause(o) \/ Resume(o) PROVE StepsInOrder'
  BY <1>3, ActionJob DEF StepsInOrder
<1>4. ASSUME NEW p, job' = Replaced(p) PROVE StepsInOrder'
  BY <1>4, ReplacedJob DEF StepsInOrder
<1>5. ASSUME NEW o \in Operators, SaveStatus(o) PROVE StepsInOrder'
  <2>1. \A x \in Operators \ {o} : job'[x] = Replaced(job[o].pos)[x]
    BY <1>5 DEF SaveStatus, StatusAccepted, Replaced
  <2>2. job'[o] = Nil
    BY <1>5 DEF SaveStatus, StatusAccepted, Replaced
  <2> QED BY <2>1, <2>2, ReplacedJob DEF StepsInOrder
<1>6. ASSUME NEW o \in Operators, job' = [job EXCEPT ![o] = Nil] PROVE StepsInOrder'
  BY <1>6 DEF StepsInOrder, TypeOK
<1>7. ASSUME Tick PROVE StepsInOrder'
  <2>1. \A s \in Status : Older(s).available = s.available
    BY DEF Older, Status
  <2>2. \A j \in Job : InOrder(j) => InOrder([j EXCEPT !.status = Older(j.status)])
    BY <2>1 DEF InOrder, Job
  <2> QED BY <1>7, <2>2 DEF StepsInOrder, Tick, TypeOK
<1>8. ASSUME UNCHANGED job PROVE StepsInOrder'
  BY <1>8 DEF StepsInOrder
<1> QED BY <1>1, <1>2, <1>3, <1>4, <1>5, <1>6, <1>7, <1>8
        DEF Next, Operator, Environment, ApplyOptionalAction, UpdateStatus, LoseStatus,
            SyncPosition, SyncDeployment, Restart, EditPosition, CreatePosition,
            DeletePosition, WritePosition, ScaleWorkload, TouchWorkload, Settle, vars

(* A write marks every copy of what it replaces. *)
LEMMA ViewsNext == TypeInv /\ [Next]_vars => ViewsSound'
<1> SUFFICES ASSUME TypeInv, TypeOK, ViewsSound, StepsInOrder, [Next]_vars PROVE ViewsSound'
  BY DEF TypeInv, CachesSound
<1>1. ASSUME UNCHANGED <<api, replicas, posView, depView>> PROVE ViewsSound'
  BY <1>1 DEF ViewsSound, posView, depView
<1>2. ASSUME NEW o \in Operators, Pause(o) \/ Resume(o) PROVE ViewsSound'
  <2>1. job[o].spec.ref \in Deployments
    BY <1>2, ActionJob
  <2>2. \E n, done, failed : UpdateReplicas(o, n, done, failed)
    BY <1>2 DEF Pause, Resume
  <2> QED BY <2>1, <2>2 DEF UpdateReplicas, ViewsSound, TypeOK, posView
<1>3. ASSUME NEW p \in Positions, UNCHANGED <<replicas, posCache, depView>>,
             posLag' = posLag \cup (Operators \X {p}),
             \A q \in Positions \ {p} : api'[q] = api[q]
      PROVE  ViewsSound'
  BY <1>3 DEF ViewsSound, depView
<1>4. ASSUME NEW o \in Operators, SaveStatus(o) PROVE ViewsSound'
  <2>1. job[o] \in Job
    BY <1>4, AtJob DEF SaveStatus, StatusAccepted
  <2>2. job[o].pos \in Positions
    BY <2>1 DEF Job
  <2> QED BY <1>3, <1>4, <2>2 DEF SaveStatus, StatusAccepted, TypeOK
<1>5. ASSUME NEW o \in Operators, NEW p \in Positions, SyncPosition(o, p) PROVE ViewsSound'
  BY <1>5 DEF SyncPosition, ViewsSound, TypeOK, store, depView
<1>6. ASSUME NEW o \in Operators, NEW d \in Deployments, SyncDeployment(o, d) PROVE ViewsSound'
  BY <1>6 DEF SyncDeployment, ViewsSound, TypeOK, store, posView
<1>7. ASSUME NEW o \in Operators, Restart(o) PROVE ViewsSound'
  BY <1>7 DEF Restart, ViewsSound, TypeOK, store
<1>8. ASSUME NEW p \in Positions, NEW x, NEW broken, WritePosition(p, x, broken)
      PROVE  ViewsSound'
  BY <1>3, <1>8 DEF WritePosition, TypeOK
<1>9. ASSUME NEW d \in Deployments, NEW n, ScaleWorkload(d, n) \/ TouchWorkload(d)
      PROVE  ViewsSound'
  BY <1>9 DEF ScaleWorkload, TouchWorkload, ViewsSound, TypeOK, store, posView
<1>10. ASSUME Tick PROVE ViewsSound'
  BY <1>10 DEF Tick, ViewsSound, TypeOK, depView
<1> QED BY <1>1, <1>2, <1>4, <1>5, <1>6, <1>7, <1>8, <1>9, <1>10
        DEF Next, Operator, Environment, Observe, HandleMarketplace, KeepOffer, FlipOffer,
            MarketplaceError, ApplyOptionalAction, NoAction, UpdateStatus, LoseStatus,
            EditPosition, CreatePosition, DeletePosition, Settle, vars, store

(* A reconcile whose copy stays current sees what is stored stay as it was. *)
LEMMA CopiesNext == TypeInv /\ [Next]_vars => \A o \in Operators : CopySound(o)'
<1> SUFFICES ASSUME TypeInv, TypeOK, StepsInOrder, ViewsSound,
                    \A o \in Operators : CopySound(o), [Next]_vars, NEW x \in Operators
             PROVE  CopySound(x)'
  BY DEF TypeInv, CachesSound
<1> USE SentinelAssumption
<1>1. ASSUME NEW o \in Operators, NEW p \in Positions, Observe(o, p) PROVE CopySound(x)'
  <2>1. api' = api
    BY <1>1 DEF Observe, store
  <2>2. CASE x = o
    <3>1. /\ posCache[o][p] # Gone
          /\ job'[o].pos = p /\ job'[o].spec = posCache[o][p].spec
          /\ job'[o].status.available = posCache[o][p].status.available
          /\ job'[o].status.paused = posCache[o][p].status.paused
          /\ job'[o].status.orig = posCache[o][p].status.orig
          /\ job'[o].current = (<<o, p>> \notin posLag)
      BY <1>1, ObservedJob
    <3>2. <<o, p>> \notin posLag => posCache[o][p] = api[p]
      BY DEF ViewsSound
    <3> QED BY <2>1, <2>2, <3>1, <3>2 DEF CopySound
  <2>3. CASE x # o
    <3>1. \A y \in Operators \ {o} : job'[y] = job[y]
      BY <1>1, ObservedJob
    <3>2. job'[x] = job[x]
      BY <2>3, <3>1
    <3> QED BY <2>1, <3>2 DEF CopySound
  <2> QED BY <2>2, <2>3
<1>2. ASSUME NEW o \in Operators, HandleMarketplace(o) \/ NoAction(o) PROVE CopySound(x)'
  <2>1. api' = api
    BY <1>2 DEF HandleMarketplace, KeepOffer, FlipOffer, MarketplaceError, NoAction, store
  <2> QED BY <1>2, <2>1, MarketJob DEF CopySound
<1>3. ASSUME NEW o \in Operators, Pause(o) \/ Resume(o) PROVE CopySound(x)'
  <2>1. api' = api
    BY <1>3 DEF Pause, Resume, UpdateReplicas
  <2> QED BY <1>3, <2>1, ActionJob DEF CopySound
<1>4. ASSUME NEW p \in Positions, \A q \in Positions \ {p} : api'[q] = api[q],
             job'[x] = Nil \/ job'[x] = Replaced(p)[x]
      PROVE  CopySound(x)'
  BY <1>4 DEF CopySound, Replaced, Working, TypeOK, Job
<1>5. ASSUME NEW o \in Operators, SaveStatus(o) PROVE CopySound(x)'
  <2>1. job[o] \in Job
    BY <1>5, AtJob DEF SaveStatus, StatusAccepted
  <2>2. job[o].pos \in Positions
    BY <2>1 DEF Job
  <2> QED BY <1>4, <1>5, <2>2 DEF SaveStatus, StatusAccepted, TypeOK, Replaced
<1>6. ASSUME NEW o \in Operators, LoseStatus(o) \/ Restart(o) PROVE CopySound(x)'
  BY <1>6 DEF CopySound, LoseStatus, Restart, TypeOK, store
<1>7. ASSUME NEW p \in Positions, NEW y, NEW broken, WritePosition(p, y, broken)
      PROVE  CopySound(x)'
  BY <1>4, <1>7 DEF WritePosition, TypeOK
<1>8. ASSUME Tick PROVE CopySound(x)'
  <2>1. \A s \in Status : /\ Older(s).available = s.available
                          /\ Older(s).paused = s.paused /\ Older(s).orig = s.orig
    BY DEF Older, Status
  <2>2. \A y \in Object : /\ OlderObject(y) # Gone
                          /\ OlderObject(y).spec = y.spec
                          /\ OlderObject(y).status = Older(y.status)
    <3>1. \A y \in Object : y # Gone /\ Older(y.status) \in Status
      BY DEF Object, Older, Status
    <3> QED BY <3>1 DEF OlderObject, Object
  <2>3. CASE job[x] = Nil
    BY <1>8, <2>3 DEF Tick, CopySound
  <2>4. CASE job[x] # Nil
    <3>1. job[x] \in Job
      BY <2>4 DEF TypeOK
    <3>2. job[x].pos \in Positions /\ job[x].status \in Status
      BY <3>1 DEF Job
    <3>3. job'[x] = [job[x] EXCEPT !.status = Older(job[x].status)]
      BY <1>8, <2>4 DEF Tick
    <3>4. api'[job[x].pos] = OlderObject(api[job[x].pos])
      BY <1>8, <3>2 DEF Tick
    <3>5. /\ job'[x].pos = job[x].pos /\ job'[x].spec = job[x].spec
          /\ job'[x].act = job[x].act /\ job'[x].current = job[x].current
          /\ job'[x].status = Older(job[x].status)
      BY <3>1, <3>3 DEF Job
    <3>6. api[job[x].pos] # Gone => api[job[x].pos] \in Object
      BY <3>2 DEF TypeOK
    <3>7. api[job[x].pos] \in Object => api[job[x].pos].status \in Status
      BY DEF Object
    <3>8. CASE job[x].current
      <4>1. api[job[x].pos] \in Object /\ api[job[x].pos].status \in Status
        BY <2>4, <3>6, <3>7, <3>8 DEF CopySound
      <4>2. /\ api'[job'[x].pos] # Gone
            /\ api'[job'[x].pos].spec = api[job[x].pos].spec
            /\ api'[job'[x].pos].status = Older(api[job[x].pos].status)
        BY <2>2, <3>4, <3>5, <4>1
      <4> QED BY <2>1, <2>4, <3>2, <3>5, <3>8, <4>1, <4>2 DEF CopySound
    <3>9. CASE ~job[x].current
      BY <3>5, <3>9 DEF CopySound
    <3> QED BY <3>8, <3>9
  <2> QED BY <2>3, <2>4
<1>9. ASSUME UNCHANGED <<api, job>> PROVE CopySound(x)'
  BY <1>9 DEF CopySound
<1> QED BY <1>1, <1>2, <1>3, <1>5, <1>6, <1>7, <1>8, <1>9
        DEF Next, Operator, Environment, ApplyOptionalAction, UpdateStatus,
            SyncPosition, SyncDeployment, EditPosition, CreatePosition, DeletePosition,
            ScaleWorkload, TouchWorkload, Settle, vars, store

LEMMA TypeInvariance == Spec => []TypeInv
<1>1. TypeInv /\ [Next]_vars => TypeInv'
  BY TypeNext, OrderNext, ViewsNext, CopiesNext DEF TypeInv, CachesSound
<1> QED BY <1>1, TypeInit, PTL DEF Spec

(* Every state of the system is of the right type, whatever the constants. *)
THEOREM TypeCorrect == Spec => []TypeOK
  BY TypeInvariance, PTL DEF TypeInv

(* Optimistic concurrency is sound: what carries a current version is current. *)
THEOREM CachesCorrect == Spec => []CachesSound
  BY TypeInvariance, PTL DEF TypeInv

-------------------------------------------------------------------------------
(* Advisory by default.  The strengthening: what an operator may act on, now or
   from a copy as old as it likes, was opted in by a spec that was stored.     *)
OptInKnown ==
  /\ \A p \in Positions : OptedBy(api[p]) \subseteq opted
  /\ \A o \in Operators, p \in Positions : OptedBy(posCache[o][p]) \subseteq opted
  /\ \A o \in Operators : job[o] # Nil /\ Eligible(job[o].spec) => job[o].spec.ref \in opted

AdvisoryInv == OptInKnown /\ AdvisoryByDefault

LEMMA AdvisoryInit == Init => AdvisoryInv
  BY DEF Init, AdvisoryInv, OptInKnown, AdvisoryByDefault

LEMMA OptInNext == TypeInv /\ OptInKnown /\ [Next]_vars => OptInKnown'
<1> SUFFICES ASSUME TypeInv, TypeOK, StepsInOrder, OptInKnown, [Next]_vars PROVE OptInKnown'
  BY DEF TypeInv
<1> USE SentinelAssumption
<1> DEFINE Known(j) == j # Nil /\ Eligible(j.spec) => j.spec.ref \in opted
<1>1. ASSUME NEW o \in Operators, NEW p \in Positions, Observe(o, p) PROVE OptInKnown'
  <2>1. /\ posCache[o][p] # Gone /\ job'[o].spec = posCache[o][p].spec
        /\ \A x \in Operators \ {o} : job'[x] = job[x]
    <3>1. posCache[o][p] # Gone
      BY <1>1 DEF Observe
    <3> QED BY <1>1, <3>1, ObservedJob
  <2>2. OptedBy(posCache[o][p]) \subseteq opted
    BY DEF OptInKnown
  <2>3. Eligible(posCache[o][p].spec) => posCache[o][p].spec.ref \in opted
    BY <2>1, <2>2 DEF OptedBy, RefOf, Eligible
  <2> QED BY <1>1, <2>1, <2>3 DEF OptInKnown, Observe, store, posView, history
<1>2. ASSUME NEW o \in Operators, HandleMarketplace(o) \/ NoAction(o) PROVE OptInKnown'
  <2>1. /\ job[o] # Nil /\ job'[o].spec = job[o].spec
        /\ \A x \in Operators \ {o} : job'[x] = job[x]
    BY <1>2, MarketJob
  <2>2. UNCHANGED <<api, posCache, opted>>
    BY <1>2 DEF HandleMarketplace, KeepOffer, FlipOffer, MarketplaceError, NoAction,
       store, posView, history
  <2> QED BY <2>1, <2>2 DEF OptInKnown
<1>3. ASSUME NEW o \in Operators, Pause(o) \/ Resume(o) PROVE OptInKnown'
  <2>1. /\ job[o] # Nil /\ job'[o].spec = job[o].spec
        /\ \A x \in Operators \ {o} : job'[x] = job[x]
    BY <1>3, ActionJob
  <2>2. UNCHANGED <<api, posCache, opted>>
    BY <1>3 DEF Pause, Resume, UpdateReplicas, posView
  <2> QED BY <2>1, <2>2 DEF OptInKnown
<1>4. ASSUME NEW x \in Operators, NEW p, job'[x] = Nil \/ job'[x] = Replaced(p)[x]
      PROVE  job'[x] # Nil => job[x] # Nil /\ job'[x].spec = job[x].spec
  BY <1>4 DEF Replaced, Working, TypeOK, Job
<1>5. ASSUME NEW o \in Operators, UpdateStatus(o) \/ Restart(o) PROVE OptInKnown'
  <2>1. \A x \in Operators : job'[x] # Nil => job[x] # Nil /\ job'[x].spec = job[x].spec
    <3>1. CASE SaveStatus(o)
      BY <1>4, <3>1 DEF SaveStatus, StatusAccepted, Replaced
    <3>2. CASE LoseStatus(o) \/ Restart(o)
      BY <3>2 DEF LoseStatus, Restart, TypeOK
    <3> QED BY <1>5, <3>1, <3>2 DEF UpdateStatus
  <2>2. \A p \in Positions : OptedBy(api'[p]) \subseteq opted
    <3>1. CASE SaveStatus(o)
      <4>1. job[o] \in Job /\ job[o].pos \in Positions /\ api[job[o].pos] \in Object
        BY <3>1, AtJob DEF SaveStatus, StatusAccepted, TypeInv, TypeOK, CachesSound, CopySound, Job
      <4>2. api' = [api EXCEPT ![job[o].pos] =
                      [api[job[o].pos] EXCEPT !.status = WrittenStatus(job[o])]]
        BY <3>1 DEF SaveStatus, StatusAccepted
      <4>3. /\ api'[job[o].pos].spec = api[job[o].pos].spec
            /\ \A p \in Positions \ {job[o].pos} : api'[p] = api[p]
        BY <4>1, <4>2 DEF TypeOK, Object
      <4>4. api[job[o].pos] # Gone
        BY <4>1
      <4> QED BY <4>1, <4>3, <4>4 DEF OptInKnown, OptedBy, RefOf
    <3>2. CASE UNCHANGED api
      BY <3>2 DEF OptInKnown
    <3> QED BY <1>5, <3>1, <3>2 DEF UpdateStatus, LoseStatus, Restart, store
  <2>3. \A x \in Operators, p \in Positions : OptedBy(posCache'[x][p]) \subseteq opted
    BY <1>5 DEF UpdateStatus, SaveStatus, StatusAccepted, LoseStatus, Restart, OptInKnown, TypeOK, posView
  <2>4. opted' = opted
    BY <1>5 DEF UpdateStatus, SaveStatus, StatusAccepted, LoseStatus, Restart
  <2> QED BY <2>1, <2>2, <2>3, <2>4 DEF OptInKnown
<1>6. ASSUME NEW p \in Positions, NEW y, NEW broken, WritePosition(p, y, broken)
      PROVE  OptInKnown'
  <2>1. \A x \in Operators : job'[x] # Nil => job[x] # Nil /\ job'[x].spec = job[x].spec
    BY <1>4, <1>6 DEF WritePosition
  <2>2. \A q \in Positions : api'[q] = IF q = p THEN y ELSE api[q]
    BY <1>6 DEF WritePosition, TypeOK
  <2>3. opted' = opted \cup OptedBy(y) /\ posCache' = posCache
    BY <1>6 DEF WritePosition
  <2> QED BY <2>1, <2>2, <2>3 DEF OptInKnown
<1>7. ASSUME Tick PROVE OptInKnown'
  <2>1. \A y \in Object \cup {Gone} : OptedBy(OlderObject(y)) = OptedBy(y)
    <3>1. ASSUME NEW y \in Object PROVE OlderObject(y) \in Object /\ OlderObject(y).spec = y.spec
      BY DEF OlderObject, Object, Older, Status
    <3>2. ASSUME NEW y \in Object PROVE y # Gone /\ OlderObject(y) # Gone
      BY <3>1
    <3> QED BY <3>1, <3>2 DEF OptedBy, RefOf, OlderObject
  <2>2. \A x \in Operators : job'[x] # Nil => job[x] # Nil /\ job'[x].spec = job[x].spec
    BY <1>7 DEF Tick, TypeOK, Job
  <2>3. \A p \in Positions : OptedBy(api'[p]) = OptedBy(api[p])
    BY <1>7, <2>1 DEF Tick, TypeOK
  <2>4. \A x \in Operators, p \in Positions : OptedBy(posCache'[x][p]) = OptedBy(posCache[x][p])
    BY <1>7, <2>1 DEF Tick, TypeOK
  <2>5. opted' = opted
    BY <1>7 DEF Tick, history
  <2> QED BY <2>2, <2>3, <2>4, <2>5 DEF OptInKnown
<1>8. ASSUME NEW o \in Operators, NEW p \in Positions, SyncPosition(o, p) PROVE OptInKnown'
  BY <1>8 DEF SyncPosition, OptInKnown, TypeOK, store, history
<1>9. ASSUME UNCHANGED <<api, posCache, job, opted>> PROVE OptInKnown'
  BY <1>9 DEF OptInKnown
<1>10. ASSUME NEW o \in Operators, Operator(o) PROVE OptInKnown'
  <2>1. ASSUME NEW d \in Deployments, SyncDeployment(o, d) PROVE OptInKnown'
    BY <1>9, <2>1 DEF SyncDeployment, store, posView, history
  <2> QED BY <1>1, <1>2, <1>3, <1>5, <1>8, <1>10, <2>1 DEF Operator, ApplyOptionalAction
<1>11. ASSUME Environment PROVE OptInKnown'
  <2>1. ASSUME \/ \E d \in Deployments : \/ TouchWorkload(d)
                                          \/ \E n \in ReplicaCounts : ScaleWorkload(d, n)
               \/ Settle
        PROVE  OptInKnown'
    BY <1>9, <2>1 DEF ScaleWorkload, TouchWorkload, Settle, store, posView, history
  <2> QED BY <1>6, <1>7, <1>11, <2>1 DEF Environment, EditPosition, CreatePosition, DeletePosition
<1> QED BY <1>9, <1>10, <1>11 DEF Next, vars, store, posView, history

(* Only an update of an operator moves replicas away from what the user wants. *)
LEMMA AdvisoryNext == TypeInv /\ AdvisoryInv /\ [Next]_vars => AdvisoryByDefault'
<1> SUFFICES ASSUME TypeInv, TypeOK, StepsInOrder, OptInKnown, AdvisoryByDefault, [Next]_vars
             PROVE  AdvisoryByDefault'
  BY DEF TypeInv, AdvisoryInv
<1>1. ASSUME NEW o \in Operators, Pause(o) \/ Resume(o) PROVE AdvisoryByDefault'
  <2>1. Eligible(job[o].spec) /\ job[o].spec.ref \in Deployments /\ job[o] # Nil
    BY <1>1, ActionJob, SentinelAssumption
  <2>2. job[o].spec.ref \in opted
    BY <2>1 DEF OptInKnown
  <2>3. \E n, done, failed : UpdateReplicas(o, n, done, failed)
    BY <1>1 DEF Pause, Resume
  <2> QED BY <2>1, <2>2, <2>3 DEF UpdateReplicas, AdvisoryByDefault, TypeOK
<1>2. ASSUME NEW d \in Deployments, NEW n, ScaleWorkload(d, n) PROVE AdvisoryByDefault'
  BY <1>2 DEF ScaleWorkload, AdvisoryByDefault, TypeOK
<1>3. ASSUME UNCHANGED <<replicas, desired>>, opted \subseteq opted' PROVE AdvisoryByDefault'
  BY <1>3 DEF AdvisoryByDefault
<1>4. ASSUME NEW o \in Operators, Operator(o) PROVE AdvisoryByDefault'
  <2>1. CASE ApplyOptionalAction(o)
    BY <1>1, <1>3, <2>1 DEF ApplyOptionalAction, NoAction, store, history
  <2>2. CASE HandleMarketplace(o)
    BY <1>3, <2>2 DEF HandleMarketplace, KeepOffer, FlipOffer, MarketplaceError, store, history
  <2>3. CASE UpdateStatus(o)
    BY <1>3, <2>3 DEF UpdateStatus, SaveStatus, LoseStatus, store, history
  <2>4. CASE \/ Restart(o)
             \/ \E p \in Positions : Observe(o, p) \/ SyncPosition(o, p)
             \/ \E d \in Deployments : SyncDeployment(o, d)
    BY <1>3, <2>4 DEF Restart, Observe, SyncPosition, SyncDeployment, store, history
  <2> QED BY <1>4, <2>1, <2>2, <2>3, <2>4 DEF Operator
<1>5. ASSUME Environment PROVE AdvisoryByDefault'
  <2>1. ASSUME NEW p \in Positions,
               (\E s \in Specs[p] : EditPosition(p, s) \/ CreatePosition(p, s)) \/ DeletePosition(p)
        PROVE  AdvisoryByDefault'
    BY <1>3, <2>1 DEF EditPosition, CreatePosition, DeletePosition, WritePosition
  <2>2. ASSUME NEW d \in Deployments, (\E n \in ReplicaCounts : ScaleWorkload(d, n)) \/ TouchWorkload(d)
        PROVE  AdvisoryByDefault'
    <3>1. CASE TouchWorkload(d)
      BY <1>3, <3>1 DEF TouchWorkload, store, history
    <3> QED BY <1>2, <2>2, <3>1
  <2>3. CASE Tick \/ Settle
    BY <1>3, <2>3 DEF Tick, Settle, store, history
  <2> QED BY <1>5, <2>1, <2>2, <2>3 DEF Environment
<1> QED BY <1>3, <1>4, <1>5 DEF Next, vars, store, history

(* Whatever operators, users and failures do, in any order and with any number of
   each: a Deployment that no spec ever opted in keeps its user's replicas.    *)
THEOREM Advisory == Spec => []AdvisoryByDefault
<1>1. TypeInv /\ AdvisoryInv /\ [Next]_vars => AdvisoryInv'
  BY OptInNext, AdvisoryNext DEF AdvisoryInv
<1> QED BY <1>1, AdvisoryInit, TypeInvariance, PTL DEF Spec, AdvisoryInv

(* StatusSound is inductive by itself: what it says of one copy. *)
SoundStatus(t) == (t.paused => t.orig # Nil) /\ (t.available => t.idle # Nil)

SoundJob(j) == (j.status.paused => j.status.orig # Nil) /\ (j.available => j.status.idle # Nil)

(* The rule flags only what has an idle window, if the stored flag has one. *)
LEMMA EvaluateIdleSound ==
  ASSUME NEW spec, NEW util, NEW status \in Status, SoundStatus(status)
  PROVE  LET seen == EvaluateIdle(spec, status, util) IN seen.available => seen.idle # Nil
  BY IdleRuleAssumption DEF EvaluateIdle, SoundStatus, Status

(* writeStatus takes the price and the flag from the reconcile, the rest from its copy. *)
LEMMA WrittenFields ==
  ASSUME NEW j, j.status \in Status
  PROVE  /\ WrittenStatus(j).paused = j.status.paused
         /\ WrittenStatus(j).orig = j.status.orig
         /\ WrittenStatus(j).idle = j.status.idle
         /\ WrittenStatus(j).available = j.available
  BY DEF WrittenStatus, Status

LEMMA StatusNext == TypeInv /\ StatusSound /\ [Next]_vars => StatusSound'
<1> SUFFICES ASSUME TypeInv, TypeOK, StepsInOrder, [Next]_vars,
               \A p \in Positions : api[p] # Gone => SoundStatus(api[p].status),
               \A o \in Operators, p \in Positions :
                 posCache[o][p] # Gone => SoundStatus(posCache[o][p].status),
               \A o \in Operators : job[o] # Nil => SoundJob(job[o])
             PROVE  /\ \A p \in Positions : api'[p] # Gone => SoundStatus(api'[p].status)
                    /\ \A o \in Operators, p \in Positions :
                         posCache'[o][p] # Gone => SoundStatus(posCache'[o][p].status)
                    /\ \A o \in Operators : job'[o] # Nil => SoundJob(job'[o])
  BY DEF TypeInv, StatusSound, SoundStatus, SoundJob
<1> DEFINE Stored == \A p \in Positions : api[p] # Gone => SoundStatus(api[p].status)
           Cached == \A o \in Operators, p \in Positions :
                       posCache[o][p] # Gone => SoundStatus(posCache[o][p].status)
           Worked == \A o \in Operators : job[o] # Nil => SoundJob(job[o])
<1> USE SentinelAssumption
<1>1. ASSUME NEW o \in Operators, NEW p \in Positions, Observe(o, p)
      PROVE  Stored' /\ Cached' /\ Worked'
  <2> DEFINE seen == posCache[o][p]
  <2>1. seen \in Object /\ seen.status \in Status /\ SoundStatus(seen.status)
    BY <1>1 DEF TypeOK, Observe, Object
  <2>2. PICK util \in UtilFeed \ {NoAnswer} :
          /\ job'[o].status = [seen.status EXCEPT !.idle = EvaluateIdle(seen.spec, seen.status, util).idle]
          /\ job'[o].available = EvaluateIdle(seen.spec, seen.status, util).available
    BY <1>1, ObservedIdle
  <2>3. SoundJob(job'[o])
    <3>1. EvaluateIdle(seen.spec, seen.status, util) \in [idle: Nat \cup {Nil}, available: BOOLEAN]
      BY <2>1, EvaluateIdleType
    <3>2. EvaluateIdle(seen.spec, seen.status, util).available
            => EvaluateIdle(seen.spec, seen.status, util).idle # Nil
      BY <2>1, EvaluateIdleSound
    <3> QED BY <2>1, <2>2, <3>1, <3>2 DEF SoundJob, SoundStatus, Status
  <2>4. \A x \in Operators \ {o} : job'[x] = job[x]
    BY <1>1, ObservedJob
  <2>5. UNCHANGED <<api, posCache>>
    BY <1>1 DEF Observe, store, posView
  <2> QED BY <2>3, <2>4, <2>5
<1>2. ASSUME NEW o \in Operators, HandleMarketplace(o) \/ NoAction(o)
      PROVE  Stored' /\ Cached' /\ Worked'
  <2>1. /\ job[o] \in Job /\ job'[o].status = job[o].status /\ job'[o].available = job[o].available
        /\ \A x \in Operators \ {o} : job'[x] = job[x]
    BY <1>2, MarketJob
  <2>2. UNCHANGED <<api, posCache>>
    BY <1>2 DEF HandleMarketplace, KeepOffer, FlipOffer, MarketplaceError, NoAction, store, posView
  <2> QED BY <2>1, <2>2 DEF SoundJob
<1>3. ASSUME NEW o \in Operators, Pause(o) \/ Resume(o) PROVE Stored' /\ Cached' /\ Worked'
  <2>1. /\ job[o] \in Job /\ job'[o].available = job[o].available
        /\ job'[o].status.idle = job[o].status.idle
        /\ \A x \in Operators \ {o} : job'[x] = job[x]
    BY <1>3, ActionJob
  <2>2. job'[o].status.paused => job'[o].status.orig # Nil
    <3>1. job[o].status.paused => job[o].status.orig # Nil
      BY <2>1 DEF SoundJob
    <3> QED BY <1>3, <3>1, NotedPause
  <2>3. SoundJob(job'[o])
    BY <2>1, <2>2 DEF SoundJob
  <2>4. UNCHANGED <<api, posCache>>
    BY <1>3 DEF Pause, Resume, UpdateReplicas, posView
  <2> QED BY <2>1, <2>3, <2>4
<1>4. ASSUME NEW p \in Positions, NEW x, \A q \in Positions : api'[q] = IF q = p THEN x ELSE api[q],
             x # Gone => SoundStatus(x.status), posCache' = posCache,
             \A o \in Operators : job'[o] = Nil \/ job'[o] = Replaced(p)[o]
      PROVE  Stored' /\ Cached' /\ Worked'
  <2>1. ASSUME NEW o \in Operators, job'[o] # Nil PROVE SoundJob(job'[o])
    <3>1. job[o] # Nil /\ job[o] \in Job
      <4>1. job[o] # Nil
        BY <1>4, <2>1, ReplacedJob
      <4> QED BY <4>1 DEF TypeOK
    <3>2. job'[o] = IF job[o].pos = p THEN [job[o] EXCEPT !.current = FALSE] ELSE job[o]
      BY <1>4, <2>1, <3>1, ReplacedJob
    <3>3. job'[o].status = job[o].status /\ job'[o].available = job[o].available
      BY <3>1, <3>2 DEF Job
    <3> QED BY <3>1, <3>3 DEF SoundJob
  <2> QED BY <1>4, <2>1
<1>5. ASSUME NEW o \in Operators, SaveStatus(o) PROVE Stored' /\ Cached' /\ Worked'
  <2> DEFINE p == job[o].pos
             x == [api[p] EXCEPT !.status = WrittenStatus(job[o])]
  <2>1. job[o] # Nil /\ job[o] \in Job /\ job[o].status \in Status /\ p \in Positions
        /\ job[o].current
    BY <1>5, AtJob DEF SaveStatus, StatusAccepted, At, Job
  <2>2. api[p] \in Object
    BY <2>1 DEF TypeInv, TypeOK, CachesSound, CopySound
  <2>3. SoundStatus(x.status)
    <3>1. x.status = WrittenStatus(job[o])
      BY <2>2 DEF Object
    <3>2. SoundJob(job[o])
      BY <2>1
    <3>3. /\ x.status.paused = job[o].status.paused /\ x.status.orig = job[o].status.orig
          /\ x.status.idle = job[o].status.idle /\ x.status.available = job[o].available
      BY <2>1, <3>1, WrittenFields
    <3> QED BY <3>2, <3>3 DEF SoundStatus, SoundJob
  <2>4. \A q \in Positions : api'[q] = IF q = p THEN x ELSE api[q]
    BY <1>5, <2>1 DEF SaveStatus, TypeOK
  <2>5. /\ posCache' = posCache
        /\ \A y \in Operators : job'[y] = Nil \/ job'[y] = Replaced(p)[y]
    BY <1>5 DEF SaveStatus, Replaced
  <2> HIDE DEF x, p
  <2> QED BY <1>4, <2>1, <2>3, <2>4, <2>5
<1>6. ASSUME NEW p \in Positions, NEW x, NEW broken, WritePosition(p, x, broken),
             x # Gone => SoundStatus(x.status)
      PROVE  Stored' /\ Cached' /\ Worked'
  BY <1>4, <1>6 DEF WritePosition, TypeOK
<1>7. ASSUME NEW p \in Positions, NEW s \in Specs[p], EditPosition(p, s)
      PROVE  Stored' /\ Cached' /\ Worked'
  <2>1. api[p] # Gone /\ api[p] \in Object
    BY <1>7 DEF EditPosition, TypeOK
  <2>2. [api[p] EXCEPT !.spec = s].status = api[p].status
    BY <2>1 DEF Object
  <2> QED BY <1>6, <1>7, <2>1, <2>2 DEF EditPosition
<1>8. ASSUME NEW p \in Positions, NEW s \in Specs[p], CreatePosition(p, s)
      PROVE  Stored' /\ Cached' /\ Worked'
  <2>1. SoundStatus([spec |-> s, status |-> NewStatus].status)
    BY DEF SoundStatus, NewStatus
  <2> QED BY <1>6, <1>8, <2>1 DEF CreatePosition
<1>9. ASSUME NEW p \in Positions, DeletePosition(p) PROVE Stored' /\ Cached' /\ Worked'
  BY <1>6, <1>9 DEF DeletePosition
<1>10. ASSUME NEW o \in Operators, LoseStatus(o) \/ Restart(o) PROVE Stored' /\ Cached' /\ Worked'
  <2>1. /\ api' = api
        /\ \A x \in Operators : job'[x] = Nil \/ job'[x] = job[x]
        /\ \A x \in Operators : posCache'[x] = posCache[x] \/ posCache'[x] = api
    BY <1>10 DEF LoseStatus, Restart, store, posView, TypeOK
  <2> QED BY <2>1
<1>11. ASSUME NEW o \in Operators, NEW p \in Positions, SyncPosition(o, p)
       PROVE  Stored' /\ Cached' /\ Worked'
  <2>1. /\ UNCHANGED <<api, job>>
        /\ \A x \in Operators, q \in Positions :
             posCache'[x][q] = posCache[x][q] \/ posCache'[x][q] = api[q]
    BY <1>11 DEF SyncPosition, store, TypeOK
  <2> QED BY <2>1
<1>12. ASSUME Tick PROVE Stored' /\ Cached' /\ Worked'
  <2>1. \A t \in Status : /\ Older(t) \in Status
                          /\ SoundStatus(t) => SoundStatus(Older(t))
                          /\ Older(t).paused = t.paused /\ Older(t).orig = t.orig
                          /\ t.idle # Nil => Older(t).idle # Nil
    BY ReconcilerAssumption, IdleRuleAssumption DEF Older, Status, SoundStatus
  <2>2. ASSUME NEW x \in Object \cup {Gone}, x # Gone => SoundStatus(x.status),
               OlderObject(x) # Gone
        PROVE  SoundStatus(OlderObject(x).status)
    <3>1. x \in Object /\ x # Gone /\ x.status \in Status
      BY <2>2 DEF OlderObject, Object
    <3>2. OlderObject(x).status = Older(x.status)
      BY <3>1 DEF OlderObject, Object
    <3> QED BY <2>1, <2>2, <3>1, <3>2
  <2>3. ASSUME NEW p \in Positions, api'[p] # Gone PROVE SoundStatus(api'[p].status)
    BY <1>12, <2>2, <2>3 DEF Tick, TypeOK
  <2>4. ASSUME NEW o \in Operators, NEW p \in Positions, posCache'[o][p] # Gone
        PROVE  SoundStatus(posCache'[o][p].status)
    <3>1. posCache'[o][p] = OlderObject(posCache[o][p])
      BY <1>12 DEF Tick
    <3>2. posCache[o][p] \in Object \cup {Gone}
      BY DEF TypeOK
    <3> QED BY <2>2, <2>4, <3>1, <3>2
  <2>5. ASSUME NEW o \in Operators, job'[o] # Nil PROVE SoundJob(job'[o])
    <3>1. job[o] # Nil /\ job[o] \in Job /\ job[o].status \in Status
      BY <1>12, <2>5 DEF Tick, TypeOK, Job
    <3>2. job'[o] = [job[o] EXCEPT !.status = Older(job[o].status)]
      BY <1>12, <3>1 DEF Tick
    <3>3. job'[o].status = Older(job[o].status) /\ job'[o].available = job[o].available
      BY <3>1, <3>2 DEF Job
    <3> QED BY <2>1, <3>1, <3>3 DEF SoundJob
  <2> QED BY <2>3, <2>5, <2>4
<1>13. ASSUME UNCHANGED <<api, posCache, job>> PROVE Stored' /\ Cached' /\ Worked'
  BY <1>13
<1> QED BY <1>1, <1>2, <1>3, <1>5, <1>7, <1>8, <1>9, <1>10, <1>11, <1>12, <1>13
        DEF Next, Operator, Environment, ApplyOptionalAction, UpdateStatus,
            SyncDeployment, ScaleWorkload, TouchWorkload, Settle, vars, store, posView, history

(* A resume never has to guess how many replicas there were, and a flag never
   lacks the start of its window: in the store, in caches that are behind and in
   every reconcile under way, after failures and restarts of any kind.         *)
THEOREM StatusCorrect == Spec => []StatusSound
<1>1. Init => StatusSound
  <2> SUFFICES ASSUME Init PROVE StatusSound
    OBVIOUS
  <2>1. api \in [Positions -> [spec: UNION {Specs[p] : p \in Positions}, status: {NewStatus}]]
    BY DEF Init
  <2>2. \A p \in Positions : ~api[p].status.paused /\ ~api[p].status.available
    BY <2>1 DEF NewStatus
  <2> QED BY <2>2 DEF Init, StatusSound
<1> QED BY <1>1, StatusNext, TypeInvariance, PTL DEF Spec

-------------------------------------------------------------------------------
(* The listings: they follow the flags, except for what is torn. *)

Calls(o) == job[o] # Nil /\ job[o].current /\ job[o].call # "none"

(* The strengthening for listings: what a failed call left is torn, or a later
   call of another reconcile with the same copy has put it right.              *)
FailedTorn ==
  \A p \in Positions \ tornOffers, o \in Operators :
    Calls(o) /\ job[o].call = "failed" /\ job[o].pos = p => Calling(p) # {}

OffersInv == FailedTorn /\ OffersAccounted

LEMMA OffersInit == Init => OffersInv
  BY SentinelAssumption
     DEF Init, OffersInv, FailedTorn, Calls, OffersAccounted, Calling, NewStatus

(* What a step may do without touching the listings. *)
SameCalls ==
  /\ \A o \in Operators : Calls(o)' <=> Calls(o)
  /\ \A o \in Operators : Calls(o) =>
       /\ job'[o].pos = job[o].pos /\ job'[o].call = job[o].call
       /\ job'[o].available = job[o].available

SameFlags ==
  \A p \in Positions :
    /\ api'[p] = Gone <=> api[p] = Gone
    /\ api[p] # Gone => api'[p].status.available = api[p].status.available

LEMMA OffersKept ==
  ASSUME TypeInv, OffersInv, SameCalls, SameFlags, UNCHANGED <<offers, tornOffers>>
  PROVE  OffersInv'
<1>1. \A p \in Positions : Calling(p)' = Calling(p)
  BY DEF Calling, SameCalls, Calls
<1>2. FailedTorn'
  BY <1>1 DEF OffersInv, FailedTorn, SameCalls
<1>3. OffersAccounted'
  <2> SUFFICES ASSUME NEW p \in Positions, p \notin tornOffers
               PROVE  /\ \A o \in Calling(p)' : p \in offers' <=> job'[o].available
                      /\ Calling(p)' = {} =>
                           (p \in offers' <=> api'[p] # Gone /\ api'[p].status.available)
    BY DEF OffersAccounted
  <2>1. \A o \in Calling(p) : job'[o].available = job[o].available
    BY DEF Calling, SameCalls, Calls
  <2> QED BY <1>1, <2>1 DEF OffersInv, OffersAccounted, SameFlags
<1> QED BY <1>2, <1>3 DEF OffersInv

(* The write of p by someone: every other reconcile of p loses its copy. *)
LEMMA OffersReplaced ==
  ASSUME TypeInv, OffersInv, NEW p \in Positions,
         \A x \in Working(p) : job'[x] = Nil \/ job'[x] = Replaced(p)[x],
         \A x \in Operators : x \notin Working(p) => job'[x] = job[x],
         \A q \in Positions \ {p} : api'[q] = api[q],
         offers' = offers, tornOffers \subseteq tornOffers',
         p \notin tornOffers' => (p \in offers <=> api'[p] # Gone /\ api'[p].status.available)
  PROVE  OffersInv'
<1> USE SentinelAssumption
<1>1. \A x \in Working(p) : ~Calls(x)'
  <2> SUFFICES ASSUME NEW x \in Working(p), job'[x] # Nil PROVE ~job'[x].current
    BY DEF Calls
  <2>1. job[x] \in Job /\ job'[x] = [job[x] EXCEPT !.current = FALSE]
    BY DEF Working, Replaced, TypeInv, TypeOK
  <2> QED BY <2>1 DEF Job
<1>2. ASSUME NEW x \in Operators, Calls(x)'
      PROVE  /\ job'[x] = job[x] /\ Calls(x)
             /\ job[x].pos \in Positions \ {p}
  <2>1. x \notin Working(p) /\ job'[x] = job[x]
    BY <1>1, <1>2
  <2>2. job[x] # Nil /\ job[x] \in Job
    BY <1>2, <2>1 DEF Calls, TypeInv, TypeOK
  <2> QED BY <1>2, <2>1, <2>2 DEF Calls, Working, Job
<1>3. ASSUME NEW q \in Positions \ {p}
      PROVE  Calling(q)' = Calling(q) /\ \A x \in Calling(q) : job'[x] = job[x]
  <2>1. \A x \in Calling(q)' : x \in Calling(q)
    BY <1>2 DEF Calling, Calls
  <2>2. \A x \in Calling(q) : x \notin Working(p)
    BY DEF Calling, Working
  <2>3. \A x \in Calling(q) : x \in Operators /\ job'[x] = job[x]
    BY <2>2 DEF Calling
  <2>4. \A x \in Calling(q) : x \in Calling(q)'
    BY <2>3 DEF Calling
  <2> QED BY <2>1, <2>3, <2>4 DEF Calling
<1>4. Calling(p)' = {}
  <2> SUFFICES ASSUME NEW x \in Operators, Calls(x)' PROVE job'[x].pos # p
    BY DEF Calling, Calls
  <2> QED BY <1>2
<1>5. FailedTorn'
  <2> SUFFICES ASSUME NEW q \in Positions, q \notin tornOffers', NEW x \in Operators,
                      Calls(x)', job'[x].call = "failed", job'[x].pos = q
               PROVE  Calling(q)' # {}
    BY DEF FailedTorn
  <2>1. job'[x] = job[x] /\ Calls(x) /\ q \in Positions \ {p}
    BY <1>2
  <2> QED BY <1>3, <2>1 DEF OffersInv, FailedTorn
<1>6. OffersAccounted'
  <2> SUFFICES ASSUME NEW q \in Positions, q \notin tornOffers'
               PROVE  /\ \A x \in Calling(q)' : q \in offers' <=> job'[x].available
                      /\ Calling(q)' = {} =>
                           (q \in offers' <=> api'[q] # Gone /\ api'[q].status.available)
    BY DEF OffersAccounted
  <2>1. CASE q = p
    BY <1>4, <2>1
  <2>2. CASE q # p
    <3>1. q \notin tornOffers /\ api'[q] = api[q]
      BY <2>2
    <3> QED BY <1>3, <2>2, <3>1 DEF OffersInv, OffersAccounted
  <2> QED BY <2>1, <2>2
<1> QED BY <1>5, <1>6 DEF OffersInv

LEMMA OffersNext == TypeInv /\ OffersInv /\ [Next]_vars => OffersInv'
<1> SUFFICES ASSUME TypeInv, TypeOK, StepsInOrder, OffersInv, [Next]_vars PROVE OffersInv'
  BY DEF TypeInv
<1> USE SentinelAssumption
<1>1. ASSUME NEW o \in Operators, NEW p \in Positions, Observe(o, p) PROVE OffersInv'
  <2>1. /\ job[o] = Nil /\ job'[o].call = "none"
        /\ \A x \in Operators \ {o} : job'[x] = job[x]
    BY <1>1, ObservedJob
  <2>2. SameCalls
    BY <2>1 DEF SameCalls, Calls
  <2>3. SameFlags /\ UNCHANGED <<offers, tornOffers>>
    BY <1>1 DEF Observe, SameFlags, store, history
  <2> QED BY <2>2, <2>3, OffersKept
<1>2. ASSUME NEW o \in Operators, KeepOffer(o) \/ NoAction(o) PROVE OffersInv'
  <2>1. /\ job[o] \in Job /\ job'[o] \in Job
        /\ job'[o].pos = job[o].pos /\ job'[o].current = job[o].current
        /\ job'[o].available = job[o].available
        /\ \A x \in Operators \ {o} : job'[x] = job[x]
    BY <1>2, MarketJob DEF HandleMarketplace
  <2>2. job'[o].call = job[o].call
    BY <1>2, <2>1 DEF KeepOffer, NoAction, TypeOK, Job
  <2>3. SameCalls
    BY <2>1, <2>2 DEF SameCalls, Calls
  <2>4. SameFlags /\ UNCHANGED <<offers, tornOffers>>
    BY <1>2 DEF KeepOffer, NoAction, SameFlags, store, history
  <2> QED BY <2>3, <2>4, OffersKept
<1>3. ASSUME NEW o \in Operators, Pause(o) \/ Resume(o) PROVE OffersInv'
  <2>1. /\ job[o] \in Job /\ job'[o] \in Job
        /\ job'[o].pos = job[o].pos /\ job'[o].current = job[o].current
        /\ job'[o].available = job[o].available /\ job'[o].call = job[o].call
        /\ \A x \in Operators \ {o} : job'[x] = job[x]
    BY <1>3, ActionJob
  <2>2. SameCalls
    BY <2>1 DEF SameCalls, Calls
  <2>3. SameFlags /\ UNCHANGED <<offers, tornOffers>>
    BY <1>3 DEF Pause, Resume, UpdateReplicas, SameFlags
  <2> QED BY <2>2, <2>3, OffersKept
<1>4. ASSUME NEW o \in Operators, FlipOffer(o) PROVE OffersInv'
  <2> DEFINE j == job[o]
  <2>1. /\ j \in Job /\ j.available # j.status.available /\ api' = api
        /\ offers' = IF j.available THEN offers \cup {j.pos} ELSE offers \ {j.pos}
        /\ tornOffers' = IF j.current THEN tornOffers \ {j.pos} ELSE tornOffers \cup {j.pos}
    BY <1>4, AtJob DEF FlipOffer, Listed
  <2>2. /\ job'[o] \in Job /\ job'[o].pos = j.pos /\ job'[o].current = j.current
        /\ job'[o].available = j.available
        /\ \A x \in Operators \ {o} : job'[x] = job[x]
    BY <1>4, MarketJob DEF HandleMarketplace
  <2>3. job'[o].call = "done"
    BY <1>4, <2>1 DEF FlipOffer, TypeOK, Job
  <2>4. \A p \in Positions \ {j.pos} :
          Calling(p)' = Calling(p) /\ \A x \in Calling(p) : job'[x] = job[x]
    BY <2>1, <2>2 DEF Calling
  <2>5. \A p \in Positions : p = j.pos /\ j.current => o \in Calling(p)'
    BY <2>2, <2>3 DEF Calling
  <2>6. ASSUME NEW x \in Operators, x \in Calling(j.pos), j.current
        PROVE  job[x].available = j.available
    <3>1. /\ job[x].current /\ job[x].pos = j.pos /\ job[x] \in Job
          /\ InOrder(job[x]) /\ job[x].call = "done"
      BY <2>1, <2>6 DEF Calling, StepsInOrder, TypeOK
    <3>2. /\ job[x].status.available = api[j.pos].status.available
          /\ j.status.available = api[j.pos].status.available
      BY <2>1, <2>6, <3>1 DEF TypeInv, CachesSound, CopySound
    <3>3. job[x].available # job[x].status.available
      BY <3>1 DEF InOrder, Job
    <3>4. /\ job[x].available \in BOOLEAN /\ j.available \in BOOLEAN
          /\ job[x].status \in Status /\ j.status \in Status
      BY <2>1, <3>1 DEF Job
    <3>5. job[x].status.available \in BOOLEAN
      BY <3>4 DEF Status
    <3>6. job[x].status.available = j.status.available
      BY <3>2
    <3>7. j.available # j.status.available
      BY <2>1
    <3> HIDE DEF j
    <3> QED BY <3>3, <3>4, <3>5, <3>6, <3>7
  <2>7. FailedTorn'
    <3> SUFFICES ASSUME NEW p \in Positions, p \notin tornOffers', NEW x \in Operators,
                        Calls(x)', job'[x].call = "failed", job'[x].pos = p
                 PROVE  Calling(p)' # {}
      BY DEF FailedTorn
    <3>1. x # o /\ job'[x] = job[x] /\ Calls(x)
      BY <2>2, <2>3 DEF Calls
    <3>2. CASE p = j.pos
      BY <2>1, <2>5, <3>2
    <3>3. CASE p # j.pos
      BY <2>1, <2>4, <3>1, <3>3 DEF OffersInv, FailedTorn
    <3> QED BY <3>2, <3>3
  <2>8. OffersAccounted'
    <3> SUFFICES ASSUME NEW p \in Positions, p \notin tornOffers'
                 PROVE  /\ \A x \in Calling(p)' : p \in offers' <=> job'[x].available
                        /\ Calling(p)' = {} =>
                             (p \in offers' <=> api'[p] # Gone /\ api'[p].status.available)
      BY DEF OffersAccounted
    <3>1. CASE p = j.pos
      <4>1. j.current /\ (p \in offers' <=> j.available)
        BY <2>1, <3>1
      <4>2. ASSUME NEW x \in Calling(p)' PROVE job'[x].available = j.available
        <5>1. CASE x = o
          BY <2>2, <5>1
        <5>2. CASE x # o
          <6>1. x \in Operators /\ x \in Calling(p) /\ job'[x] = job[x]
            BY <2>2, <4>2, <5>2 DEF Calling
          <6> QED BY <2>6, <3>1, <4>1, <6>1
        <5> QED BY <5>1, <5>2
      <4>3. Calling(p)' # {}
        BY <2>5, <3>1, <4>1
      <4> QED BY <4>1, <4>2, <4>3
    <3>2. CASE p # j.pos
      <4>1. p \notin tornOffers /\ (p \in offers' <=> p \in offers)
        BY <2>1, <3>2
      <4> QED BY <2>1, <2>4, <3>2, <4>1 DEF OffersInv, OffersAccounted
    <3> QED BY <3>1, <3>2
  <2> QED BY <2>7, <2>8 DEF OffersInv
<1>5. ASSUME NEW o \in Operators, MarketplaceError(o) PROVE OffersInv'
  <2> DEFINE j == job[o]
  <2>1. /\ j \in Job /\ api' = api /\ tornOffers' = tornOffers \cup {j.pos}
        /\ \A p \in Positions \ {j.pos} : p \in offers' <=> p \in offers
    BY <1>5, AtJob DEF MarketplaceError, Listed
  <2>2. /\ job'[o] \in Job /\ job'[o].pos = j.pos
        /\ \A x \in Operators \ {o} : job'[x] = job[x]
    BY <1>5, MarketJob DEF HandleMarketplace
  <2>3. \A p \in Positions \ {j.pos} :
          Calling(p)' = Calling(p) /\ \A x \in Calling(p) : job'[x] = job[x]
    BY <2>1, <2>2 DEF Calling
  <2>4. FailedTorn'
    <3> SUFFICES ASSUME NEW p \in Positions, p \notin tornOffers', NEW x \in Operators,
                        Calls(x)', job'[x].call = "failed", job'[x].pos = p
                 PROVE  Calling(p)' # {}
      BY DEF FailedTorn
    <3>1. x # o /\ job'[x] = job[x] /\ Calls(x) /\ p # j.pos /\ p \notin tornOffers
      BY <2>1, <2>2 DEF Calls
    <3> QED BY <2>3, <3>1 DEF OffersInv, FailedTorn
  <2>5. OffersAccounted'
    <3> SUFFICES ASSUME NEW p \in Positions, p \notin tornOffers'
                 PROVE  /\ \A x \in Calling(p)' : p \in offers' <=> job'[x].available
                        /\ Calling(p)' = {} =>
                             (p \in offers' <=> api'[p] # Gone /\ api'[p].status.available)
      BY DEF OffersAccounted
    <3>1. p # j.pos /\ p \notin tornOffers /\ (p \in offers' <=> p \in offers)
      BY <2>1
    <3> QED BY <2>1, <2>3, <3>1 DEF OffersInv, OffersAccounted
  <2> QED BY <2>4, <2>5 DEF OffersInv
<1>6. ASSUME NEW o \in Operators, SaveStatus(o) PROVE OffersInv'
  <2> DEFINE p == job[o].pos
             others == Working(p) \ {o}
  <2>1. job[o] \in Job /\ p \in Positions /\ job[o] # Nil /\ o \in Working(p)
    BY <1>6, AtJob DEF SaveStatus, StatusAccepted, Job, Working
  <2>2. /\ api' = [api EXCEPT ![p] = [api[p] EXCEPT !.status = WrittenStatus(job[o])]]
        /\ job' = [Replaced(p) EXCEPT ![o] = Nil]
        /\ offers' = offers /\ tornOffers' = tornOffers \cup LostCalls(others)
    BY <1>6 DEF SaveStatus, StatusAccepted
  <2>3. /\ job'[o] = Nil /\ \A x \in Operators \ {o} : job'[x] = Replaced(p)[x]
    BY <2>2 DEF Replaced
  <2>4. \A x \in Operators : x \notin Working(p) => job'[x] = job[x]
    BY <2>1, <2>3 DEF Replaced
  <2>5. p \notin tornOffers' => (p \in offers <=> api'[p] # Gone /\ api'[p].status.available)
    <3> SUFFICES ASSUME p \notin tornOffers'
                 PROVE  p \in offers <=> api'[p] # Gone /\ api'[p].status.available
      OBVIOUS
    <3>1. /\ api[p] \in Object /\ job[o].status.available = api[p].status.available
          /\ InOrder(job[o]) /\ job[o].at = "status"
      BY <1>6, <2>1 DEF SaveStatus, StatusAccepted, At, TypeInv, TypeOK, CachesSound, CopySound, StepsInOrder
    <3>2. api'[p] # Gone /\ api'[p].status.available = job[o].available
      <4>1. WrittenStatus(job[o]) \in Status /\ WrittenStatus(job[o]).available = job[o].available
        <5>1. Money(job[o].spot) \in Int
          BY <2>1 DEF Money, Job
        <5> QED BY <2>1, <5>1 DEF WrittenStatus, Job, Status
      <4>2. api'[p] \in Object /\ api'[p].status = WrittenStatus(job[o])
        BY <2>1, <2>2, <3>1, <4>1 DEF TypeOK, Object
      <4> QED BY <4>1, <4>2
    <3>3. \A x \in others : ~Calls(x) /\ x \notin Calling(p)
      BY <2>1, <2>2 DEF LostCalls, Working, Calls, Calling
    <3>4. CASE job[o].call = "none"
      <4>1. job[o].available = api[p].status.available
        BY <3>1, <3>4 DEF InOrder
      <4>2. Calling(p) = {}
        BY <3>3, <3>4 DEF Calling, Working
      <4>3. p \in offers <=> api[p] # Gone /\ api[p].status.available
        BY <2>1, <2>2, <4>2 DEF OffersInv, OffersAccounted
      <4> QED BY <3>1, <3>2, <4>1, <4>3
    <3>5. CASE job[o].call = "done"
      <4>1. o \in Calling(p)
        BY <1>6, <2>1, <3>5 DEF SaveStatus, StatusAccepted, Calling
      <4>2. p \in offers <=> job[o].available
        BY <2>1, <2>2, <4>1 DEF OffersInv, OffersAccounted
      <4> QED BY <3>2, <4>2
    <3>6. CASE job[o].call = "failed"
      <4>1. Calling(p) # {}
        BY <1>6, <2>1, <2>2, <3>6
           DEF SaveStatus, StatusAccepted, OffersInv, FailedTorn, Calls
      <4>2. Calling(p) \subseteq others
        BY <3>6 DEF Calling, Working
      <4> QED BY <3>3, <4>1, <4>2
    <3> QED BY <2>1, <3>4, <3>5, <3>6 DEF Job
  <2>6. \A q \in Positions \ {p} : api'[q] = api[q]
    BY <2>2 DEF TypeOK
  <2>7. \A x \in Working(p) : job'[x] = Nil \/ job'[x] = Replaced(p)[x]
    BY <2>3 DEF Working
  <2>8. offers' = offers /\ tornOffers \subseteq tornOffers'
    BY <2>2
  <2> HIDE DEF p, others
  <2> QED BY <2>1, <2>4, <2>5, <2>6, <2>7, <2>8, OffersReplaced
<1>7. ASSUME NEW o \in Operators, LoseStatus(o) \/ Restart(o) PROVE OffersInv'
  <2>1. /\ job' = [job EXCEPT ![o] = Nil] /\ api' = api /\ offers' = offers
        /\ tornOffers \subseteq tornOffers'
        /\ job[o] # Nil => LostCalls({o}) \subseteq tornOffers'
    BY <1>7 DEF LoseStatus, Restart, store
  <2>2. job'[o] = Nil /\ \A x \in Operators \ {o} : job'[x] = job[x]
    BY <2>1 DEF TypeOK
  <2>3. ASSUME NEW p \in Positions, p \notin tornOffers'
        PROVE  Calling(p)' = Calling(p) /\ \A x \in Calling(p) : job'[x] = job[x]
    <3>1. o \notin Calling(p)
      BY <2>1, <2>3 DEF Calling, LostCalls
    <3> QED BY <2>2, <3>1 DEF Calling
  <2>4. FailedTorn'
    <3> SUFFICES ASSUME NEW p \in Positions, p \notin tornOffers', NEW x \in Operators,
                        Calls(x)', job'[x].call = "failed", job'[x].pos = p
                 PROVE  Calling(p)' # {}
      BY DEF FailedTorn
    <3>1. x # o /\ job'[x] = job[x] /\ Calls(x) /\ p \notin tornOffers
      BY <2>1, <2>2 DEF Calls
    <3> QED BY <2>3, <3>1 DEF OffersInv, FailedTorn
  <2>5. OffersAccounted'
    BY <2>1, <2>3 DEF OffersInv, OffersAccounted
  <2> QED BY <2>4, <2>5 DEF OffersInv
<1>8. ASSUME NEW p \in Positions, NEW y, NEW broken, WritePosition(p, y, broken),
             tornOffers \cup LostCalls(Working(p)) \subseteq tornOffers',
             Calling(p) = {} /\ p \notin tornOffers'
               => (p \in offers <=> y # Gone /\ y.status.available)
      PROVE  OffersInv'
  <2>1. job' = Replaced(p) /\ offers' = offers /\ api' = [api EXCEPT ![p] = y]
    BY <1>8 DEF WritePosition
  <2>2. p \notin tornOffers' => Calling(p) = {}
    BY <1>8 DEF LostCalls, Calling, Working
  <2>3. api'[p] = y /\ \A q \in Positions \ {p} : api'[q] = api[q]
    BY <2>1 DEF TypeOK
  <2>4. \A x \in Operators : x \notin Working(p) => job'[x] = job[x]
    BY <2>1 DEF Replaced
  <2> QED BY <1>8, <2>1, <2>2, <2>3, <2>4, OffersReplaced
<1>9. ASSUME NEW p \in Positions, NEW s \in Specs[p], EditPosition(p, s) PROVE OffersInv'
  <2>1. api[p] \in Object
    BY <1>9 DEF EditPosition, TypeOK
  <2>2. s \in PositionSpec
    BY ReconcilerAssumption
  <2>3. [api[p] EXCEPT !.spec = s] \in Object /\ [api[p] EXCEPT !.spec = s].status = api[p].status
    BY <2>1, <2>2 DEF Object
  <2>4. Calling(p) = {} /\ p \notin tornOffers => (p \in offers <=> api[p].status.available)
    BY <2>1 DEF OffersInv, OffersAccounted
  <2> QED BY <1>8, <1>9, <2>3, <2>4 DEF EditPosition
<1>10. ASSUME NEW p \in Positions, NEW s \in Specs[p], CreatePosition(p, s) PROVE OffersInv'
  <2>1. s \in PositionSpec
    BY ReconcilerAssumption
  <2>2. /\ [spec |-> s, status |-> NewStatus] \in Object
        /\ ~[spec |-> s, status |-> NewStatus].status.available
    BY <2>1 DEF Object, NewStatus, Status
  <2>3. Calling(p) = {} /\ p \notin tornOffers => p \notin offers
    BY <1>10 DEF OffersInv, OffersAccounted, CreatePosition
  <2> QED BY <1>8, <1>10, <2>2, <2>3 DEF CreatePosition
<1>11. ASSUME NEW p \in Positions, DeletePosition(p) PROVE OffersInv'
  <2>1. /\ Calling(p) = {} /\ p \notin tornOffers => (p \in offers <=> api[p].status.available)
        /\ api[p].status.available => p \in tornOffers'
    BY <1>11 DEF OffersInv, OffersAccounted, DeletePosition
  <2> QED BY <1>8, <1>11, <2>1 DEF DeletePosition
<1>12. ASSUME Tick PROVE OffersInv'
  <2>1. \A s \in Status : Older(s).available = s.available /\ Older(s) \in Status
    BY DEF Older, Status
  <2>2. \A y \in Object : OlderObject(y) \in Object
                          /\ OlderObject(y).status.available = y.status.available
    BY <2>1 DEF OlderObject, Object
  <2>3. SameFlags
    BY <1>12, <2>2 DEF SameFlags, Tick, TypeOK, OlderObject
  <2>4. SameCalls
    <3> SUFFICES ASSUME NEW o \in Operators
                 PROVE  /\ job'[o] = Nil <=> job[o] = Nil
                        /\ job[o] # Nil => /\ job'[o].pos = job[o].pos
                                          /\ job'[o].current = job[o].current
                                          /\ job'[o].call = job[o].call
                                          /\ job'[o].available = job[o].available
      BY DEF SameCalls, Calls
    <3>1. CASE job[o] = Nil
      BY <1>12, <3>1 DEF Tick
    <3>2. CASE job[o] \in Job
      <4>1. job'[o] = [job[o] EXCEPT !.status = Older(job[o].status)]
        BY <1>12, <3>2, SentinelAssumption DEF Tick
      <4>2. job[o].status \in Status
        BY <3>2 DEF Job
      <4>3. job'[o] \in Job
        BY <3>2, <4>1, <4>2, <2>1 DEF Job
      <4> QED BY <3>2, <4>1, <4>3, SentinelAssumption DEF Job
    <3> QED BY <3>1, <3>2 DEF TypeOK
  <2> QED BY <1>12, <2>3, <2>4, OffersKept DEF Tick, history
<1>13. ASSUME UNCHANGED <<api, job, offers, tornOffers>> PROVE OffersInv'
  BY <1>13, OffersKept DEF SameCalls, SameFlags, Calls
<1> QED BY <1>1, <1>2, <1>3, <1>4, <1>5, <1>6, <1>7, <1>9, <1>10, <1>11, <1>12, <1>13
        DEF Next, Operator, Environment, HandleMarketplace, ApplyOptionalAction,
            UpdateStatus, SyncPosition, SyncDeployment, ScaleWorkload, TouchWorkload,
            Settle, vars, store, history

(* Listings and flags agree, for any number of operators, up to torn ones. *)
THEOREM OffersCorrect == Spec => []OffersAccounted
<1>1. Spec => []OffersInv
  BY OffersInit, OffersNext, TypeInvariance, PTL DEF Spec
<1> QED BY <1>1, PTL DEF OffersInv
===============================================================================
