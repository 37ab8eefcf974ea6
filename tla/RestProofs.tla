------------------------------ MODULE RestProofs -------------------------------
(* The idle window between several operators, and what Reconciler does once nothing
   disturbs it and it has done its work, for every instance: everything is as the
   specs ask for, and stays so.  That it gets there is a liveness property and left
   to the model checker.                                                       *)
EXTENDS WorkloadProofs

(* The strengthening: a reconcile that falls back to the stored price rounds it
   once more, which must not change what is decided.                           *)
Rounded(v) == v # Nil => Money(v) = v

RoundedSpots ==
  /\ \A p \in Positions : api[p] # Gone => Rounded(api[p].status.spot)
  /\ \A o \in Operators, p \in Positions :
       posCache[o][p] # Gone => Rounded(posCache[o][p].status.spot)

LEMMA MoneyRounded ==
  ASSUME NEW mills \in Int
  PROVE  Money(mills) \in Int /\ Money(Money(mills)) = Money(mills)
<1>1. \A n \in Int : (10 * n + 5) \div 10 = n
  OBVIOUS
<1>2. (mills + 5) \div 10 \in Int
  OBVIOUS
<1> DEFINE n == (mills + 5) \div 10
<1>3. n \in Int /\ (10 * n + 5) \div 10 = n
  BY <1>1, <1>2
<1> HIDE DEF n
<1>4. 10 * n \in Int /\ 10 * ((10 * n + 5) \div 10) = 10 * n
  BY <1>3
<1> QED BY <1>4 DEF n, Money

LEMMA OlderStatus ==
  ASSUME NEW s \in Status
  PROVE  /\ Older(s) \in Status /\ Older(s).spot = s.spot /\ Older(s).available = s.available
         /\ Older(s).paused = s.paused /\ Older(s).orig = s.orig
         /\ s.idle # Nil => Older(s).idle # Nil /\ Older(s).idle >= s.idle
  BY ReconcilerAssumption, IdleRuleAssumption DEF Older, Status

LEMMA OlderObjects ==
  ASSUME NEW x \in Object \cup {Gone}
  PROVE  /\ OlderObject(x) = Gone <=> x = Gone
         /\ x # Gone => /\ x.status \in Status /\ x.spec \in PositionSpec
                        /\ OlderObject(x).spec = x.spec
                        /\ OlderObject(x).status = Older(x.status)
<1>1. CASE x = Gone
  BY <1>1 DEF OlderObject
<1>2. CASE x # Gone
  <2>1. x \in Object
    BY <1>2
  <2>2. OlderObject(x) \in Object
    BY <1>2, <2>1, OlderStatus DEF OlderObject, Object
  <2>3. OlderObject(x) # Gone
    BY <2>2, SentinelAssumption
  <2> QED BY <1>2, <2>1, <2>3 DEF OlderObject, Object
<1> QED BY <1>1, <1>2

(* What SaveStatus stores, and what it leaves alone. *)
LEMMA SavedObject ==
  ASSUME TypeInv, NEW o \in Operators, SaveStatus(o)
  PROVE  /\ job[o] # Nil /\ job[o] \in Job /\ job[o].pos \in Positions /\ job[o].current
         /\ api[job[o].pos] \in Object /\ api[job[o].pos] # Gone
         /\ api'[job[o].pos] # Gone
         /\ api'[job[o].pos].spec = job[o].spec
         /\ api'[job[o].pos].status = WrittenStatus(job[o])
         /\ \A q \in Positions \ {job[o].pos} : api'[q] = api[q]
<1>1. job[o] # Nil /\ job[o] \in Job /\ job[o].pos \in Positions /\ job[o].current
  BY AtJob DEF TypeInv, SaveStatus, StatusAccepted, At, Job
<1> DEFINE p == job[o].pos
<1>2. api[p] \in Object /\ api[p] # Gone /\ api[p].spec = job[o].spec
  BY <1>1 DEF TypeInv, TypeOK, CachesSound, CopySound
<1>3. api' = [api EXCEPT ![p] = [api[p] EXCEPT !.status = WrittenStatus(job[o])]]
  BY DEF SaveStatus
<1>4. api'[p] = [api[p] EXCEPT !.status = WrittenStatus(job[o])]
  BY <1>1, <1>3 DEF TypeInv, TypeOK
<1>5. api'[p].spec = api[p].spec /\ api'[p].status = WrittenStatus(job[o])
  BY <1>2, <1>4 DEF Object
<1>6. api'[p] # Gone
  <2>1. WrittenStatus(job[o]) \in Status
    BY <1>1, MoneyRounded DEF WrittenStatus, Job, Status
  <2>2. api'[p] \in Object
    BY <1>2, <1>4, <2>1 DEF Object
  <2> QED BY <2>2, SentinelAssumption
<1> QED BY <1>1, <1>2, <1>3, <1>5, <1>6 DEF TypeInv, TypeOK

LEMMA RoundedInit == Init => RoundedSpots
<1> SUFFICES ASSUME Init PROVE RoundedSpots
  OBVIOUS
<1>1. \A p \in Positions : api[p].status.spot = Nil
  BY DEF Init, NewStatus
<1> QED BY <1>1 DEF Init, RoundedSpots, Rounded

LEMMA RoundedNext == TypeInv /\ RoundedSpots /\ [Next]_vars => RoundedSpots'
<1> SUFFICES ASSUME TypeInv, TypeOK, RoundedSpots, [Next]_vars PROVE RoundedSpots'
  BY DEF TypeInv
<1>1. ASSUME UNCHANGED <<api, posCache>> PROVE RoundedSpots'
  BY <1>1 DEF RoundedSpots
<1>2. ASSUME NEW o \in Operators, SaveStatus(o) PROVE RoundedSpots'
  <2>1. Rounded(WrittenStatus(job[o]).spot)
    <3>1. job[o].status \in Status /\ job[o].spot \in Int
      BY <1>2, SavedObject DEF Job
    <3>2. WrittenStatus(job[o]).spot = Money(job[o].spot)
      BY <3>1 DEF WrittenStatus, Status
    <3> QED BY <3>1, <3>2, MoneyRounded DEF Rounded
  <2>2. posCache' = posCache
    BY <1>2 DEF SaveStatus
  <2> QED BY <1>2, <2>1, <2>2, SavedObject DEF RoundedSpots
<1>3. ASSUME api' = api,
             \A x \in Operators, q \in Positions :
               posCache'[x][q] = posCache[x][q] \/ posCache'[x][q] = api[q]
      PROVE  RoundedSpots'
  BY <1>3 DEF RoundedSpots
<1>4. ASSUME NEW o \in Operators, NEW p \in Positions, SyncPosition(o, p) PROVE RoundedSpots'
  BY <1>3, <1>4 DEF SyncPosition, TypeOK, store
<1>5. ASSUME NEW o \in Operators, Restart(o) PROVE RoundedSpots'
  <2>1. posCache' = [posCache EXCEPT ![o] = api] /\ api' = api
    BY <1>5 DEF Restart, store
  <2> QED BY <1>3, <2>1 DEF TypeOK
<1>6. ASSUME NEW p \in Positions, NEW x, NEW broken, WritePosition(p, x, broken),
             x # Gone => Rounded(x.status.spot)
      PROVE  RoundedSpots'
  <2>1. posCache' = posCache /\ \A q \in Positions : api'[q] = IF q = p THEN x ELSE api[q]
    BY <1>6 DEF WritePosition, TypeOK
  <2> QED BY <1>6, <2>1 DEF RoundedSpots
<1>7. ASSUME NEW p \in Positions, NEW s \in Specs[p], EditPosition(p, s) PROVE RoundedSpots'
  <2>1. api[p] # Gone /\ api[p] \in Object
    BY <1>7 DEF EditPosition, TypeOK
  <2>2. [api[p] EXCEPT !.spec = s].status = api[p].status
    BY <2>1 DEF Object
  <2> QED BY <1>6, <1>7, <2>1, <2>2 DEF EditPosition, RoundedSpots
<1>8. ASSUME NEW p \in Positions, NEW s \in Specs[p], CreatePosition(p, s) PROVE RoundedSpots'
  BY <1>6, <1>8 DEF CreatePosition, NewStatus, Rounded
<1>9. ASSUME NEW p \in Positions, DeletePosition(p) PROVE RoundedSpots'
  BY <1>6, <1>9 DEF DeletePosition
<1>10. ASSUME Tick PROVE RoundedSpots'
  <2>1. ASSUME NEW x \in Object \cup {Gone}, x # Gone => Rounded(x.status.spot),
               OlderObject(x) # Gone
        PROVE  Rounded(OlderObject(x).status.spot)
    BY <2>1, OlderObjects, OlderStatus
  <2>2. \A p \in Positions : api'[p] = OlderObject(api[p]) /\ api[p] \in Object \cup {Gone}
    BY <1>10 DEF Tick, TypeOK
  <2>3. \A o \in Operators, p \in Positions :
          posCache'[o][p] = OlderObject(posCache[o][p]) /\ posCache[o][p] \in Object \cup {Gone}
    BY <1>10 DEF Tick, TypeOK
  <2>4. \A x \in Object \cup {Gone} : x = Gone => OlderObject(x) = Gone
    BY OlderObjects
  <2> QED BY <2>1, <2>2, <2>3, <2>4 DEF RoundedSpots
<1>11. ASSUME NEW o \in Operators,
              \/ \E p \in Positions : Observe(o, p)
              \/ HandleMarketplace(o) \/ ApplyOptionalAction(o) \/ LoseStatus(o)
              \/ \E d \in Deployments : SyncDeployment(o, d)
       PROVE  UNCHANGED <<api, posCache>>
  BY <1>11 DEF Observe, HandleMarketplace, KeepOffer, FlipOffer, MarketplaceError,
               ApplyOptionalAction, NoAction, Pause, Resume, UpdateReplicas, LoseStatus,
               SyncDeployment, store, posView
<1>12. ASSUME \/ \E d \in Deployments : \/ TouchWorkload(d)
                                        \/ \E n \in ReplicaCounts : ScaleWorkload(d, n)
              \/ Settle \/ UNCHANGED vars
       PROVE  UNCHANGED <<api, posCache>>
  BY <1>12 DEF ScaleWorkload, TouchWorkload, Settle, vars, store, posView
<1>13. ASSUME NEW o \in Operators, Operator(o) PROVE RoundedSpots'
  BY <1>1, <1>2, <1>4, <1>5, <1>11, <1>13 DEF Operator, UpdateStatus
<1> QED BY <1>1, <1>7, <1>8, <1>9, <1>10, <1>12, <1>13 DEF Next, Environment

LEMMA RoundedInvariance == Spec => []RoundedSpots
  BY RoundedInit, RoundedNext, TypeInvariance, PTL DEF Spec

-------------------------------------------------------------------------------
(* The idle window.  The strengthening: a reconcile whose copy is current carries
   the stored start of the window, or has just started or cleared one, and raises
   the flag only over the stored one.                                          *)
WindowSound(j, stored) ==
  /\ j.status.idle # Nil /\ stored.idle # Nil => j.status.idle = stored.idle
  /\ j.available /\ ~stored.available =>
       /\ stored.idle # Nil /\ j.status.idle = stored.idle
       /\ stored.idle >= Window(j.spec)

WindowsSound ==
  \A o \in Operators :
    job[o] # Nil /\ job[o].current => WindowSound(job[o], api[job[o].pos].status)

LEMMA WindowType == ASSUME NEW spec \in PositionSpec PROVE Window(spec) \in Nat
  BY IdleRuleAssumption DEF Window, OrDefault, PositionSpec

(* A reading never makes a window older, and flags nothing on the spot. *)
LEMMA EvaluateIdleWindow ==
  ASSUME NEW spec \in PositionSpec, NEW util, NEW s \in Status
  PROVE  LET seen == EvaluateIdle(spec, s, util) IN
         /\ seen.idle # Nil /\ s.idle # Nil => seen.idle = s.idle
         /\ seen.available /\ ~s.available =>
              s.idle # Nil /\ seen.idle = s.idle /\ s.idle >= Window(spec)
<1>1. Window(spec) \in Nat /\ Window(spec) > 0
  BY IdleRuleAssumption DEF Window, OrDefault, PositionSpec
<1>2. s.idle \in Nat \cup {Nil} /\ Nil \notin Int
  BY IdleRuleAssumption DEF Status
<1> DEFINE seen == EvaluateIdle(spec, s, util)
<1>3. CASE Low(spec, util)
  <2>1. CASE s.idle = Nil
    <3>1. ~(0 >= Window(spec))
      BY <1>1
    <3>2. seen.available = (0 >= Window(spec))
      BY <1>3, <2>1 DEF EvaluateIdle
    <3> QED BY <2>1, <3>1, <3>2
  <2>2. CASE s.idle # Nil
    <3>1. seen.idle = s.idle /\ seen.available = (s.idle >= Window(spec))
      BY <1>3, <2>2 DEF EvaluateIdle
    <3> QED BY <2>2, <3>1
  <2> QED BY <2>1, <2>2
<1>4. CASE ~Low(spec, util)
  <2>1. \/ seen.idle = Nil /\ seen.available = FALSE
        \/ seen.idle = s.idle /\ seen.available = s.available
    BY <1>4 DEF EvaluateIdle
  <2> QED BY <2>1
<1> QED BY <1>3, <1>4

(* Both ends of a window get older together. *)
LEMMA WindowOlder ==
  ASSUME NEW j \in Job, NEW k \in Job, NEW s \in Status, WindowSound(j, s),
         k.spec = j.spec, k.available = j.available, k.status = Older(j.status)
  PROVE  WindowSound(k, Older(s))
<1>1. j.status \in Status /\ j.spec \in PositionSpec
  BY DEF Job
<1>2. \A x \in Status : /\ x.idle \in Nat \cup {Nil}
                        /\ Older(x).available = x.available
                        /\ Older(x).idle = IF x.idle = Nil \/ x.idle = MaxAge THEN x.idle
                                           ELSE x.idle + 1
  BY DEF Older, Status
<1>3. \A n \in Nat : n + 1 >= n /\ (n >= Window(j.spec) => n + 1 >= Window(j.spec))
  BY <1>1, WindowType
<1>4. \A n \in Nat : n + 1 # Nil
  BY IdleRuleAssumption
<1> QED BY <1>1, <1>2, <1>3, <1>4 DEF WindowSound

LEMMA WindowInit == Init => WindowsSound
  BY DEF Init, WindowsSound

LEMMA WindowNext == TypeInv /\ WindowsSound /\ [Next]_vars => WindowsSound'
<1> SUFFICES ASSUME TypeInv, TypeOK, StepsInOrder, WindowsSound, [Next]_vars PROVE WindowsSound'
  BY DEF TypeInv
<1> USE SentinelAssumption
<1>1. ASSUME NEW o \in Operators, NEW p \in Positions, Observe(o, p) PROVE WindowsSound'
  <2> DEFINE seen == posCache[o][p]
  <2>1. /\ job'[o].pos = p /\ job'[o].spec = seen.spec
        /\ job'[o].current = (<<o, p>> \notin posLag)
        /\ \A x \in Operators \ {o} : job'[x] = job[x]
    BY <1>1, ObservedJob
  <2>2. seen \in Object /\ seen.spec \in PositionSpec /\ seen.status \in Status
    BY <1>1, ObservedJob DEF Object
  <2>3. PICK util \in UtilFeed \ {NoAnswer} :
          /\ job'[o].status = [seen.status EXCEPT !.idle = EvaluateIdle(seen.spec, seen.status, util).idle]
          /\ job'[o].available = EvaluateIdle(seen.spec, seen.status, util).available
    BY <1>1, ObservedIdle
  <2>4. job'[o].status.idle = EvaluateIdle(seen.spec, seen.status, util).idle
    BY <2>2, <2>3 DEF Status
  <2>5. WindowSound(job'[o], seen.status)
    BY <2>1, <2>2, <2>3, <2>4, EvaluateIdleWindow DEF WindowSound
  <2>6. job'[o].current => seen = api[p]
    BY <2>1 DEF TypeInv, CachesSound, ViewsSound
  <2>7. api' = api
    BY <1>1 DEF Observe, store
  <2> HIDE DEF seen
  <2>8. ASSUME NEW x \in Operators, job'[x] # Nil, job'[x].current
        PROVE  WindowSound(job'[x], api'[job'[x].pos].status)
    <3>1. CASE x = o
      BY <2>1, <2>5, <2>6, <2>7, <2>8, <3>1
    <3>2. CASE x # o
      BY <2>1, <2>7, <2>8, <3>2 DEF WindowsSound
    <3> QED BY <3>1, <3>2
  <2> QED BY <2>8 DEF WindowsSound
<1>2. ASSUME NEW o \in Operators, HandleMarketplace(o) \/ ApplyOptionalAction(o)
      PROVE  WindowsSound'
  <2>1. /\ job[o] # Nil /\ job'[o].pos = job[o].pos /\ job'[o].spec = job[o].spec
        /\ job'[o].current = job[o].current /\ job'[o].available = job[o].available
        /\ job'[o].status.idle = job[o].status.idle
        /\ \A x \in Operators \ {o} : job'[x] = job[x]
    BY <1>2, MarketJob, ActionJob DEF ApplyOptionalAction
  <2>2. api' = api
    BY <1>2 DEF HandleMarketplace, KeepOffer, FlipOffer, MarketplaceError,
                ApplyOptionalAction, NoAction, Pause, Resume, UpdateReplicas, store
  <2> QED BY <2>1, <2>2 DEF WindowsSound, WindowSound
<1>3. ASSUME NEW p \in Positions, \A q \in Positions \ {p} : api'[q] = api[q],
             \A x \in Operators : job'[x] = Nil \/ job'[x] = Replaced(p)[x]
      PROVE  WindowsSound'
  <2> SUFFICES ASSUME NEW x \in Operators, job'[x] # Nil, job'[x].current
               PROVE  WindowSound(job'[x], api'[job'[x].pos].status)
    BY DEF WindowsSound
  <2>1. job'[x] = Replaced(p)[x]
    BY <1>3
  <2>2. job[x] # Nil /\ job'[x] = IF job[x].pos = p THEN [job[x] EXCEPT !.current = FALSE]
                                  ELSE job[x]
    BY <2>1, ReplacedJob
  <2>3. job[x] \in Job
    BY <2>2 DEF TypeOK
  <2>4. job[x].pos # p /\ job[x].pos \in Positions
    BY <2>2, <2>3 DEF Job
  <2> QED BY <1>3, <2>2, <2>4 DEF WindowsSound
<1>4. ASSUME NEW o \in Operators, SaveStatus(o) PROVE WindowsSound'
  <2>1. /\ job[o].pos \in Positions
        /\ \A q \in Positions \ {job[o].pos} : api'[q] = api[q]
    BY <1>4, SavedObject
  <2>2. \A x \in Operators : job'[x] = Nil \/ job'[x] = Replaced(job[o].pos)[x]
    BY <1>4 DEF SaveStatus, Replaced
  <2> QED BY <1>3, <2>1, <2>2
<1>5. ASSUME NEW o \in Operators, LoseStatus(o) \/ Restart(o) PROVE WindowsSound'
  <2>1. /\ job'[o] = Nil /\ api' = api
        /\ \A x \in Operators \ {o} : job'[x] = job[x]
    BY <1>5 DEF LoseStatus, Restart, store, TypeOK
  <2> QED BY <2>1 DEF WindowsSound
<1>6. ASSUME NEW p \in Positions, NEW x, NEW broken, WritePosition(p, x, broken) PROVE WindowsSound'
  BY <1>3, <1>6 DEF WritePosition, TypeOK
<1>7. ASSUME Tick PROVE WindowsSound'
  <2> SUFFICES ASSUME NEW x \in Operators, job'[x] # Nil, job'[x].current
               PROVE  WindowSound(job'[x], api'[job'[x].pos].status)
    BY DEF WindowsSound
  <2>1. /\ job[x] # Nil /\ job[x] \in Job /\ job[x].status \in Status
        /\ job'[x] = [job[x] EXCEPT !.status = Older(job[x].status)]
    BY <1>7 DEF Tick, TypeOK, Job
  <2>2. /\ job'[x] \in Job /\ job'[x].status = Older(job[x].status)
        /\ job'[x].spec = job[x].spec /\ job'[x].available = job[x].available
        /\ job'[x].pos = job[x].pos /\ job[x].pos \in Positions /\ job[x].current
    BY <2>1, OlderStatus DEF Job
  <2>3. api[job[x].pos] \in Object /\ api[job[x].pos].status \in Status
    BY <2>1, <2>2 DEF TypeInv, TypeOK, CachesSound, CopySound, Object
  <2>4. api'[job[x].pos].status = Older(api[job[x].pos].status)
    BY <1>7, <2>2, <2>3, OlderObjects DEF Tick
  <2>5. WindowSound(job[x], api[job[x].pos].status)
    BY <2>1, <2>2 DEF WindowsSound
  <2>6. WindowSound(job'[x], Older(api[job[x].pos].status))
    BY <2>1, <2>2, <2>3, <2>5, WindowOlder
  <2> QED BY <2>2, <2>4, <2>6
<1>8. ASSUME \/ \E o \in Operators : \/ \E p \in Positions : SyncPosition(o, p)
                                     \/ \E d \in Deployments : SyncDeployment(o, d)
             \/ \E d \in Deployments : \/ TouchWorkload(d)
                                       \/ \E n \in ReplicaCounts : ScaleWorkload(d, n)
             \/ Settle \/ UNCHANGED vars
      PROVE  WindowsSound'
  <2>1. UNCHANGED <<api, job>>
    BY <1>8 DEF SyncPosition, SyncDeployment, ScaleWorkload, TouchWorkload, Settle, vars, store
  <2> QED BY <2>1 DEF WindowsSound
<1>9. ASSUME NEW o \in Operators, Operator(o) PROVE WindowsSound'
  BY <1>1, <1>2, <1>4, <1>5, <1>8, <1>9 DEF Operator, UpdateStatus
<1> QED BY <1>6, <1>7, <1>8, <1>9
        DEF Next, Environment, EditPosition, CreatePosition, DeletePosition

(* Between any two operators, and through caches that are behind: a window that
   runs is neither started anew nor brought back, and a flag goes up only over a
   stored window that is over.                                                 *)
THEOREM WindowCorrect == Spec => WindowKept
<1> DEFINE Kept(p) ==
      api[p] # Gone /\ api'[p] # Gone =>
         LET old == api[p].status
             new == api'[p].status
         IN  /\ old.idle # Nil /\ new.idle # Nil => new.idle = old.idle \/ new = Older(old)
             /\ new.available /\ ~old.available =>
                  /\ old.idle # Nil /\ new.idle = old.idle
                  /\ old.idle >= Window(api[p].spec)
<1>1. ASSUME TypeInv, WindowsSound, [Next]_vars, NEW p \in Positions PROVE Kept(p)
  <2> USE <1>1
  <2>1. CASE api'[p] = api[p]
    BY <2>1
  <2>2. ASSUME NEW o \in Operators, SaveStatus(o) PROVE Kept(p)
    <3>1. /\ job[o] # Nil /\ job[o] \in Job /\ job[o].current /\ job[o].pos \in Positions
          /\ api'[job[o].pos].status = WrittenStatus(job[o])
          /\ \A q \in Positions \ {job[o].pos} : api'[q] = api[q]
      BY <2>2, SavedObject, AtJob DEF SaveStatus, StatusAccepted, At, TypeInv
    <3>2. /\ WrittenStatus(job[o]).idle = job[o].status.idle
          /\ WrittenStatus(job[o]).available = job[o].available
      BY <3>1, WrittenFields DEF Job
    <3>3. /\ WindowSound(job[o], api[job[o].pos].status)
          /\ job[o].spec = api[job[o].pos].spec
      BY <3>1 DEF WindowsSound, TypeInv, CachesSound, CopySound
    <3>4. CASE p = job[o].pos
      BY <3>1, <3>2, <3>3, <3>4 DEF WindowSound
    <3> QED BY <2>1, <3>1, <3>4
  <2>3. ASSUME Tick PROVE Kept(p)
    <3>1. api'[p] = OlderObject(api[p]) /\ api[p] \in Object \cup {Gone}
      BY <2>3 DEF Tick, TypeInv, TypeOK
    <3>2. CASE api[p] = Gone
      BY <3>2
    <3>3. CASE api[p] \in Object
      <4>1. CASE api'[p] = Gone
        BY <4>1
      <4>2. CASE api'[p] # Gone
        <5>1. api'[p].status = Older(api[p].status) /\ api[p].status \in Status
          BY <3>1, <4>2, OlderObjects
        <5> QED BY <5>1, OlderStatus
      <4> QED BY <4>1, <4>2
    <3> QED BY <3>1, <3>2, <3>3
  <2>4. ASSUME NEW q \in Positions, NEW s \in Specs[q],
               EditPosition(q, s) \/ CreatePosition(q, s)
        PROVE  Kept(p)
    <3>1. \A r \in Positions \ {q} : api'[r] = api[r]
      BY <2>4 DEF EditPosition, CreatePosition, WritePosition, TypeInv, TypeOK
    <3>2. CASE p = q /\ EditPosition(q, s)
      <4>1. /\ api[p] # Gone /\ api[p] \in Object
            /\ api'[p] = [api[p] EXCEPT !.spec = s]
        BY <3>2 DEF EditPosition, WritePosition, TypeInv, TypeOK
      <4>2. api'[p].status = api[p].status
        BY <4>1 DEF Object
      <4> QED BY <4>2
    <3>3. CASE p = q /\ CreatePosition(q, s)
      BY <3>3 DEF CreatePosition
    <3> QED BY <2>1, <2>4, <3>1, <3>2, <3>3
  <2> HIDE DEF Kept
  <2>5. ASSUME NEW o \in Operators, Operator(o) PROVE Kept(p)
    <3>1. SaveStatus(o) \/ api' = api
      BY <2>5 DEF Operator, Observe, HandleMarketplace, KeepOffer, FlipOffer, MarketplaceError,
                  ApplyOptionalAction, NoAction, Pause, Resume, UpdateReplicas, UpdateStatus,
                  LoseStatus, SyncPosition, SyncDeployment, Restart, store
    <3> QED BY <2>1, <2>2, <3>1
  <2>6. ASSUME \/ \E d \in Deployments : \/ TouchWorkload(d)
                                         \/ \E n \in ReplicaCounts : ScaleWorkload(d, n)
               \/ Settle \/ UNCHANGED vars
        PROVE  Kept(p)
    <3>1. api' = api
      BY <2>6 DEF ScaleWorkload, TouchWorkload, Settle, vars, store
    <3> QED BY <2>1, <3>1
  <2>7. ASSUME NEW q \in Positions, DeletePosition(q) PROVE Kept(p)
    <3>1. api'[q] = Gone /\ \A r \in Positions \ {q} : api'[r] = api[r]
      BY <2>7 DEF DeletePosition, WritePosition, TypeInv, TypeOK
    <3> QED BY <2>1, <3>1 DEF Kept
  <2> QED BY <2>3, <2>4, <2>5, <2>6, <2>7 DEF Next, Environment
<1>2. TypeInv /\ WindowsSound /\ [Next]_vars =>
        \A p \in Positions :
          api[p] # Gone /\ api'[p] # Gone =>
            LET old == api[p].status
                new == api'[p].status
            IN  /\ old.idle # Nil /\ new.idle # Nil => new.idle = old.idle \/ new = Older(old)
                /\ new.available /\ ~old.available =>
                     /\ old.idle # Nil /\ new.idle = old.idle
                     /\ old.idle >= Window(api[p].spec)
  BY <1>1
<1>3. Spec => []WindowsSound
  BY WindowInit, WindowNext, TypeInvariance, PTL DEF Spec
<1> QED BY <1>2, <1>3, TypeInvariance, PTL DEF Spec, WindowKept

-------------------------------------------------------------------------------
(* Nothing moves at rest. *)

(* A copy that rests does so however old it gets. *)
LEMMA RestsOlder ==
  ASSUME NEW answer, NEW spec \in PositionSpec, NEW s \in Status, Rests(answer, spec, s)
  PROVE  Rests(answer, spec, Older(s))
<1>1. /\ Older(s).spot = s.spot /\ Older(s).available = s.available
      /\ Older(s).paused = s.paused
      /\ s.idle # Nil => /\ Older(s).idle # Nil /\ Older(s).idle >= s.idle
                         /\ s.idle \in Nat /\ Older(s).idle \in Nat
  BY OlderStatus DEF Status
<1>2. \A n \in Nat, m \in Nat : n >= m /\ m >= Window(spec) => n >= Window(spec)
  BY WindowType
<1>3. \A x : NothingToDo(spec, s, x) => NothingToDo(spec, Older(s), x)
  BY <1>1 DEF NothingToDo
<1> QED BY <1>1, <1>2, <1>3 DEF Rests, PriceKnown

(* What a write of others, a step without a call or an update, and time do to a
   reconcile that rests.                                                       *)
LEMMA JobRestsKept ==
  ASSUME NEW answer, NEW j \in Job, JobRests(answer, j)
  PROVE  /\ JobRests(answer, [j EXCEPT !.current = FALSE])
         /\ j.at = "market" => JobRests(answer, [j EXCEPT !.at = "action"])
         /\ j.at = "action" => JobRests(answer, [j EXCEPT !.at = "status"])
         /\ JobRests(answer, [j EXCEPT !.status = Older(j.status)])
<1>1. j.status \in Status /\ j.spec \in PositionSpec /\ j.spot \in Int /\ j.available \in BOOLEAN
  BY DEF Job
<1>2. ASSUME NEW k \in Job, k.status = j.status, k.spot = j.spot, k.available = j.available
      PROVE  WrittenStatus(k) = WrittenStatus(j)
  BY <1>2 DEF WrittenStatus
<1>3. JobRests(answer, [j EXCEPT !.current = FALSE])
  <2> DEFINE k == [j EXCEPT !.current = FALSE]
  <2>1. /\ k \in Job /\ k.status = j.status /\ k.spot = j.spot /\ k.available = j.available
        /\ k.spec = j.spec /\ k.at = j.at /\ k.current = FALSE
    BY DEF Job
  <2> HIDE DEF k
  <2>2. WrittenStatus(k) = WrittenStatus(j)
    BY <1>2, <2>1
  <2> QED BY <2>1, <2>2 DEF JobRests, k
<1>4. ASSUME NEW step \in {"action", "status"}, j.at # "status"
      PROVE  JobRests(answer, [j EXCEPT !.at = step])
  <2> DEFINE k == [j EXCEPT !.at = step]
  <2>1. /\ k \in Job /\ k.status = j.status /\ k.spot = j.spot /\ k.available = j.available
        /\ k.spec = j.spec /\ k.act = j.act /\ k.current = j.current
    BY DEF Job
  <2> HIDE DEF k
  <2>2. WrittenStatus(k) = WrittenStatus(j)
    BY <1>2, <2>1
  <2> QED BY <1>4, <2>1, <2>2 DEF JobRests, k
<1>5. JobRests(answer, [j EXCEPT !.status = Older(j.status)])
  <2> DEFINE k == [j EXCEPT !.status = Older(j.status)]
             w == WrittenStatus(j)
  <2>1. /\ k.status = Older(j.status) /\ k.spot = j.spot /\ k.available = j.available
        /\ k.spec = j.spec /\ k.act = j.act /\ k.current = j.current /\ k.at = j.at
    BY DEF Job
  <2>2. /\ Older(j.status).available = j.status.available
        /\ Older(j.status).paused = j.status.paused
    BY <1>1, OlderStatus
  <2>3. w \in Status /\ Rests(answer, j.spec, w)
    BY <1>1, MoneyRounded DEF WrittenStatus, Status, JobRests
  <2> DEFINE age == j.status.idle + 1
  <2>4. WrittenStatus(k) = Older(w)
    <3>1. w.idle = j.status.idle
      BY <1>1 DEF WrittenStatus, Status
    <3>2. CASE j.status.idle = Nil \/ j.status.idle = MaxAge
      <4>1. Older(j.status) = j.status /\ Older(w) = w
        BY <3>1, <3>2 DEF Older
      <4> QED BY <2>1, <4>1 DEF WrittenStatus
    <3>3. CASE ~(j.status.idle = Nil \/ j.status.idle = MaxAge)
      <4>1. /\ Older(j.status) = [j.status EXCEPT !.idle = age]
            /\ Older(w) = [w EXCEPT !.idle = age]
        BY <3>1, <3>3 DEF Older
      <4>2. WrittenStatus(k) = [[j.status EXCEPT !.idle = age] EXCEPT !.spot = Money(j.spot),
                                                                     !.available = j.available]
        BY <2>1, <4>1 DEF WrittenStatus
      <4> HIDE DEF age, k
      <4> QED BY <1>1, <4>1, <4>2 DEF w, WrittenStatus, Status
    <3> QED BY <3>2, <3>3
  <2>5. Rests(answer, j.spec, WrittenStatus(k))
    BY <1>1, <2>3, <2>4, RestsOlder
  <2> HIDE DEF k
  <2>6. \A x : NothingToDo(j.spec, j.status, x) => NothingToDo(j.spec, k.status, x)
    BY <2>1, <2>2 DEF NothingToDo
  <2> QED BY <2>1, <2>2, <2>5, <2>6 DEF JobRests, k
<1> QED BY <1>3, <1>4, <1>5

(* A reconcile that starts from a copy that rests has nothing to do: the rule
   keeps the flag, and the price, stored rounded or not, asks for no update.   *)
LEMMA ObservedRests ==
  ASSUME TypeInv, RoundedSpots, AtRest, NEW o \in Operators, NEW p \in Positions, Observe(o, p)
  PROVE  JobRests(settled, job'[o])
<1> DEFINE seen == posCache[o][p]
           util == settled.util
           price == settled.price
           idle == EvaluateIdle(seen.spec, seen.status, util)
<1>1. /\ seen \in Object /\ seen.status \in Status /\ seen.spec \in PositionSpec
      /\ seen.spec.hedgeParses
      /\ Rests(settled, seen.spec, seen.status) /\ Rounded(seen.status.spot)
  BY DEF Observe, AtRest, RoundedSpots, TypeInv, TypeOK, Object
<1>2. /\ util # NoAnswer /\ PriceKnown(price, seen.status)
      /\ job'[o] =
           [ at |-> "market", pos |-> p, spec |-> seen.spec,
             status |-> [seen.status EXCEPT !.idle = idle.idle],
             spot |-> IF price = NoAnswer THEN seen.status.spot ELSE price.usd,
             stale |-> price = NoAnswer \/ price.old,
             available |-> idle.available,
             call |-> "none", act |-> "none",
             current |-> <<o, p>> \notin posLag ]
  <2>1. UtilFeed = {util} /\ PriceFeed = {price}
    BY DEF UtilFeed, PriceFeed, AtRest
  <2>2. PICK u \in UtilFeed \ {NoAnswer}, x \in PriceFeed :
          /\ PriceKnown(x, seen.status)
          /\ job' = [job EXCEPT ![o] =
               [ at |-> "market", pos |-> p, spec |-> seen.spec,
                 status |-> [seen.status EXCEPT !.idle = EvaluateIdle(seen.spec, seen.status, u).idle],
                 spot |-> IF x = NoAnswer THEN seen.status.spot ELSE x.usd,
                 stale |-> x = NoAnswer \/ x.old,
                 available |-> EvaluateIdle(seen.spec, seen.status, u).available,
                 call |-> "none", act |-> "none",
                 current |-> <<o, p>> \notin posLag ]]
    BY DEF Observe
  <2>3. u = util /\ x = price /\ util # NoAnswer
    BY <2>1
  <2>4. job \in [Operators -> Job \cup {Nil}]
    BY DEF TypeInv, TypeOK
  <2> QED BY <2>2, <2>3, <2>4
<1> DEFINE j == job'[o]
           spot == IF price = NoAnswer THEN seen.status.spot ELSE price.usd
<1>3. spot \in Int
  <2>1. settled \in [price: SettledPrices, util: SettledUtils]
    BY DEF TypeInv, TypeOK, AtRest
  <2>2. price \in [usd: Int, old: BOOLEAN] \cup {NoAnswer}
    BY <2>1, ReconcilerAssumption
  <2> QED BY <1>1, <1>2, <2>2 DEF PriceKnown, Status
<1>4. /\ Low(seen.spec, util) =>
           seen.status.available /\ seen.status.idle # Nil /\ seen.status.idle >= Window(seen.spec)
      /\ Recovered(seen.spec, util) => ~seen.status.available
      /\ NothingToDo(seen.spec, seen.status, spot)
  BY <1>1, <1>2 DEF Rests
<1>5. /\ idle.available = seen.status.available
      /\ Low(seen.spec, util) => idle.idle = seen.status.idle
  BY <1>1, <1>4 DEF EvaluateIdle, Status
<1>6. idle.idle \in Nat \cup {Nil}
  BY <1>1, EvaluateIdleType
<1> HIDE DEF idle
<1>7. /\ j.spec = seen.spec /\ j.spot = spot /\ j.act = "none"
      /\ j.available = seen.status.available
      /\ j.status \in Status
      /\ j.status.available = seen.status.available /\ j.status.paused = seen.status.paused
      /\ j.status.idle = idle.idle
  BY <1>1, <1>2, <1>5, <1>6 DEF Status
<1> HIDE DEF j, seen, spot
<1>8. \A x : NothingToDo(seen.spec, seen.status, x) => NothingToDo(j.spec, j.status, x)
  BY <1>7 DEF NothingToDo
<1>9. Rests(settled, j.spec, WrittenStatus(j))
  <2> DEFINE w == WrittenStatus(j)
  <2>1. /\ w.spot = Money(spot) /\ w.available = seen.status.available
        /\ w.paused = seen.status.paused /\ w.idle = idle.idle
    BY <1>7 DEF WrittenStatus, Status
  <2>2. price = NoAnswer => w.spot = spot
    <3>1. price = NoAnswer => spot = seen.status.spot /\ spot # Nil
      BY <1>2 DEF PriceKnown, spot
    <3> QED BY <1>1, <2>1, <3>1 DEF Rounded
  <2>3. (IF price = NoAnswer THEN w.spot ELSE price.usd) = spot
    BY <2>2 DEF spot
  <2>4. NothingToDo(j.spec, w, spot)
    BY <1>4, <1>7, <2>1 DEF NothingToDo
  <2>5. Low(j.spec, util) => w.available /\ w.idle # Nil /\ w.idle >= Window(j.spec)
    BY <1>4, <1>5, <1>7, <2>1
  <2>6. Recovered(j.spec, util) => ~w.available
    BY <1>4, <1>7, <2>1
  <2> HIDE DEF w
  <2> QED BY <2>3, <2>4, <2>5, <2>6 DEF Rests, w
<1> QED BY <1>4, <1>7, <1>8, <1>9 DEF JobRests, j

Unmoved ==
  /\ UNCHANGED <<replicas, offers>>
  /\ \A p \in Positions :
       /\ api'[p] = Gone <=> api[p] = Gone
       /\ api[p] # Gone =>
            /\ api'[p].status.available = api[p].status.available
            /\ api'[p].status.paused = api[p].status.paused

(* With the faults over, what is left of a step at rest: caches catch up, a
   reconcile starts, finds nothing to do and rewrites what is there, time passes. *)
LEMMA RestNext ==
  ASSUME TypeInv, RoundedSpots, AtRest, [Next]_vars
  PROVE  AtRest' /\ Unmoved
<1> TypeOK /\ settled # Nil /\ \A d : ~May(d)
  BY DEF TypeInv, AtRest, May
<1>1. \A o \in Operators : job[o] # Nil => job[o] \in Job /\ JobRests(settled, job[o])
  BY DEF TypeOK, AtRest
<1>2. ASSUME settled' = settled, UNCHANGED <<replicas, offers, api>>,
             \A o \in Operators, p \in Positions :
               posCache'[o][p] = posCache[o][p] \/ posCache'[o][p] = api[p],
             \A o \in Operators : job'[o] # Nil => JobRests(settled, job'[o])
      PROVE  AtRest' /\ Unmoved
  <2>1. AtRest'
    BY <1>2 DEF AtRest
  <2> QED BY <1>2, <2>1 DEF Unmoved
<1>3. ASSUME NEW o \in Operators, NEW p \in Positions, Observe(o, p)
      PROVE  AtRest' /\ Unmoved
  <2>1. JobRests(settled, job'[o]) /\ \A x \in Operators \ {o} : job'[x] = job[x]
    BY <1>3, ObservedRests, ObservedJob
  <2>2. settled' = settled /\ UNCHANGED <<replicas, offers, api, posCache>>
    BY <1>3 DEF Observe, store, posView
  <2>3. \A x \in Operators : job'[x] # Nil => JobRests(settled, job'[x])
    BY <1>1, <2>1
  <2> QED BY <1>2, <2>2, <2>3
<1>4. ASSUME NEW o \in Operators, KeepOffer(o) \/ NoAction(o) PROVE AtRest' /\ Unmoved
  <2>1. JobRests(settled, job'[o]) /\ \A x \in Operators \ {o} : job'[x] = job[x]
    <3>1. CASE KeepOffer(o)
      <4>1. job[o] # Nil /\ job[o].at = "market" /\ job' = [job EXCEPT ![o].at = "action"]
        BY <3>1 DEF KeepOffer, At
      <4> QED BY <1>1, <4>1, JobRestsKept DEF TypeOK
    <3>2. CASE NoAction(o)
      <4>1. job[o] # Nil /\ job[o].at = "action" /\ job' = [job EXCEPT ![o].at = "status"]
        BY <3>2 DEF NoAction, At
      <4> QED BY <1>1, <4>1, JobRestsKept DEF TypeOK
    <3> QED BY <1>4, <3>1, <3>2
  <2> QED BY <1>1, <1>2, <1>4, <2>1 DEF KeepOffer, NoAction, store, posView
<1>5. ASSUME NEW o \in Operators PROVE ~FlipOffer(o) /\ ~MarketplaceError(o)
  BY <1>1 DEF FlipOffer, MarketplaceError, At, JobRests
<1>6. ASSUME NEW o \in Operators PROVE ~Pause(o) /\ ~Resume(o)
  <2>1. At(o, "action") => NothingToDo(job[o].spec, job[o].status, job[o].spot)
    BY <1>1 DEF At, JobRests
  <2> QED BY <2>1 DEF Pause, Resume, NothingToDo
<1>7. ASSUME NEW o \in Operators, SaveStatus(o) PROVE AtRest' /\ Unmoved
  <2> DEFINE p == job[o].pos
             w == WrittenStatus(job[o])
  <2>1. /\ job[o] # Nil /\ job[o] \in Job /\ p \in Positions /\ job[o].current
        /\ api[p] # Gone /\ api'[p] # Gone /\ api'[p].spec = job[o].spec /\ api'[p].status = w
        /\ \A q \in Positions \ {p} : api'[q] = api[q]
    BY <1>7, SavedObject
  <2>2. Rests(settled, job[o].spec, w) /\ job[o].act = "none"
        /\ job[o].available = job[o].status.available
    BY <1>1, <2>1 DEF JobRests
  <2>3. /\ job[o].status.available = api[p].status.available
        /\ job[o].status.paused = api[p].status.paused
    BY <2>1, <2>2 DEF TypeInv, CachesSound, CopySound
  <2>4. w.available = job[o].available /\ w.paused = job[o].status.paused
    BY <2>1 DEF WrittenStatus, Job, Status
  <2>5. ASSUME NEW x \in Operators, job'[x] # Nil PROVE JobRests(settled, job'[x])
    <3>1. job'[x] = Replaced(p)[x] /\ x # o
      BY <1>7, <2>5 DEF SaveStatus, Replaced
    <3>2. job[x] # Nil
      BY <2>5, <3>1, ReplacedJob
    <3>3. job'[x] = job[x] \/ job'[x] = [job[x] EXCEPT !.current = FALSE]
      BY <3>1, <3>2, ReplacedJob
    <3>4. job[x] \in Job /\ JobRests(settled, job[x])
      BY <1>1, <3>2
    <3>5. JobRests(settled, [job[x] EXCEPT !.current = FALSE])
      BY <3>4, JobRestsKept
    <3> QED BY <3>3, <3>4, <3>5
  <2>6. UNCHANGED <<replicas, offers, posCache, settled>>
    BY <1>7 DEF SaveStatus
  <2> HIDE DEF p, w
  <2>7. AtRest'
    BY <2>1, <2>2, <2>5, <2>6 DEF AtRest
  <2> QED BY <2>1, <2>2, <2>3, <2>4, <2>6, <2>7 DEF Unmoved
<1>8. ASSUME NEW o \in Operators, LoseStatus(o) PROVE AtRest' /\ Unmoved
  BY <1>1, <1>2, <1>8 DEF LoseStatus, TypeOK, store, posView
<1>9. ASSUME NEW o \in Operators, NEW p \in Positions, SyncPosition(o, p)
      PROVE  AtRest' /\ Unmoved
  <2>1. \A x \in Operators, q \in Positions :
          posCache'[x][q] = posCache[x][q] \/ posCache'[x][q] = api[q]
    BY <1>9 DEF SyncPosition, TypeOK
  <2> QED BY <1>1, <1>2, <1>9, <2>1 DEF SyncPosition, store, history
<1>10. ASSUME NEW o \in Operators, NEW d \in Deployments, SyncDeployment(o, d)
       PROVE  AtRest' /\ Unmoved
  BY <1>1, <1>2, <1>10 DEF SyncDeployment, store, posView
<1>11. ASSUME Tick PROVE AtRest' /\ Unmoved
  <2>1. ASSUME NEW x \in Object \cup {Gone}
        PROVE  /\ OlderObject(x) = Gone <=> x = Gone
               /\ x # Gone =>
                    /\ OlderObject(x).status.available = x.status.available
                    /\ OlderObject(x).status.paused = x.status.paused
                    /\ Rests(settled, x.spec, x.status)
                         => Rests(settled, OlderObject(x).spec, OlderObject(x).status)
    BY OlderObjects, OlderStatus, RestsOlder
  <2>2. \A p \in Positions : api'[p] = OlderObject(api[p]) /\ api[p] \in Object \cup {Gone}
    BY <1>11 DEF Tick, TypeOK
  <2>3. \A o \in Operators, p \in Positions :
          posCache'[o][p] = OlderObject(posCache[o][p]) /\ posCache[o][p] \in Object \cup {Gone}
    BY <1>11 DEF Tick, TypeOK
  <2>4. ASSUME NEW o \in Operators, job'[o] # Nil PROVE JobRests(settled, job'[o])
    <3>1. job[o] # Nil /\ job'[o] = [job[o] EXCEPT !.status = Older(job[o].status)]
      BY <1>11, <2>4 DEF Tick
    <3>2. job[o] \in Job /\ JobRests(settled, job[o])
      BY <1>1, <3>1
    <3>3. JobRests(settled, [job[o] EXCEPT !.status = Older(job[o].status)])
      BY <3>2, JobRestsKept
    <3> QED BY <3>1, <3>3
  <2>5. UNCHANGED <<replicas, offers, settled>>
    BY <1>11 DEF Tick
  <2>6. AtRest'
    BY <2>1, <2>2, <2>3, <2>4, <2>5 DEF AtRest
  <2> QED BY <2>1, <2>2, <2>5, <2>6 DEF Unmoved
<1>12. ASSUME UNCHANGED vars PROVE AtRest' /\ Unmoved
  BY <1>1, <1>2, <1>12 DEF vars, store, posView
<1>13. CASE \E o \in Operators : Operator(o)
  BY <1>3, <1>4, <1>5, <1>6, <1>7, <1>8, <1>9, <1>10, <1>13
     DEF Operator, HandleMarketplace, ApplyOptionalAction, UpdateStatus, Restart
<1>14. CASE Environment
  BY <1>11, <1>14
     DEF Environment, EditPosition, CreatePosition, DeletePosition, ScaleWorkload,
         TouchWorkload, Settle
<1> QED BY <1>12, <1>13, <1>14 DEF Next

(* No flapping, for every instance: once the feeds repeat one answer, faults are
   over, and store, caches and reconciles under way are at rest, no reconcile ever
   scales, posts, withdraws, flags or pauses anything again, whichever copies are
   behind and whoever wins a conflict.                                         *)
THEOREM RestStays == Spec => StaysAtRest
<1>1. TypeInv /\ RoundedSpots /\ [Next]_vars => (AtRest => AtRest' /\ Unmoved)
  BY RestNext
<1>2. (AtRest => AtRest' /\ Unmoved)
        <=> (AtRest =>
               /\ AtRest'
               /\ UNCHANGED <<replicas, offers>>
               /\ \A p \in Positions :
                    /\ api'[p] = Gone <=> api[p] = Gone
                    /\ api[p] # Gone =>
                         /\ api'[p].status.available = api[p].status.available
                         /\ api'[p].status.paused = api[p].status.paused)
  BY DEF Unmoved
<1> QED BY <1>1, <1>2, TypeInvariance, RoundedInvariance, PTL DEF Spec, StaysAtRest

(* At rest, everything is as the specs ask for, up to what was torn before: rest
   is decided on the copies alone, and replicas and listings follow from the
   bookkeeping of a pause and of the listings.                                 *)
THEOREM RestIsConverged == Spec => []RestConverged
<1>1. TypeInv /\ WorkloadInv /\ OffersAccounted => RestConverged
  <2> SUFFICES ASSUME TypeInv, WorkloadInv, OffersAccounted, AtRest, NEW p \in Positions,
                      api[p] # Gone, api[p].spec.hedgeParses,
                      settled.util # NoAnswer, settled.price # NoAnswer
               PROVE  Converged(p)
    BY DEF RestConverged, Converged
  <2> DEFINE x == api[p]
  <2>1. \A o \in Operators : job[o] # Nil => job[o] \in Job /\ JobRests(settled, job[o])
    BY DEF TypeInv, TypeOK, AtRest
  <2>2. /\ Low(x.spec, settled.util) => x.status.available
        /\ Recovered(x.spec, settled.util) => ~x.status.available
        /\ NothingToDo(x.spec, x.status, settled.price.usd)
    BY DEF AtRest, Rests, PriceKnown
  <2>3. p \in tornOffers \/ (p \in offers <=> x.status.available)
    <3>1. Calling(p) = {}
      BY <2>1 DEF Calling, TypeInv, StepsInOrder, InOrder, JobRests
    <3> QED BY <3>1 DEF OffersAccounted
  <2>4. ASSUME Eligible(x.spec), x.spec.ref \notin torn
        PROVE  replicas[x.spec.ref] = IF x.status.paused THEN 0 ELSE desired[x.spec.ref]
    <3> DEFINE d == x.spec.ref
    <3>1. d \in Deployments /\ d \in RefOf(x)
      BY <2>4, RefTypes DEF Eligible, PositionSpec
    <3>2. Moving(d) = {}
      <4> SUFFICES ASSUME NEW o \in Operators, job[o] # Nil, job[o].act = "moved",
                          job[o].spec.ref = d
                   PROVE  FALSE
        BY DEF Moving
      <4>1. job[o].current
        BY <2>4 DEF WorkloadInv, MovesRecorded, Moved
      <4> QED BY <2>1, <4>1 DEF JobRests
    <3>3. AccountedBy(x.status, d)
      BY <2>4, <3>1, <3>2 DEF WorkloadInv, WorkloadAccounted
    <3> QED BY <3>3 DEF AccountedBy
  <2> QED BY <2>2, <2>3, <2>4 DEF Converged, NothingToDo
<1>2. Spec => []WorkloadInv
  BY WorkloadInit, WorkloadNext, TypeInvariance, PTL DEF Spec
<1> QED BY <1>1, <1>2, OffersCorrect, TypeInvariance, PTL
===============================================================================
