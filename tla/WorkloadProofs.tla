---------------------------- MODULE WorkloadProofs ----------------------------
(* The bookkeeping of a pause in Reconciler, for every instance: replicas follow
   the recorded pauses, except for what is torn.                               *)
EXTENDS ReconcilerProofs

Scaled(o) == job[o] # Nil /\ job[o].act # "none"

Moved(o) == job[o] # Nil /\ job[o].act = "moved"

(* WorkloadAccounted is not inductive.  What it needs besides, for a Deployment
   that is not torn: it has one position; who scaled it has a current copy and
   changes the stored pause; a stored pause notes what the user wants, also
   while someone is resuming; and a reconcile whose update changed nothing may
   record it.                                                                  *)
NotShared == SharedIn(api) \subseteq torn

MovesRecorded ==
  \A o \in Operators :
    Moved(o) => \/ job[o].spec.ref \in torn
                \/ /\ job[o].current
                   /\ job[o].status.paused # api[job[o].pos].status.paused

NotedWanted ==
  \A p \in Positions : \A d \in RefOf(api[p]) \ torn :
    api[p].status.paused => api[p].status.orig = desired[d]

SameAccounted ==
  \A o \in Operators :
    /\ job[o] # Nil /\ job[o].act = "same" /\ job[o].current
    /\ job[o].spec.ref \notin torn /\ Moving(job[o].spec.ref) = {}
    => AccountedBy(job[o].status, job[o].spec.ref)

WorkloadInv ==
  NotShared /\ MovesRecorded /\ NotedWanted /\ SameAccounted /\ WorkloadAccounted

(* What the reference of a stored spec or of a reconcile that scaled may be. *)
LEMMA RefTypes ==
  ASSUME TypeInv
  PROVE  /\ \A p \in Positions : api[p] # Gone =>
              /\ api[p] \in Object /\ api[p].status \in Status /\ api[p].spec \in PositionSpec
              /\ RefOf(api[p]) = {api[p].spec.ref} \ {Nil}
         /\ \A p \in Positions : RefOf(api[p]) \subseteq Deployments
         /\ \A o \in Operators : job[o] # Nil => job[o] \in Job /\ job[o].status \in Status
                                                 /\ job[o].pos \in Positions
         /\ \A o \in Operators : Scaled(o) => job[o].spec.ref \in Deployments
         /\ \A o \in Operators : Moved(o) => Scaled(o)
<1>1. \A p \in Positions : api[p] # Gone => api[p] \in Object
  BY DEF TypeInv, TypeOK
<1>2. \A p \in Positions : api[p] # Gone =>
              /\ api[p] \in Object /\ api[p].status \in Status /\ api[p].spec \in PositionSpec
              /\ RefOf(api[p]) = {api[p].spec.ref} \ {Nil}
  BY <1>1 DEF Object, RefOf
<1>3. \A p \in Positions : RefOf(api[p]) \subseteq Deployments
  BY <1>2 DEF RefOf, PositionSpec
<1>4. \A o \in Operators : job[o] # Nil => job[o] \in Job
  BY DEF TypeInv, TypeOK
<1>5. \A o \in Operators : job[o] # Nil => job[o] \in Job /\ job[o].status \in Status
                                           /\ job[o].pos \in Positions
  BY <1>4 DEF Job
<1>6. ASSUME NEW o \in Operators, Scaled(o) PROVE job[o].spec.ref \in Deployments
  <2>1. Eligible(job[o].spec) /\ job[o] \in Job
    BY <1>4, <1>6 DEF TypeInv, StepsInOrder, InOrder, Scaled
  <2> QED BY <2>1 DEF Eligible, Job, PositionSpec
<1> QED BY <1>2, <1>3, <1>5, <1>6 DEF Scaled, Moved

(* Whoever works from a current copy works on what its stored position refers to. *)
LEMMA CurrentRef ==
  ASSUME TypeInv, NEW o \in Operators, job[o] # Nil, job[o].current, job[o].spec.ref # Nil
  PROVE  /\ api[job[o].pos] # Gone /\ job[o].pos \in Positions
         /\ api[job[o].pos].spec = job[o].spec
         /\ job[o].spec.ref \in RefOf(api[job[o].pos])
         /\ job[o].act = "none" =>
              /\ job[o].status.paused = api[job[o].pos].status.paused
              /\ job[o].status.paused => job[o].status.orig = api[job[o].pos].status.orig
  BY RefTypes DEF TypeInv, CachesSound, CopySound

(* A Deployment that is not torn has one position. *)
LEMMA OneRef ==
  ASSUME NotShared, NEW d \in Deployments, d \notin torn, NEW p \in Positions,
         NEW q \in Positions, d \in RefOf(api[p]), d \in RefOf(api[q])
  PROVE  p = q
  BY DEF NotShared, SharedIn

(* Everyone who scaled it works on that position, from a current copy. *)
LEMMA OneMover ==
  ASSUME TypeInv, WorkloadInv, NEW o \in Operators, Moved(o), job[o].spec.ref \notin torn,
         NEW p \in Positions, job[o].spec.ref \in RefOf(api[p])
  PROVE  /\ job[o].current /\ job[o].pos = p
         /\ job[o].status.paused # api[p].status.paused
<1>1. /\ job[o].current /\ job[o] # Nil
      /\ job[o].status.paused # api[job[o].pos].status.paused
  BY DEF WorkloadInv, MovesRecorded, Moved
<1>2. job[o].spec.ref \in Deployments /\ job[o].spec.ref # Nil
  BY RefTypes, SentinelAssumption
<1>3. job[o].pos \in Positions /\ job[o].spec.ref \in RefOf(api[job[o].pos])
  BY <1>1, <1>2, CurrentRef
<1> QED BY <1>1, <1>2, <1>3, OneRef DEF WorkloadInv

LEMMA WorkloadInit == Init => WorkloadInv
<1> SUFFICES ASSUME Init PROVE WorkloadInv
  OBVIOUS
<1>1. \A p \in Positions : api[p].status = NewStatus /\ ~api[p].status.paused
  <2>1. api \in [Positions -> [spec: UNION {Specs[p] : p \in Positions}, status: {NewStatus}]]
    BY DEF Init
  <2>2. ~NewStatus.paused
    BY DEF NewStatus
  <2> QED BY <2>1, <2>2
<1>2. \A o \in Operators : job[o] = Nil
  BY DEF Init
<1>3. \A p \in Positions, d \in Deployments : AccountedBy(api[p].status, d)
  BY <1>1 DEF AccountedBy, Init
<1>4. WorkloadAccounted
  BY <1>2, <1>3 DEF WorkloadAccounted, Moving, Init
<1> QED BY <1>1, <1>2, <1>4
        DEF WorkloadInv, NotShared, MovesRecorded, Moved, NotedWanted, SameAccounted, Init

(* A step that neither scales, records nor refers to anything else. *)
SameScalings ==
  /\ \A o \in Operators : Scaled(o)' <=> Scaled(o)
  /\ \A o \in Operators : Scaled(o) =>
       /\ job'[o].pos = job[o].pos /\ job'[o].spec = job[o].spec
       /\ job'[o].act = job[o].act /\ job'[o].current = job[o].current
       /\ job'[o].status.paused = job[o].status.paused
       /\ job'[o].status.orig = job[o].status.orig

SamePauses ==
  \A p \in Positions :
    /\ api'[p] = Gone <=> api[p] = Gone
    /\ api[p] # Gone =>
         /\ api'[p].spec = api[p].spec
         /\ api'[p].status.paused = api[p].status.paused
         /\ api'[p].status.orig = api[p].status.orig

LEMMA WorkloadKept ==
  ASSUME TypeInv, WorkloadInv, SameScalings, SamePauses, torn \subseteq torn',
         \A d \in Deployments \ torn' : replicas'[d] = replicas[d] /\ desired'[d] = desired[d]
  PROVE  WorkloadInv'
<1>1. \A p \in Positions : RefOf(api'[p]) = RefOf(api[p]) /\ RefOf(api[p]) \subseteq Deployments
  BY RefTypes DEF SamePauses, RefOf
<1>2. NotShared'
  BY <1>1 DEF WorkloadInv, NotShared, SharedIn
<1>3. \A o \in Operators : Moved(o)' <=> Moved(o)
  BY DEF SameScalings, Scaled, Moved
<1>4. MovesRecorded'
  <2> SUFFICES ASSUME NEW o \in Operators, Moved(o)', job'[o].spec.ref \notin torn'
               PROVE  /\ job'[o].current
                      /\ job'[o].status.paused # api'[job'[o].pos].status.paused
    BY DEF MovesRecorded
  <2>1. /\ Moved(o) /\ Scaled(o) /\ job[o] # Nil
        /\ job'[o].spec = job[o].spec /\ job'[o].pos = job[o].pos
        /\ job'[o].current = job[o].current
        /\ job'[o].status.paused = job[o].status.paused
    BY <1>3 DEF SameScalings, Moved, Scaled
  <2>2. job[o].current /\ job[o].status.paused # api[job[o].pos].status.paused
    BY <2>1 DEF WorkloadInv, MovesRecorded
  <2>3. job[o].pos \in Positions /\ api[job[o].pos] # Gone
    BY <2>1, <2>2, RefTypes, CurrentRef, SentinelAssumption, IdleRuleAssumption
  <2> QED BY <2>1, <2>2, <2>3 DEF SamePauses
<1>5. NotedWanted'
  <2> SUFFICES ASSUME NEW p \in Positions, NEW d \in RefOf(api'[p]) \ torn', api'[p].status.paused
               PROVE  api'[p].status.orig = desired'[d]
    BY DEF NotedWanted
  <2>1. d \in RefOf(api[p]) \ torn /\ desired'[d] = desired[d]
    BY <1>1
  <2>2. api[p] # Gone
    BY <2>1 DEF RefOf
  <2> QED BY <2>1, <2>2 DEF WorkloadInv, NotedWanted, SamePauses
<1>6. \A d \in Deployments : Moving(d)' = Moving(d)
  BY <1>3 DEF Moving, Moved, SameScalings, Scaled
<1>7. SameAccounted'
  <2> SUFFICES ASSUME NEW o \in Operators, job'[o] # Nil, job'[o].act = "same", job'[o].current,
                      job'[o].spec.ref \notin torn', Moving(job[o].spec.ref)' = {}
               PROVE  AccountedBy(job[o].status, job[o].spec.ref)'
    BY DEF SameAccounted
  <2>1. Scaled(o)
    BY DEF SameScalings, Scaled
  <2>2. /\ job[o] # Nil /\ job'[o].spec = job[o].spec /\ job[o].act = "same" /\ job[o].current
        /\ job'[o].status.paused = job[o].status.paused
        /\ job'[o].status.orig = job[o].status.orig
        /\ job[o].spec.ref \in Deployments
    BY <2>1, RefTypes DEF SameScalings, Scaled
  <2>3. AccountedBy(job[o].status, job[o].spec.ref)
    BY <1>6, <2>2 DEF WorkloadInv, SameAccounted
  <2> QED BY <2>2, <2>3 DEF AccountedBy
<1>8. WorkloadAccounted'
  <2> SUFFICES ASSUME NEW d \in Deployments, d \notin torn'
               PROVE  /\ \A o \in Moving(d) : AccountedBy(job[o].status, d)'
                      /\ Moving(d) = {} =>
                           \A p \in Positions : d \in RefOf(api[p]) => AccountedBy(api[p].status, d)'
                      /\ Moving(d) = {} /\ (\A p \in Positions : d \notin RefOf(api[p]))
                           => replicas'[d] = desired'[d]
    BY <1>1, <1>6 DEF WorkloadAccounted
  <2>1. d \notin torn /\ replicas'[d] = replicas[d] /\ desired'[d] = desired[d]
    OBVIOUS
  <2>2. \A o \in Moving(d) : AccountedBy(job[o].status, d)'
    BY <2>1 DEF WorkloadInv, WorkloadAccounted, AccountedBy, Moving, SameScalings, Scaled
  <2>3. Moving(d) = {} =>
          \A p \in Positions : d \in RefOf(api[p]) => AccountedBy(api[p].status, d)'
    BY <2>1 DEF WorkloadInv, WorkloadAccounted, AccountedBy, SamePauses, RefOf
  <2> QED BY <2>1, <2>2, <2>3 DEF WorkloadInv, WorkloadAccounted
<1> QED BY <1>2, <1>4, <1>5, <1>7, <1>8 DEF WorkloadInv

(* A reconcile ends without a status write. *)
LEMMA WorkloadLost ==
  ASSUME TypeInv, WorkloadInv, NEW o \in Operators,
         job' = [job EXCEPT ![o] = Nil], UNCHANGED <<api, replicas, desired>>,
         torn \subseteq torn', job[o] # Nil => LostMoves({o}) \subseteq torn'
  PROVE  WorkloadInv'
<1>1. job'[o] = Nil /\ \A x \in Operators \ {o} : job'[x] = job[x]
  BY DEF TypeInv, TypeOK
<1>2. \A d \in Deployments \ torn' : Moving(d)' = Moving(d) /\ o \notin Moving(d)
  <2>1. \A d \in Deployments \ torn' : o \notin Moving(d)
    BY DEF Moving, LostMoves
  <2> QED BY <1>1, <2>1 DEF Moving
<1>3. NotShared'
  BY DEF WorkloadInv, NotShared, SharedIn
<1>4. MovesRecorded'
  BY <1>1 DEF WorkloadInv, MovesRecorded, Moved
<1>5. NotedWanted'
  BY DEF WorkloadInv, NotedWanted
<1>6. SameAccounted'
  <2> SUFFICES ASSUME NEW x \in Operators, job'[x] # Nil, job'[x].act = "same", job'[x].current,
                      job'[x].spec.ref \notin torn', Moving(job[x].spec.ref)' = {}
               PROVE  AccountedBy(job[x].status, job[x].spec.ref)'
    BY DEF SameAccounted
  <2>1. job'[x] = job[x] /\ job[x].spec.ref \in Deployments
    BY <1>1, RefTypes DEF Scaled
  <2>2. AccountedBy(job[x].status, job[x].spec.ref)
    BY <1>2, <2>1 DEF WorkloadInv, SameAccounted
  <2> QED BY <2>1, <2>2 DEF AccountedBy
<1>7. WorkloadAccounted'
  <2> SUFFICES ASSUME NEW d \in Deployments, d \notin torn'
               PROVE  /\ \A x \in Moving(d) : AccountedBy(job[x].status, d)'
                      /\ Moving(d) = {} =>
                           \A p \in Positions : d \in RefOf(api[p]) => AccountedBy(api[p].status, d)'
                      /\ Moving(d) = {} /\ (\A p \in Positions : d \notin RefOf(api[p]))
                           => replicas[d] = desired[d]
    BY <1>2 DEF WorkloadAccounted
  <2>1. \A x \in Moving(d) : job'[x] = job[x]
    BY <1>1, <1>2 DEF Moving
  <2> QED BY <2>1 DEF WorkloadInv, WorkloadAccounted, AccountedBy
<1> QED BY <1>3, <1>4, <1>5, <1>6, <1>7 DEF WorkloadInv

(* The outcomes of an update: refused, carried out but answered with an error, or
   accepted.                                                                   *)
Refused(o) ==
  /\ job'[o].act = "none"
  /\ \/ UNCHANGED <<replicas, torn>>
     \/ /\ torn' = torn \cup {job[o].spec.ref}
        /\ \A e \in Deployments \ {job[o].spec.ref} : replicas'[e] = replicas[e]

Accepted(o, d, n) ==
  /\ n \in Nat
  /\ replicas' = [replicas EXCEPT ![d] = n]
  /\ job'[o].act = IF n = replicas[d] THEN "same" ELSE "moved"
  /\ torn' = torn \cup (IF n = replicas[d] \/ job[o].current THEN {} ELSE {d})
  /\ \/ /\ ~job[o].status.paused /\ job'[o].status.paused
        /\ n = 0 /\ job'[o].status.orig = replicas[d]
     \/ /\ job[o].status.paused /\ ~job'[o].status.paused
        /\ job[o].status.orig # Nil => n = job[o].status.orig

LEMMA UpdateOutcome ==
  ASSUME TypeInv, NEW o \in Operators, Pause(o) \/ Resume(o)
  PROVE  /\ UNCHANGED <<api, desired>>
         /\ Refused(o) \/ \E n : Accepted(o, job[o].spec.ref, n)
<1> DEFINE d == job[o].spec.ref
           Goes(s, a) ==
             job' = [job EXCEPT ![o] = [job[o] EXCEPT !.at = "status", !.status = s, !.act = a]]
<1>1. job[o] \in Job /\ d \in Deployments /\ job[o].status \in Status
  BY ActionJob DEF TypeInv, Job
<1>2. ASSUME NEW s, NEW a, Goes(s, a) PROVE job'[o].status = s /\ job'[o].act = a
  BY <1>1, <1>2 DEF TypeInv, TypeOK, Job
<1>3. ASSUME NEW n \in Nat, NEW done, NEW failed, UpdateReplicas(o, n, done, failed)
      PROVE  \/ Refused(o)
             \/ /\ <<o, d>> \notin depLag
                /\ replicas' = [replicas EXCEPT ![d] = n]
                /\ Goes(done, IF n = replicas[d] THEN "same" ELSE "moved")
                /\ torn' = torn \cup (IF n = replicas[d] \/ job[o].current THEN {} ELSE {d})
  <2>1. CASE Goes(failed, "none") /\ UNCHANGED <<replicas, depLag, torn>>
    <3>1. job'[o].act = "none"
      BY <1>2, <2>1
    <3> QED BY <2>1, <3>1 DEF Refused
  <2>2. CASE /\ Goes(failed, "none")
             /\ replicas' = [replicas EXCEPT ![d] = n]
             /\ torn' = torn \cup {d}
    <3>1. job'[o].act = "none"
      BY <1>2, <2>2
    <3>2. \A e \in Deployments \ {d} : replicas'[e] = replicas[e]
      BY <2>2 DEF TypeInv, TypeOK
    <3> QED BY <2>2, <3>1, <3>2 DEF Refused
  <2> QED BY <1>3, <2>1, <2>2 DEF UpdateReplicas
<1>4. CASE Pause(o)
  <2> DEFINE noted == [job[o].status EXCEPT !.orig = depCache[o][d]]
             done == [noted EXCEPT !.paused = TRUE]
  <2>1. UpdateReplicas(o, 0, done, noted) /\ ~job[o].status.paused
    BY <1>4 DEF Pause
  <2>2. <<o, d>> \notin depLag => depCache[o][d] = replicas[d]
    BY <1>1 DEF TypeInv, CachesSound, ViewsSound
  <2>3. done.paused /\ done.orig = depCache[o][d]
    BY <1>1 DEF Status
  <2>4. UNCHANGED <<api, desired>>
    BY <2>1 DEF UpdateReplicas
  <2> HIDE DEF done, noted, Goes
  <2>5. Refused(o) \/ Accepted(o, d, 0)
    BY <1>2, <1>3, <2>1, <2>2, <2>3 DEF Accepted
  <2> QED BY <2>4, <2>5
<1>5. CASE Resume(o)
  <2> DEFINE restore == IF job[o].status.orig = Nil THEN 1 ELSE job[o].status.orig
             done == [job[o].status EXCEPT !.paused = FALSE, !.orig = Nil]
  <2>1. UpdateReplicas(o, restore, done, job[o].status) /\ job[o].status.paused
    BY <1>5 DEF Resume
  <2>2. restore \in Nat /\ (job[o].status.orig # Nil => restore = job[o].status.orig)
    BY <1>1 DEF Status
  <2>3. ~done.paused
    BY <1>1 DEF Status
  <2>4. UNCHANGED <<api, desired>>
    BY <2>1 DEF UpdateReplicas
  <2> HIDE DEF done, restore, Goes
  <2>5. Refused(o) \/ Accepted(o, d, restore)
    BY <1>2, <1>3, <2>1, <2>2, <2>3 DEF Accepted
  <2> QED BY <2>4, <2>5
<1> QED BY <1>4, <1>5

(* An update made from a current copy: nobody else's update of the Deployment is
   unrecorded, unless this one changes nothing, and the status it is about to
   write is right.                                                             *)
LEMMA CurrentUpdate ==
  ASSUME TypeInv, WorkloadInv, NEW o \in Operators, Pause(o) \/ Resume(o),
         NEW n, Accepted(o, job[o].spec.ref, n), job[o].current, job[o].spec.ref \notin torn
  PROVE  /\ job'[o].status.paused # api[job[o].pos].status.paused
         /\ n # replicas[job[o].spec.ref] => Moving(job[o].spec.ref) = {}
         /\ Moving(job[o].spec.ref) = {} =>
              IF job'[o].status.paused
              THEN n = 0 /\ job'[o].status.orig = desired[job[o].spec.ref]
              ELSE n = desired[job[o].spec.ref]
<1> DEFINE d == job[o].spec.ref
           p == job[o].pos
<1>1. /\ job[o] # Nil /\ job[o].act = "none" /\ d \in Deployments /\ d # Nil
      /\ job'[o].pos = p
  BY ActionJob, SentinelAssumption DEF TypeInv
<1>2. /\ p \in Positions /\ d \in RefOf(api[p]) /\ api[p] # Gone
      /\ job[o].status.paused = api[p].status.paused
      /\ job[o].status.paused => job[o].status.orig = api[p].status.orig
  BY <1>1, CurrentRef
<1>3. job[o].status.paused => job[o].status.orig = desired[d]
  BY <1>2 DEF WorkloadInv, NotedWanted
<1>4. desired[d] \in Nat /\ desired[d] # Nil
  BY <1>1, IdleRuleAssumption DEF TypeInv, TypeOK
<1>5. \A x \in Moving(d) : AccountedBy(job[x].status, d)
                           /\ job[x].status.paused # api[p].status.paused
  <2> TAKE x \in Moving(d)
  <2>1. x \in Operators /\ Moved(x) /\ job[x].spec.ref = d
    BY DEF Moving, Moved
  <2>2. job[x].status.paused # api[p].status.paused
    BY <1>2, <2>1, OneMover
  <2> QED BY <1>1, <2>2 DEF WorkloadInv, WorkloadAccounted
<1>6. Moving(d) = {} => AccountedBy(api[p].status, d)
  BY <1>1, <1>2 DEF WorkloadInv, WorkloadAccounted
<1>7. CASE ~job[o].status.paused /\ job'[o].status.paused
           /\ n = 0 /\ job'[o].status.orig = replicas[d]
  <2>1. Moving(d) # {} => replicas[d] = 0
    <3> SUFFICES ASSUME NEW x \in Moving(d) PROVE replicas[d] = 0
      OBVIOUS
    <3>1. job[x].status.paused
      <4>1. job[x].status \in Status /\ api[p].status \in Status
        BY <1>2, RefTypes DEF Moving
      <4> QED BY <1>2, <1>5, <1>7, <4>1 DEF Status
    <3> QED BY <1>5, <3>1 DEF AccountedBy
  <2>2. Moving(d) = {} => replicas[d] = desired[d]
    BY <1>2, <1>6, <1>7 DEF AccountedBy
  <2> QED BY <1>2, <1>7, <2>1, <2>2
<1>8. CASE job[o].status.paused /\ ~job'[o].status.paused
           /\ (job[o].status.orig # Nil => n = job[o].status.orig)
  <2>1. n = desired[d]
    BY <1>3, <1>4, <1>8
  <2>2. Moving(d) # {} => replicas[d] = desired[d]
    <3> SUFFICES ASSUME NEW x \in Moving(d) PROVE replicas[d] = desired[d]
      OBVIOUS
    <3>1. ~job[x].status.paused
      <4>1. job[x].status \in Status /\ api[p].status \in Status
        BY <1>2, RefTypes DEF Moving
      <4> QED BY <1>2, <1>5, <1>8, <4>1 DEF Status
    <3> QED BY <1>5, <3>1 DEF AccountedBy
  <2> QED BY <1>2, <1>8, <2>1, <2>2
<1> QED BY <1>7, <1>8 DEF Accepted

LEMMA WorkloadScaled ==
  ASSUME TypeInv, WorkloadInv, NEW o \in Operators, Pause(o) \/ Resume(o)
  PROVE  WorkloadInv'
<1> DEFINE d == job[o].spec.ref
<1>1. /\ job[o] # Nil /\ job'[o] # Nil /\ job[o].act = "none" /\ d \in Deployments
      /\ job'[o].spec = job[o].spec /\ job'[o].pos = job[o].pos
      /\ job'[o].current = job[o].current
      /\ \A x \in Operators \ {o} : job'[x] = job[x]
  BY ActionJob, SentinelAssumption DEF TypeInv
<1>2. UNCHANGED <<api, desired>> /\ (Refused(o) \/ \E n : Accepted(o, d, n))
  BY UpdateOutcome
<1>3. CASE Refused(o)
  <2>1. SameScalings
    BY <1>1, <1>3 DEF SameScalings, Scaled, Refused
  <2>2. SamePauses
    BY <1>2 DEF SamePauses
  <2>3. /\ torn \subseteq torn'
        /\ \A e \in Deployments \ torn' : replicas'[e] = replicas[e] /\ desired'[e] = desired[e]
    BY <1>2, <1>3 DEF Refused
  <2> QED BY <2>1, <2>2, <2>3, WorkloadKept
<1>4. ASSUME NEW n, Accepted(o, d, n) PROVE WorkloadInv'
  <2>1. /\ n \in Nat /\ replicas'[d] = n
        /\ \A e \in Deployments \ {d} : replicas'[e] = replicas[e]
        /\ n = replicas[d] => job'[o].act = "same" /\ replicas' = replicas
        /\ n # replicas[d] => job'[o].act = "moved" /\ (job[o].current \/ d \in torn')
        /\ torn \subseteq torn'
    BY <1>1, <1>4 DEF Accepted, TypeInv, TypeOK
  <2>2. job[o].current /\ d \notin torn =>
          /\ job'[o].status.paused # api'[job'[o].pos].status.paused
          /\ n # replicas[d] => Moving(d) = {}
          /\ Moving(d) = {} => AccountedBy(job[o].status, d)'
    <3>1. job[o].current /\ d \notin torn =>
          /\ job'[o].status.paused # api[job[o].pos].status.paused
          /\ n # replicas[d] => Moving(d) = {}
          /\ Moving(d) = {} => IF job'[o].status.paused
                               THEN n = 0 /\ job'[o].status.orig = desired[d]
                               ELSE n = desired[d]
      BY <1>4, CurrentUpdate
    <3> QED BY <1>1, <1>2, <2>1, <3>1 DEF AccountedBy
  <2>3. \A x \in Operators \ {o} : Moved(x)' <=> Moved(x)
    BY <1>1 DEF Moved
  <2>4. ASSUME NEW e \in Deployments, e # d \/ n = replicas[d] PROVE Moving(e)' = Moving(e)
    BY <1>1, <2>1, <2>4 DEF Moving
  <2>5. n # replicas[d] /\ Moving(d) = {} => Moving(d)' = {o}
    BY <1>1, <2>1 DEF Moving
  <2>6. NotShared'
    BY <1>2, <2>1 DEF WorkloadInv, NotShared, SharedIn
  <2>7. MovesRecorded'
    <3> SUFFICES ASSUME NEW x \in Operators, Moved(x)', job'[x].spec.ref \notin torn'
                 PROVE  /\ job'[x].current
                        /\ job'[x].status.paused # api'[job'[x].pos].status.paused
      BY DEF MovesRecorded
    <3>1. CASE x = o
      BY <1>1, <2>1, <2>2, <3>1 DEF Moved
    <3>2. CASE x # o
      BY <1>1, <1>2, <2>1, <3>2 DEF Moved, WorkloadInv, MovesRecorded
    <3> QED BY <3>1, <3>2
  <2>8. NotedWanted'
    BY <1>2, <2>1 DEF WorkloadInv, NotedWanted
  <2>9. SameAccounted'
    <3> SUFFICES ASSUME NEW x \in Operators, job'[x] # Nil, job'[x].act = "same", job'[x].current,
                        job'[x].spec.ref \notin torn', Moving(job[x].spec.ref)' = {}
                 PROVE  AccountedBy(job[x].status, job[x].spec.ref)'
      BY DEF SameAccounted
    <3>1. CASE x = o
      <4>1. n = replicas[d] /\ d \notin torn
        BY <1>1, <2>1, <3>1
      <4>2. Moving(d)' = {} /\ Moving(d) = {}
        BY <1>1, <2>4, <3>1, <4>1
      <4>3. AccountedBy(job[o].status, d)'
        BY <1>1, <2>2, <3>1, <4>1, <4>2
      <4> QED BY <1>1, <3>1, <4>3
    <3>2. CASE x # o
      <4> DEFINE e == job[x].spec.ref
      <4>1. job'[x] = job[x] /\ e \in Deployments /\ e \notin torn
        BY <1>1, <2>1, <3>2, RefTypes DEF Scaled
      <4>2. e # d \/ n = replicas[d]
        <5> SUFFICES ASSUME e = d, n # replicas[d] PROVE FALSE
          OBVIOUS
        <5>1. o \in Moving(d)'
          BY <1>1, <2>1 DEF Moving
        <5> QED BY <1>1, <4>1, <5>1 DEF Moving
      <4>3. Moving(e) = {} /\ replicas'[e] = replicas[e]
        BY <2>1, <2>4, <4>1, <4>2
      <4>4. AccountedBy(job[x].status, e)
        BY <4>1, <4>3 DEF WorkloadInv, SameAccounted
      <4> QED BY <1>2, <4>1, <4>3, <4>4 DEF AccountedBy
    <3> QED BY <3>1, <3>2
  <2>10. WorkloadAccounted'
    <3> SUFFICES ASSUME NEW e \in Deployments, e \notin torn'
                 PROVE  /\ \A x \in Moving(e)' : AccountedBy(job[x].status, e)'
                        /\ Moving(e)' = {} =>
                             \A p \in Positions : e \in RefOf(api[p]) => AccountedBy(api[p].status, e)'
                        /\ Moving(e)' = {} /\ (\A p \in Positions : e \notin RefOf(api[p]))
                             => replicas'[e] = desired'[e]
      BY <1>2 DEF WorkloadAccounted
    <3>1. CASE e # d \/ n = replicas[d]
      <4>1. Moving(e)' = Moving(e) /\ replicas'[e] = replicas[e] /\ e \notin torn
        BY <2>1, <2>4, <3>1
      <4>2. o \notin Moving(e)
        BY <1>1 DEF Moving
      <4>3. \A x \in Moving(e) : job'[x] = job[x]
        BY <1>1, <4>2 DEF Moving
      <4> QED BY <1>2, <4>1, <4>3 DEF WorkloadInv, WorkloadAccounted, AccountedBy
    <3>2. CASE e = d /\ n # replicas[d]
      BY <1>1, <2>1, <2>2, <2>5, <3>2 DEF AccountedBy
    <3> QED BY <3>1, <3>2
  <2> QED BY <2>6, <2>7, <2>8, <2>9, <2>10 DEF WorkloadInv
<1> QED BY <1>2, <1>3, <1>4

(* A write of p by someone leaves, of what is not torn by it, the reconciles of
   other positions only; gone is whoever made the write.                       *)
Survives(p, gone) ==
  /\ \A x \in Operators : Scaled(x)' => Scaled(x)
  /\ \A x \in Operators : Scaled(x) /\ x \notin gone =>
       /\ job'[x] # Nil /\ job'[x].act = job[x].act /\ job'[x].pos = job[x].pos
       /\ job'[x].spec = job[x].spec /\ job'[x].status = job[x].status
       /\ job'[x].current => job[x].current /\ job[x].pos # p
       /\ job[x].pos # p => job'[x].current = job[x].current
       /\ job[x].pos = p /\ Moved(x) => job[x].spec.ref \in torn'
  /\ \A x \in gone : job'[x] = Nil

LEMMA WriteSurvives ==
  ASSUME TypeInv, NEW p \in Positions, NEW gone \in SUBSET Operators,
         \A x \in Operators : job'[x] = IF x \in gone THEN Nil ELSE Replaced(p)[x],
         LostMoves(Working(p) \ gone) \subseteq torn'
  PROVE  Survives(p, gone)
<1> USE SentinelAssumption
<1>1. \A x \in Operators : Scaled(x)' => Scaled(x)
  <2> SUFFICES ASSUME NEW x \in Operators, Scaled(x)' PROVE Scaled(x)
    OBVIOUS
  <2>1. x \notin gone /\ job'[x] = Replaced(p)[x] /\ job'[x] # Nil /\ job'[x].act # "none"
    BY DEF Scaled
  <2>2. job[x] # Nil
    BY <2>1, ReplacedJob DEF TypeInv
  <2>3. job[x] \in Job
    BY <2>2, RefTypes
  <2>4. job'[x] = IF job[x].pos = p THEN [job[x] EXCEPT !.current = FALSE] ELSE job[x]
    BY <2>1, <2>2, ReplacedJob DEF TypeInv
  <2>5. job'[x].act = job[x].act
    BY <2>3, <2>4 DEF Job
  <2> QED BY <2>1, <2>2, <2>5 DEF Scaled
<1>2. ASSUME NEW x \in Operators, Scaled(x), x \notin gone
      PROVE  /\ job'[x] # Nil /\ job'[x].act = job[x].act /\ job'[x].pos = job[x].pos
             /\ job'[x].spec = job[x].spec /\ job'[x].status = job[x].status
             /\ job'[x].current => job[x].current /\ job[x].pos # p
             /\ job[x].pos # p => job'[x].current = job[x].current
             /\ job[x].pos = p /\ Moved(x) => job[x].spec.ref \in torn'
  <2>1. job[x] # Nil /\ job[x] \in Job
    BY <1>2, RefTypes DEF Scaled
  <2>2. /\ job'[x] # Nil
        /\ job'[x] = IF job[x].pos = p THEN [job[x] EXCEPT !.current = FALSE] ELSE job[x]
    BY <1>2, <2>1, ReplacedJob DEF TypeInv
  <2>3. job[x].pos = p /\ Moved(x) => job[x].spec.ref \in torn'
    BY <1>2, <2>1 DEF LostMoves, Working, Moved
  <2> QED BY <2>1, <2>2, <2>3 DEF Job
<1> QED BY <1>1, <1>2 DEF Survives

(* Who moved what is not torn after such a write: the same as before. *)
LEMMA SurvivingMoves ==
  ASSUME TypeInv, WorkloadInv, NEW p \in Positions, NEW gone \in SUBSET Operators,
         Survives(p, gone), torn \subseteq torn'
  PROVE  /\ \A x \in Operators : Moved(x)' =>
              x \notin gone /\ Moved(x) /\ job'[x].spec = job[x].spec
         /\ \A d \in Deployments \ torn' : Moving(d)' = Moving(d) \ gone
         /\ \A d \in Deployments \ torn' : \A x \in Moving(d) \ gone : job[x].pos # p
<1>1. \A x \in Operators : Moved(x)' =>
              x \notin gone /\ Moved(x) /\ job'[x].spec = job[x].spec
  BY DEF Survives, Moved, Scaled
<1>2. \A x \in Operators \ gone : Moved(x) => Moved(x)' /\ job'[x].spec = job[x].spec
  BY DEF Survives, Moved, Scaled
<1>3. ASSUME NEW d \in Deployments PROVE Moving(d)' = Moving(d) \ gone
  <2>1. Moving(d) = {x \in Operators : Moved(x) /\ job[x].spec.ref = d}
    BY DEF Moving, Moved
  <2>2. Moving(d)' = {x \in Operators : Moved(x)' /\ job'[x].spec.ref = d}
    BY DEF Moving, Moved
  <2> QED BY <1>1, <1>2, <2>1, <2>2
<1>4. ASSUME NEW d \in Deployments \ torn', NEW x \in Moving(d) \ gone PROVE job[x].pos # p
  <2>1. x \in Operators /\ Moved(x) /\ Scaled(x) /\ job[x].spec.ref = d
    BY DEF Moving, Moved, Scaled
  <2> QED BY <2>1 DEF Survives
<1> QED BY <1>1, <1>3, <1>4

LEMMA WrittenMoves ==
  ASSUME TypeInv, WorkloadInv, NEW p \in Positions, NEW gone \in SUBSET Operators,
         Survives(p, gone), torn \subseteq torn',
         \A q \in Positions \ {p} : api'[q] = api[q]
  PROVE  MovesRecorded'
<1> SUFFICES ASSUME NEW x \in Operators, Moved(x)', job'[x].spec.ref \notin torn'
             PROVE  /\ job'[x].current
                    /\ job'[x].status.paused # api'[job'[x].pos].status.paused
  BY DEF MovesRecorded
<1>1. x \notin gone /\ Moved(x) /\ Scaled(x) /\ job'[x].spec = job[x].spec
  BY SurvivingMoves, RefTypes
<1>2. job[x].pos # p /\ job'[x].current = job[x].current /\ job'[x].pos = job[x].pos
      /\ job'[x].status = job[x].status
  BY <1>1 DEF Survives
<1>3. job[x].current /\ job[x].status.paused # api[job[x].pos].status.paused
  BY <1>1 DEF WorkloadInv, MovesRecorded
<1>4. job[x].pos \in Positions
  BY <1>1, RefTypes DEF Scaled
<1> QED BY <1>2, <1>3, <1>4

LEMMA WrittenSame ==
  ASSUME TypeInv, WorkloadInv, NEW p \in Positions, NEW gone \in SUBSET Operators,
         Survives(p, gone), torn \subseteq torn', UNCHANGED <<replicas, desired>>,
         \A x \in gone : Moved(x) => job[x].current /\ job[x].pos = p
  PROVE  SameAccounted'
<1> SUFFICES ASSUME NEW x \in Operators, job'[x] # Nil, job'[x].act = "same", job'[x].current,
                    job'[x].spec.ref \notin torn', Moving(job[x].spec.ref)' = {}
             PROVE  AccountedBy(job[x].status, job[x].spec.ref)'
  BY DEF SameAccounted
<1>1. Scaled(x) /\ x \notin gone
  BY DEF Survives, Scaled
<1>2. /\ job[x] # Nil /\ job[x].act = "same" /\ job[x].current /\ job[x].pos # p
      /\ job'[x].spec = job[x].spec /\ job'[x].status = job[x].status
  BY <1>1 DEF Survives, Scaled
<1> DEFINE e == job[x].spec.ref
<1>3. e \in Deployments /\ e # Nil /\ e \notin torn'
  BY <1>1, <1>2, RefTypes, SentinelAssumption
<1>4. job[x].pos \in Positions /\ e \in RefOf(api[job[x].pos])
  BY <1>2, <1>3, CurrentRef
<1>5. ASSUME NEW y \in Moving(e) PROVE FALSE
  <2>1. y \in Operators /\ Moved(y) /\ job[y].spec.ref = e
    BY DEF Moving, Moved
  <2>2. y \in gone
    <3>1. y \notin gone => Moved(y)' /\ job'[y].spec.ref = e
      BY <2>1, RefTypes DEF Survives, Moved, Scaled
    <3> QED BY <1>2, <2>1, <3>1 DEF Moving, Moved
  <2>3. e \in RefOf(api[p])
    BY <1>3, <2>1, <2>2, CurrentRef DEF Moved
  <2> QED BY <1>2, <1>3, <1>4, <2>3, OneRef DEF WorkloadInv
<1>6. AccountedBy(job[x].status, e)
  BY <1>2, <1>3, <1>5 DEF WorkloadInv, SameAccounted
<1> QED BY <1>2, <1>6 DEF AccountedBy

(* What a status write leaves alone, and what it stores of the working copy. *)
LEMMA SavedStatus ==
  ASSUME TypeInv, NEW o \in Operators, SaveStatus(o)
  PROVE  /\ \A q \in Positions \ {job[o].pos} : api'[q] = api[q]
         /\ api'[job[o].pos].spec = api[job[o].pos].spec /\ api'[job[o].pos] # Gone
         /\ api'[job[o].pos].status.paused = job[o].status.paused
         /\ api'[job[o].pos].status.orig = job[o].status.orig
<1> DEFINE p == job[o].pos
           s == job[o].status
<1>1. job[o] # Nil /\ job[o].current /\ job[o] \in Job /\ p \in Positions
  BY RefTypes DEF SaveStatus, StatusAccepted, At
<1>2. api[p] # Gone
  BY <1>1 DEF TypeInv, CachesSound, CopySound
<1>3. api' = [api EXCEPT ![p].status = WrittenStatus(job[o])]
  BY DEF SaveStatus
<1>4. api[p] \in Object /\ s \in Status
  BY <1>1, <1>2, RefTypes
<1>5. api'[p] = [api[p] EXCEPT !.status = WrittenStatus(job[o])]
  BY <1>1, <1>3 DEF TypeInv, TypeOK
<1>6. /\ WrittenStatus(job[o]).paused = s.paused /\ WrittenStatus(job[o]).orig = s.orig
      /\ WrittenStatus(job[o]) \in Status
  <2>1. Money(job[o].spot) \in Int /\ job[o].available \in BOOLEAN
    BY <1>1 DEF Money, Job
  <2> QED BY <1>4, <2>1 DEF WrittenStatus, Status
<1>7. api'[p] \in Object
  BY <1>4, <1>5, <1>6 DEF Object
<1>8. \A q \in Positions \ {p} : api'[q] = api[q]
  BY <1>3 DEF TypeInv, TypeOK
<1>9. api'[p].spec = api[p].spec /\ api'[p].status = WrittenStatus(job[o])
  BY <1>4, <1>5, <1>6 DEF Object
<1> QED BY <1>6, <1>7, <1>8, <1>9, SentinelAssumption

(* What a status write is about to record agrees with the Deployment. *)
LEMMA SavedAccounted ==
  ASSUME TypeInv, WorkloadInv, NEW o \in Operators, SaveStatus(o),
         NEW d \in RefOf(api[job[o].pos]) \ torn'
  PROVE  /\ d = job[o].spec.ref /\ d \in Deployments /\ d \notin torn
         /\ AccountedBy(job[o].status, d)
<1> DEFINE p == job[o].pos
           s == job[o].status
<1>1. job[o] # Nil /\ job[o].current /\ job[o] \in Job /\ p \in Positions
  BY RefTypes DEF SaveStatus, StatusAccepted, At
<1>2. /\ api[p] # Gone /\ api[p].spec = job[o].spec
      /\ job[o].act = "none" =>
           /\ s.paused = api[p].status.paused
           /\ s.paused => s.orig = api[p].status.orig
  BY <1>1 DEF TypeInv, CachesSound, CopySound
<1>3. torn' = torn \cup LostMoves(Working(p) \ {o})
  BY DEF SaveStatus
<1>4. d = job[o].spec.ref /\ d \in Deployments /\ d \notin torn
  BY <1>1, <1>2, <1>3, RefTypes DEF RefOf
<1>5. \A x \in Moving(d) : x = o
  <2> SUFFICES ASSUME NEW x \in Moving(d), x # o PROVE FALSE
    OBVIOUS
  <2>1. x \in Operators /\ Moved(x) /\ job[x].spec.ref = d
    BY DEF Moving, Moved
  <2>2. job[x].pos = p
    BY <1>1, <1>4, <2>1, OneMover
  <2>3. d \in LostMoves(Working(p) \ {o})
    BY <2>1, <2>2 DEF LostMoves, Working, Moved
  <2> QED BY <1>3, <2>3
<1>6. CASE job[o].act = "moved"
  BY <1>1, <1>4, <1>6 DEF WorkloadInv, WorkloadAccounted, Moving
<1>7. CASE job[o].act # "moved"
  <2>1. Moving(d) = {}
    BY <1>5, <1>7 DEF Moving
  <2>2. CASE job[o].act = "same"
    BY <1>1, <1>4, <2>1, <2>2 DEF WorkloadInv, SameAccounted
  <2>3. CASE job[o].act = "none"
    <3>1. AccountedBy(api[p].status, d)
      BY <1>1, <1>4, <2>1 DEF WorkloadInv, WorkloadAccounted
    <3> QED BY <1>2, <1>4, <2>3, <3>1 DEF AccountedBy
  <2> QED BY <1>1, <1>4, <1>7, <2>2, <2>3 DEF Job
<1> QED BY <1>4, <1>6, <1>7

(* The status write records what the operator did. *)
LEMMA WorkloadSaved ==
  ASSUME TypeInv, WorkloadInv, NEW o \in Operators, SaveStatus(o)
  PROVE  WorkloadInv'
<1> DEFINE p == job[o].pos
           s == job[o].status
<1>1. job[o] # Nil /\ job[o].current /\ job[o] \in Job /\ p \in Positions
  BY RefTypes DEF SaveStatus, StatusAccepted, At
<1>2. /\ api[p] # Gone /\ api[p].spec = job[o].spec
      /\ job[o].act = "none" =>
           /\ s.paused = api[p].status.paused
           /\ s.paused => s.orig = api[p].status.orig
  BY <1>1 DEF TypeInv, CachesSound, CopySound
<1>3. /\ api' = [api EXCEPT ![p].status = WrittenStatus(job[o])]
      /\ UNCHANGED <<replicas, desired>>
      /\ torn' = torn \cup LostMoves(Working(p) \ {o})
      /\ job' = [Replaced(p) EXCEPT ![o] = Nil]
  BY DEF SaveStatus
<1>4. /\ \A q \in Positions \ {p} : api'[q] = api[q]
      /\ api'[p].spec = api[p].spec /\ api'[p] # Gone
      /\ api'[p].status.paused = s.paused /\ api'[p].status.orig = s.orig
  BY SavedStatus
<1>5. \A q \in Positions : RefOf(api'[q]) = RefOf(api[q])
  BY <1>4, <1>2 DEF RefOf
<1>6. Survives(p, {o})
  <2>1. \A x \in Operators : job'[x] = IF x \in {o} THEN Nil ELSE Replaced(p)[x]
    BY <1>3 DEF Replaced
  <2> QED BY <1>1, <1>3, <2>1, WriteSurvives
<1>7. torn \subseteq torn' /\ \A d \in Deployments \ torn' : Moving(d)' = Moving(d) \ {o}
  <2>1. torn \subseteq torn'
    BY <1>3
  <2> QED BY <1>1, <1>6, <2>1, SurvivingMoves
<1>8. Moved(o) => job[o].current /\ job[o].pos = p
  BY <1>1
<1>9. NotShared'
  BY <1>5, <1>7 DEF WorkloadInv, NotShared, SharedIn
<1>10. MovesRecorded'
  BY <1>1, <1>4, <1>6, <1>7, WrittenMoves
<1>11. SameAccounted'
  BY <1>1, <1>3, <1>6, <1>7, <1>8, WrittenSame
<1>12. ASSUME NEW d \in RefOf(api[p]) \ torn'
       PROVE  AccountedBy(s, d) /\ (s.paused => s.orig = desired[d])
  BY SavedAccounted DEF AccountedBy
<1>13. NotedWanted'
  <2> SUFFICES ASSUME NEW q \in Positions, NEW d \in RefOf(api'[q]) \ torn', api'[q].status.paused
               PROVE  api'[q].status.orig = desired'[d]
    BY DEF NotedWanted
  <2>1. CASE q = p
    BY <1>3, <1>4, <1>5, <1>12, <2>1
  <2>2. CASE q # p
    BY <1>3, <1>4, <1>7, <2>2 DEF WorkloadInv, NotedWanted
  <2> QED BY <2>1, <2>2
<1>14. WorkloadAccounted'
  <2> SUFFICES ASSUME NEW d \in Deployments, d \notin torn'
               PROVE  /\ \A x \in Moving(d)' : AccountedBy(job[x].status, d)'
                      /\ Moving(d)' = {} =>
                           \A q \in Positions : d \in RefOf(api[q]) => AccountedBy(api[q].status, d)'
                      /\ Moving(d)' = {} /\ (\A q \in Positions : d \notin RefOf(api[q]))
                           => replicas[d] = desired[d]
    BY <1>3, <1>5 DEF WorkloadAccounted
  <2>1. Moving(d)' = Moving(d) \ {o} /\ d \notin torn
    BY <1>7
  <2>2. ASSUME NEW x \in Moving(d)' PROVE AccountedBy(job[x].status, d)'
    <3>1. x \in Moving(d) /\ x \in Operators /\ x # o /\ Scaled(x)
      BY <2>1 DEF Moving, Scaled
    <3>2. job'[x].status = job[x].status
      BY <1>6, <3>1 DEF Survives
    <3> QED BY <1>3, <2>1, <3>1, <3>2 DEF WorkloadInv, WorkloadAccounted, AccountedBy
  <2>3. o \in Moving(d) => d \in RefOf(api[p])
    BY <1>1, CurrentRef, SentinelAssumption DEF Moving
  <2>4. ASSUME Moving(d)' = {}, NEW q \in Positions, d \in RefOf(api[q])
        PROVE  AccountedBy(api[q].status, d)'
    <3>1. CASE q = p
      <4>1. AccountedBy(s, d)
        BY <1>12, <2>4, <3>1
      <4> QED BY <1>3, <1>4, <3>1, <4>1 DEF AccountedBy
    <3>2. CASE q # p
      <4>1. Moving(d) = {}
        BY <1>1, <2>1, <2>3, <2>4, <3>2, OneRef DEF WorkloadInv
      <4>2. AccountedBy(api[q].status, d)
        BY <2>1, <2>4, <4>1 DEF WorkloadInv, WorkloadAccounted
      <4> QED BY <1>3, <1>4, <3>2, <4>2 DEF AccountedBy
    <3> QED BY <3>1, <3>2
  <2>5. Moving(d)' = {} /\ (\A q \in Positions : d \notin RefOf(api[q])) => replicas[d] = desired[d]
    BY <1>1, <2>1, <2>3 DEF WorkloadInv, WorkloadAccounted
  <2> QED BY <2>2, <2>4, <2>5
<1> QED BY <1>9, <1>10, <1>11, <1>13, <1>14 DEF WorkloadInv

(* A user's write: what the position then refers to goes on with the same pause or
   starts without one, and what it no longer refers to is left without one.    *)
LEMMA WorkloadWritten ==
  ASSUME TypeInv, WorkloadInv, NEW p \in Positions, NEW x, NEW broken,
         WritePosition(p, x, broken),
         \A d \in RefOf(x) \ broken :
           IF d \in RefOf(api[p])
           THEN x.status.paused = api[p].status.paused /\ x.status.orig = api[p].status.orig
           ELSE ~x.status.paused,
         \A d \in RefOf(api[p]) \ (RefOf(x) \cup broken) : ~api[p].status.paused
  PROVE  WorkloadInv'
<1>1. /\ api'[p] = x /\ \A q \in Positions \ {p} : api'[q] = api[q]
      /\ UNCHANGED <<replicas, desired>>
      /\ torn' = torn \cup broken \cup LostMoves(Working(p)) \cup SharedIn(api')
      /\ job' = Replaced(p)
  BY DEF WritePosition, TypeInv, TypeOK
<1>2. Survives(p, {})
  <2>1. \A y \in Operators : job'[y] = IF y \in {} THEN Nil ELSE Replaced(p)[y]
    BY <1>1
  <2>2. LostMoves(Working(p) \ {}) \subseteq torn'
    <3>1. Working(p) \ {} = Working(p)
      OBVIOUS
    <3> QED BY <1>1, <3>1
  <2> QED BY <2>1, <2>2, WriteSurvives
<1>3. torn \subseteq torn' /\ broken \subseteq torn'
  BY <1>1
<1>4. \A d \in Deployments \ torn' : Moving(d)' = Moving(d)
  <2>1. \A d \in Deployments \ torn' : Moving(d)' = Moving(d) \ {}
    BY <1>2, <1>3, SurvivingMoves
  <2> QED BY <2>1
<1>5. NotShared'
  BY <1>1 DEF NotShared
<1>6. MovesRecorded'
  BY <1>1, <1>2, <1>3, WrittenMoves
<1>7. SameAccounted'
  BY <1>1, <1>2, <1>3, WrittenSame
<1>8. NotedWanted'
  <2> SUFFICES ASSUME NEW q \in Positions, NEW d \in RefOf(api'[q]) \ torn', api'[q].status.paused
               PROVE  api'[q].status.orig = desired'[d]
    BY DEF NotedWanted
  <2>1. CASE q = p
    BY <1>1, <1>3, <2>1 DEF WorkloadInv, NotedWanted
  <2>2. CASE q # p
    BY <1>1, <1>3, <2>2 DEF WorkloadInv, NotedWanted
  <2> QED BY <2>1, <2>2
<1>9. WorkloadAccounted'
  <2> SUFFICES ASSUME NEW d \in Deployments, d \notin torn'
               PROVE  /\ \A y \in Moving(d)' : AccountedBy(job[y].status, d)'
                      /\ Moving(d)' = {} =>
                           \A q \in Positions : d \in RefOf(api'[q]) => AccountedBy(api[q].status, d)'
                      /\ Moving(d)' = {} /\ (\A q \in Positions : d \notin RefOf(api'[q]))
                           => replicas'[d] = desired'[d]
    BY DEF WorkloadAccounted
  <2>1. Moving(d)' = Moving(d) /\ d \notin torn
    BY <1>3, <1>4
  <2>2. ASSUME NEW y \in Moving(d)' PROVE AccountedBy(job[y].status, d)'
    <3>1. y \in Moving(d) /\ y \in Operators /\ Scaled(y)
      BY <2>1 DEF Moving, Scaled
    <3>2. job'[y].status = job[y].status
      BY <1>2, <3>1 DEF Survives
    <3> QED BY <1>1, <2>1, <3>1, <3>2 DEF WorkloadInv, WorkloadAccounted, AccountedBy
  <2>3. ASSUME NEW q \in Positions, d \in RefOf(api'[q]), q # p
        PROVE  d \in RefOf(api[q]) /\ d \notin RefOf(x)
    <3>1. d \in RefOf(api[q])
      BY <1>1, <2>3
    <3>2. d \notin RefOf(x)
      BY <1>1, <2>3 DEF SharedIn
    <3> QED BY <3>1, <3>2
  <2>4. ASSUME Moving(d) = {}, NEW q \in Positions, d \in RefOf(api'[q])
        PROVE  AccountedBy(api[q].status, d)'
    <3>1. CASE q # p
      <4>1. AccountedBy(api[q].status, d)
        BY <2>1, <2>3, <2>4, <3>1 DEF WorkloadInv, WorkloadAccounted
      <4> QED BY <1>1, <3>1, <4>1 DEF AccountedBy
    <3>2. CASE q = p /\ d \in RefOf(api[p])
      <4>1. AccountedBy(api[p].status, d)
        BY <2>1, <2>4, <3>2 DEF WorkloadInv, WorkloadAccounted
      <4>2. x.status.paused = api[p].status.paused /\ x.status.orig = api[p].status.orig
        BY <1>1, <1>3, <2>4, <3>2
      <4> QED BY <1>1, <3>2, <4>1, <4>2 DEF AccountedBy
    <3>3. CASE q = p /\ d \notin RefOf(api[p])
      <4>1. \A r \in Positions : d \notin RefOf(api[r])
        BY <1>1, <2>3, <2>4, <3>3
      <4>2. replicas[d] = desired[d]
        BY <2>1, <2>4, <4>1 DEF WorkloadInv, WorkloadAccounted
      <4>3. ~x.status.paused
        BY <1>1, <1>3, <2>4, <3>3
      <4> QED BY <1>1, <3>3, <4>2, <4>3 DEF AccountedBy
    <3> QED BY <3>1, <3>2, <3>3
  <2>5. ASSUME Moving(d) = {}, \A q \in Positions : d \notin RefOf(api'[q])
        PROVE  replicas'[d] = desired'[d]
    <3>1. CASE d \in RefOf(api[p])
      <4>1. AccountedBy(api[p].status, d)
        BY <2>1, <2>5, <3>1 DEF WorkloadInv, WorkloadAccounted
      <4>2. ~api[p].status.paused
        BY <1>1, <1>3, <2>5, <3>1
      <4> QED BY <1>1, <4>1, <4>2 DEF AccountedBy
    <3>2. CASE d \notin RefOf(api[p])
      <4>1. \A q \in Positions : d \notin RefOf(api[q])
        BY <1>1, <2>5, <3>2
      <4> QED BY <1>1, <2>1, <2>5, <4>1 DEF WorkloadInv, WorkloadAccounted
    <3> QED BY <3>1, <3>2
  <2> QED BY <2>1, <2>2, <2>4, <2>5
<1> QED BY <1>5, <1>6, <1>7, <1>8, <1>9 DEF WorkloadInv

(* A user scales: while it is paused that is torn, else nobody accounts for the
   Deployment but by what the user wants.                                      *)
LEMMA WorkloadScaledByUser ==
  ASSUME TypeInv, WorkloadInv, NEW d \in Deployments, NEW n \in ReplicaCounts,
         ScaleWorkload(d, n)
  PROVE  WorkloadInv'
<1>1. /\ UNCHANGED <<api, job>>
      /\ replicas'[d] = n /\ desired'[d] = n
      /\ \A e \in Deployments \ {d} : replicas'[e] = replicas[e] /\ desired'[e] = desired[e]
  BY DEF ScaleWorkload, TypeInv, TypeOK
<1>2. CASE d \in torn'
  <2>1. SameScalings /\ SamePauses
    BY <1>1 DEF SameScalings, SamePauses, Scaled
  <2>2. \A e \in Deployments \ torn' : replicas'[e] = replicas[e] /\ desired'[e] = desired[e]
    BY <1>1, <1>2
  <2>3. torn \subseteq torn'
    BY <1>2 DEF ScaleWorkload
  <2> QED BY <1>1, <2>1, <2>2, <2>3, WorkloadKept
<1>3. CASE d \notin torn'
  <2>1. /\ torn' = torn \ {d} /\ d \notin SharedIn(api)
        /\ \A p \in Positions : d \in RefOf(api[p]) => ~api[p].status.paused
        /\ \A o \in Operators : Scaled(o) => job[o].spec.ref # d
    <3>1. SharedIn(api) \subseteq torn
      BY DEF WorkloadInv, NotShared
    <3>2. ~(\/ \E p \in Positions : d \in RefOf(api[p]) /\ api[p].status.paused
            \/ \E o \in Operators : job[o] # Nil /\ job[o].act # "none" /\ job[o].spec.ref = d)
      BY <1>3 DEF ScaleWorkload
    <3>3. torn' = torn \ ({d} \ SharedIn(api))
      BY <3>2 DEF ScaleWorkload
    <3>4. d \notin SharedIn(api)
      BY <1>3, <3>1, <3>3
    <3> HIDE DEF SharedIn, RefOf
    <3> QED BY <3>2, <3>3, <3>4 DEF Scaled
  <2>2. \A e \in Deployments : Moving(e)' = Moving(e)
    BY <1>1 DEF Moving
  <2>3. Moving(d) = {}
    BY <2>1 DEF Moving, Scaled
  <2>4. NotShared' /\ MovesRecorded'
    <3>1. NotShared'
      BY <1>1, <2>1 DEF WorkloadInv, NotShared, SharedIn
    <3>2. \A o \in Operators : Moved(o) => job[o].spec.ref # d
      BY <2>1 DEF Scaled, Moved
    <3> QED BY <1>1, <2>1, <3>1, <3>2 DEF WorkloadInv, MovesRecorded, Moved
  <2>5. NotedWanted'
    <3> SUFFICES ASSUME NEW p \in Positions, NEW e \in RefOf(api[p]) \ torn', api[p].status.paused
                 PROVE  api[p].status.orig = desired'[e]
      BY <1>1 DEF NotedWanted
    <3>1. e # d /\ e \in Deployments /\ e \notin torn
      BY <2>1, RefTypes
    <3> QED BY <1>1, <3>1 DEF WorkloadInv, NotedWanted
  <2>6. SameAccounted'
    <3> SUFFICES ASSUME NEW o \in Operators, job[o] # Nil, job[o].act = "same", job[o].current,
                        job[o].spec.ref \notin torn', Moving(job[o].spec.ref)' = {}
                 PROVE  AccountedBy(job[o].status, job[o].spec.ref)'
      BY <1>1 DEF SameAccounted
    <3>1. /\ job[o].spec.ref \in Deployments /\ job[o].spec.ref # d
          /\ job[o].spec.ref \notin torn
      BY <2>1, RefTypes DEF Scaled
    <3>2. AccountedBy(job[o].status, job[o].spec.ref)
      BY <1>1, <2>2, <3>1 DEF WorkloadInv, SameAccounted, Moving
    <3> QED BY <1>1, <3>1, <3>2 DEF AccountedBy
  <2>7. WorkloadAccounted'
    <3> SUFFICES ASSUME NEW e \in Deployments, e \notin torn'
                 PROVE  /\ \A o \in Moving(e) : AccountedBy(job[o].status, e)'
                        /\ Moving(e) = {} =>
                             \A p \in Positions : e \in RefOf(api[p]) => AccountedBy(api[p].status, e)'
                        /\ Moving(e) = {} /\ (\A p \in Positions : e \notin RefOf(api[p]))
                             => replicas'[e] = desired'[e]
      BY <1>1, <2>2 DEF WorkloadAccounted
    <3>1. CASE e = d
      BY <1>1, <2>1, <2>3, <3>1 DEF AccountedBy
    <3>2. CASE e # d
      BY <1>1, <2>1, <3>2 DEF WorkloadInv, WorkloadAccounted, AccountedBy
    <3> QED BY <3>1, <3>2
  <2> QED BY <2>4, <2>5, <2>6, <2>7 DEF WorkloadInv
<1> QED BY <1>2, <1>3

(* The steps that have nothing to do with a pause. *)
Quiet ==
  \/ \E o \in Operators :
       \/ \E p \in Positions : Observe(o, p) \/ SyncPosition(o, p)
       \/ HandleMarketplace(o) \/ NoAction(o)
       \/ \E d \in Deployments : SyncDeployment(o, d)
  \/ \E d \in Deployments : TouchWorkload(d)
  \/ Tick \/ Settle \/ UNCHANGED vars

LEMMA QuietStep ==
  ASSUME TypeInv, Quiet
  PROVE  SameScalings /\ SamePauses /\ UNCHANGED <<replicas, desired, torn>>
<1> USE SentinelAssumption
<1>1. TypeOK /\ StepsInOrder
  BY DEF TypeInv
<1>2. ASSUME NEW o \in Operators, NEW p \in Positions, Observe(o, p)
      PROVE  SameScalings /\ SamePauses /\ UNCHANGED <<replicas, desired, torn>>
  <2>1. /\ job[o] = Nil /\ job'[o].act = "none"
        /\ \A x \in Operators \ {o} : job'[x] = job[x]
    BY <1>1, <1>2, ObservedJob
  <2>2. SameScalings
    BY <2>1 DEF SameScalings, Scaled
  <2> QED BY <1>2, <2>2 DEF Observe, SamePauses, store, history
<1>3. ASSUME NEW o \in Operators, HandleMarketplace(o) \/ NoAction(o)
      PROVE  SameScalings /\ SamePauses /\ UNCHANGED <<replicas, desired, torn>>
  <2>1. /\ job[o] \in Job /\ job'[o] \in Job
        /\ job'[o].act = job[o].act /\ job'[o].spec = job[o].spec
        /\ job'[o].pos = job[o].pos /\ job'[o].status = job[o].status
        /\ job'[o].current = job[o].current
        /\ \A x \in Operators \ {o} : job'[x] = job[x]
    BY <1>1, <1>3, MarketJob
  <2>2. SameScalings
    BY <2>1 DEF SameScalings, Scaled
  <2>3. UNCHANGED <<api, replicas, desired, torn>>
    BY <1>3 DEF HandleMarketplace, KeepOffer, FlipOffer, MarketplaceError, NoAction, store, history
  <2> QED BY <2>2, <2>3 DEF SamePauses
<1>4. ASSUME Tick PROVE SameScalings /\ SamePauses /\ UNCHANGED <<replicas, desired, torn>>
  <2>1. \A s \in Status : Older(s).paused = s.paused /\ Older(s).orig = s.orig
    BY DEF Older, Status
  <2>2. SameScalings
    <3>1. \A x \in Operators : job[x] # Nil => job[x] \in Job
      BY <1>1 DEF TypeOK
    <3>2. ASSUME NEW x \in Operators, job[x] # Nil
          PROVE  /\ job'[x] # Nil /\ job'[x].act = job[x].act /\ job'[x].pos = job[x].pos
                 /\ job'[x].spec = job[x].spec /\ job'[x].current = job[x].current
                 /\ job'[x].status.paused = job[x].status.paused
                 /\ job'[x].status.orig = job[x].status.orig
      <4>1. job[x] \in Job /\ job'[x] = [job[x] EXCEPT !.status = Older(job[x].status)]
        BY <1>4, <3>1, <3>2 DEF Tick
      <4>2. job[x].status \in Status /\ Older(job[x].status) \in Status
        BY <4>1, ReconcilerAssumption DEF Older, Status, Job
      <4>3. job'[x] \in Job /\ job'[x].status = Older(job[x].status)
        BY <4>1, <4>2 DEF Job
      <4> QED BY <2>1, <4>1, <4>2, <4>3 DEF Job
    <3>3. ASSUME NEW x \in Operators, job[x] = Nil PROVE job'[x] = Nil
      BY <1>4, <3>3 DEF Tick
    <3> QED BY <3>2, <3>3 DEF SameScalings, Scaled
  <2>3. SamePauses
    <3>1. \A y \in Object :
            LET z == OlderObject(y)
            IN  /\ z # Gone /\ z.spec = y.spec
                /\ z.status.paused = y.status.paused /\ z.status.orig = y.status.orig
      <4>1. ASSUME NEW y \in Object PROVE /\ OlderObject(y) \in Object /\ OlderObject(y).spec = y.spec
                                          /\ OlderObject(y).status = Older(y.status)
        <5>1. Older(y.status) \in Status /\ y # Gone
          BY ReconcilerAssumption DEF Older, Status, Object
        <5> QED BY <5>1 DEF OlderObject, Object
      <4> QED BY <2>1, <4>1 DEF Object
    <3>2. \A p \in Positions : api'[p] = OlderObject(api[p])
      BY <1>4 DEF Tick
    <3>3. OlderObject(Gone) = Gone
      BY DEF OlderObject
    <3> QED BY <1>1, <3>1, <3>2, <3>3 DEF SamePauses, TypeOK
  <2> QED BY <1>4, <2>2, <2>3 DEF Tick, history
<1>5. ASSUME UNCHANGED <<api, replicas, desired, torn, job>>
      PROVE  SameScalings /\ SamePauses /\ UNCHANGED <<replicas, desired, torn>>
  BY <1>5 DEF SameScalings, SamePauses, Scaled
<1> QED BY <1>2, <1>3, <1>4, <1>5
        DEF Quiet, SyncPosition, SyncDeployment, TouchWorkload, Settle, vars, store, posView, history

LEMMA WorkloadNext == TypeInv /\ WorkloadInv /\ [Next]_vars => WorkloadInv'
<1> SUFFICES ASSUME TypeInv, TypeOK, StepsInOrder, WorkloadInv, [Next]_vars PROVE WorkloadInv'
  BY DEF TypeInv
<1> USE SentinelAssumption
<1>1. ASSUME Quiet PROVE WorkloadInv'
  BY <1>1, QuietStep, WorkloadKept
<1>2. ASSUME NEW o \in Operators, Pause(o) \/ Resume(o) PROVE WorkloadInv'
  BY <1>2, WorkloadScaled
<1>3. ASSUME NEW o \in Operators, SaveStatus(o) PROVE WorkloadInv'
  BY <1>3, WorkloadSaved
<1>4. ASSUME NEW o \in Operators, LoseStatus(o) \/ Restart(o) PROVE WorkloadInv'
  <2>1. /\ job' = [job EXCEPT ![o] = Nil] /\ UNCHANGED <<api, replicas, desired>>
        /\ torn \subseteq torn' /\ (job[o] # Nil => LostMoves({o}) \subseteq torn')
    BY <1>4 DEF LoseStatus, Restart, store
  <2> QED BY <2>1, WorkloadLost
<1>5. ASSUME NEW p \in Positions, NEW s \in Specs[p], EditPosition(p, s) PROVE WorkloadInv'
  <2> DEFINE x == [api[p] EXCEPT !.spec = s]
             broken == IF api[p].status.paused /\ s.ref # api[p].spec.ref
                       THEN {api[p].spec.ref, s.ref} \ {Nil} ELSE {}
  <2>1. WritePosition(p, x, broken) /\ api[p] \in Object
    BY <1>5 DEF EditPosition, TypeOK
  <2>2. s \in PositionSpec
    BY ReconcilerAssumption
  <2>3. x \in Object /\ x.spec = s /\ x.status = api[p].status
    BY <2>1, <2>2 DEF Object
  <2>4. RefOf(x) = {s.ref} \ {Nil} /\ RefOf(api[p]) = {api[p].spec.ref} \ {Nil}
    BY <2>1, <2>3 DEF RefOf
  <2>5. \A d \in RefOf(x) \ broken :
          IF d \in RefOf(api[p])
          THEN x.status.paused = api[p].status.paused /\ x.status.orig = api[p].status.orig
          ELSE ~x.status.paused
    BY <2>3, <2>4
  <2>6. \A d \in RefOf(api[p]) \ (RefOf(x) \cup broken) : ~api[p].status.paused
    BY <2>4
  <2> HIDE DEF x, broken
  <2> QED BY <2>1, <2>5, <2>6, WorkloadWritten
<1>6. ASSUME NEW p \in Positions, NEW s \in Specs[p], CreatePosition(p, s) PROVE WorkloadInv'
  <2> DEFINE x == [spec |-> s, status |-> NewStatus]
  <2>1. WritePosition(p, x, {}) /\ RefOf(api[p]) = {}
    BY <1>6 DEF CreatePosition, RefOf
  <2>2. ~x.status.paused
    BY DEF NewStatus
  <2> HIDE DEF x
  <2> QED BY <2>1, <2>2, WorkloadWritten
<1>7. ASSUME NEW p \in Positions, DeletePosition(p) PROVE WorkloadInv'
  <2> DEFINE broken == IF api[p].status.paused THEN RefOf(api[p]) ELSE {}
  <2>1. WritePosition(p, Gone, broken) /\ RefOf(Gone) = {}
    BY <1>7 DEF DeletePosition, RefOf
  <2>2. \A d \in RefOf(api[p]) \ (RefOf(Gone) \cup broken) : ~api[p].status.paused
    OBVIOUS
  <2> HIDE DEF broken
  <2> QED BY <2>1, <2>2, WorkloadWritten
<1> QED BY <1>1, <1>2, <1>3, <1>4, <1>5, <1>6, <1>7, WorkloadScaledByUser
        DEF Next, Operator, Environment, ApplyOptionalAction, UpdateStatus, Quiet

(* A workload that was scaled down is accounted for: whatever operators, users,
   crashes, conflicts and failing calls do, a Deployment that no lost record tore
   has the replicas its user wants, or none and the wanted ones noted in the
   status that resumes it.                                                     *)
THEOREM WorkloadCorrect == Spec => []WorkloadAccounted
<1>1. WorkloadInv => WorkloadAccounted
  BY DEF WorkloadInv
<1> QED BY <1>1, WorkloadInit, WorkloadNext, TypeInvariance, PTL DEF Spec

(* Who scaled and still has a current copy is about to change the stored pause. *)
FlipRecorded ==
  \A o \in Operators :
    Scaled(o) /\ job[o].current => job[o].status.paused # api[job[o].pos].status.paused

(* What the copies of the others say after a write of p. *)
LEMMA FlipWritten ==
  ASSUME TypeInv, FlipRecorded, NEW p \in Positions, NEW gone \in SUBSET Operators,
         Survives(p, gone), \A q \in Positions \ {p} : api'[q] = api[q]
  PROVE  FlipRecorded'
<1> SUFFICES ASSUME NEW x \in Operators, Scaled(x)', job'[x].current
             PROVE  job'[x].status.paused # api'[job'[x].pos].status.paused
  BY DEF FlipRecorded
<1>1. Scaled(x) /\ x \notin gone
  BY DEF Survives, Scaled
<1>2. /\ job[x].current /\ job[x].pos # p /\ job[x].pos \in Positions
      /\ job'[x].pos = job[x].pos /\ job'[x].status = job[x].status
  BY <1>1, RefTypes DEF Survives, Scaled
<1> QED BY <1>1, <1>2 DEF FlipRecorded

LEMMA FlipNext == TypeInv /\ FlipRecorded /\ [Next]_vars => FlipRecorded'
<1> SUFFICES ASSUME TypeInv, FlipRecorded, [Next]_vars PROVE FlipRecorded'
  OBVIOUS
<1> USE SentinelAssumption
<1>1. ASSUME SameScalings, SamePauses PROVE FlipRecorded'
  <2> SUFFICES ASSUME NEW o \in Operators, Scaled(o)', job'[o].current
               PROVE  job'[o].status.paused # api'[job'[o].pos].status.paused
    BY DEF FlipRecorded
  <2>1. /\ Scaled(o) /\ job[o] # Nil /\ job[o].current /\ job'[o].pos = job[o].pos
        /\ job'[o].status.paused = job[o].status.paused
    BY <1>1 DEF SameScalings, Scaled
  <2>2. api[job[o].pos] # Gone /\ job[o].pos \in Positions
    BY <2>1, CurrentRef, RefTypes
  <2> QED BY <1>1, <2>1, <2>2 DEF SamePauses, FlipRecorded
<1>2. ASSUME NEW o \in Operators, Pause(o) \/ Resume(o) PROVE FlipRecorded'
  <2>1. /\ job[o] # Nil /\ job[o].act = "none" /\ job[o].spec.ref # Nil
        /\ job'[o].current = job[o].current /\ job'[o].pos = job[o].pos
        /\ \A x \in Operators \ {o} : job'[x] = job[x]
    BY <1>2, ActionJob DEF TypeInv
  <2>2. api' = api /\ (Refused(o) \/ \E n : Accepted(o, job[o].spec.ref, n))
    BY <1>2, UpdateOutcome
  <2>3. Scaled(o)' /\ job'[o].current => job'[o].status.paused # api[job[o].pos].status.paused
    BY <2>1, <2>2, CurrentRef DEF Refused, Accepted, Scaled
  <2> QED BY <2>1, <2>2, <2>3 DEF FlipRecorded, Scaled
<1>3. ASSUME NEW o \in Operators, SaveStatus(o) PROVE FlipRecorded'
  <2> DEFINE p == job[o].pos
  <2>1. p \in Positions
    BY <1>3, RefTypes DEF SaveStatus, At
  <2>2. Survives(p, {o})
    <3>1. \A x \in Operators : job'[x] = IF x \in {o} THEN Nil ELSE Replaced(p)[x]
      BY <1>3 DEF SaveStatus, Replaced
    <3>2. LostMoves(Working(p) \ {o}) \subseteq torn'
      BY <1>3 DEF SaveStatus
    <3> QED BY <2>1, <3>1, <3>2, WriteSurvives
  <2>3. \A q \in Positions \ {p} : api'[q] = api[q]
    BY <1>3 DEF SaveStatus, TypeInv, TypeOK
  <2> QED BY <2>1, <2>2, <2>3, FlipWritten
<1>4. ASSUME NEW o \in Operators, LoseStatus(o) \/ Restart(o) PROVE FlipRecorded'
  <2>1. /\ job'[o] = Nil /\ api' = api
        /\ \A x \in Operators \ {o} : job'[x] = job[x]
    BY <1>4 DEF LoseStatus, Restart, store, TypeInv, TypeOK
  <2> QED BY <2>1 DEF FlipRecorded, Scaled
<1>5. ASSUME NEW p \in Positions, NEW y, NEW broken, WritePosition(p, y, broken) PROVE FlipRecorded'
  <2>1. Survives(p, {})
    <3>1. \A x \in Operators : job'[x] = IF x \in {} THEN Nil ELSE Replaced(p)[x]
      BY <1>5 DEF WritePosition
    <3>2. LostMoves(Working(p) \ {}) \subseteq torn'
      <4>1. Working(p) \ {} = Working(p)
        OBVIOUS
      <4> QED BY <1>5, <4>1 DEF WritePosition
    <3> QED BY <3>1, <3>2, WriteSurvives
  <2>2. \A q \in Positions \ {p} : api'[q] = api[q]
    BY <1>5 DEF WritePosition, TypeInv, TypeOK
  <2> QED BY <2>1, <2>2, FlipWritten
<1>6. ASSUME NEW d \in Deployments, NEW n \in ReplicaCounts, ScaleWorkload(d, n) PROVE FlipRecorded'
  BY <1>6 DEF ScaleWorkload, FlipRecorded, Scaled
<1>7. ASSUME Quiet PROVE FlipRecorded'
  BY <1>1, <1>7, QuietStep
<1> QED BY <1>2, <1>3, <1>4, <1>5, <1>6, <1>7
        DEF Next, Operator, Environment, ApplyOptionalAction, UpdateStatus, Quiet,
            EditPosition, CreatePosition, DeletePosition

(* Only the status write of the operator that resumed ends a recorded pause. *)
LEMMA RestoreStep ==
  ASSUME TypeInv, WorkloadInv, FlipRecorded, [Next]_vars,
         NEW p \in Positions, api[p] # Gone, api'[p] # Gone, api[p].status.paused
  PROVE  \/ /\ api'[p].status.paused
            /\ api'[p].status.orig = api[p].status.orig
         \/ /\ ~api'[p].status.paused
            /\ \A d \in RefOf(api[p]) \ torn' : replicas[d] = api[p].status.orig
<1> USE SentinelAssumption
<1>1. CASE SamePauses
  BY <1>1 DEF SamePauses
<1>2. ASSUME NEW o \in Operators, SaveStatus(o), job[o].pos = p
      PROVE  \/ /\ api'[p].status.paused
                /\ api'[p].status.orig = api[p].status.orig
             \/ /\ ~api'[p].status.paused
                /\ \A d \in RefOf(api[p]) \ torn' : replicas[d] = api[p].status.orig
  <2>1. job[o] # Nil /\ job[o] \in Job /\ job[o].current /\ job[o].status \in Status
    BY <1>2, RefTypes DEF SaveStatus, StatusAccepted, At
  <2>2. /\ api'[p].status.paused = job[o].status.paused
        /\ api'[p].status.orig = job[o].status.orig
    BY <1>2, SavedStatus
  <2>3. CASE job[o].act = "none"
    BY <1>2, <2>1, <2>2, <2>3 DEF TypeInv, CachesSound, CopySound
  <2>4. CASE job[o].act # "none"
    <3>1. job[o].status.paused # api[p].status.paused
      BY <1>2, <2>1, <2>4 DEF FlipRecorded, Scaled
    <3>2. ~job[o].status.paused
      <4>1. api[p].status \in Status
        BY RefTypes
      <4> QED BY <2>1, <3>1, <4>1 DEF Status
    <3>3. ASSUME NEW d \in RefOf(api[p]) \ torn' PROVE replicas[d] = api[p].status.orig
      <4>1. AccountedBy(job[o].status, d) /\ d \notin torn
        BY <1>2, <3>3, SavedAccounted
      <4>2. api[p].status.orig = desired[d]
        BY <3>3, <4>1 DEF WorkloadInv, NotedWanted
      <4> QED BY <3>2, <4>1, <4>2 DEF AccountedBy
    <3> QED BY <2>2, <3>2, <3>3
  <2> QED BY <2>3, <2>4
<1>3. ASSUME NEW o \in Operators, SaveStatus(o), job[o].pos # p PROVE api'[p] = api[p]
  BY <1>3 DEF SaveStatus, TypeInv, TypeOK
<1>4. ASSUME NEW q \in Positions, NEW s \in Specs[q], EditPosition(q, s)
      PROVE  api'[p].status = api[p].status
  BY <1>4, RefTypes DEF EditPosition, WritePosition, TypeInv, TypeOK, Object
<1>5. ASSUME NEW q \in Positions, NEW s \in Specs[q], CreatePosition(q, s) PROVE api'[p] = api[p]
  BY <1>5 DEF CreatePosition, WritePosition, TypeInv, TypeOK
<1>6. ASSUME NEW q \in Positions, DeletePosition(q) PROVE api'[p] = api[p]
  BY <1>6 DEF DeletePosition, WritePosition, TypeInv, TypeOK
<1>7. ASSUME NEW o \in Operators, Pause(o) \/ Resume(o) PROVE api' = api
  BY <1>7, UpdateOutcome
<1>8. ASSUME NEW o \in Operators, LoseStatus(o) \/ Restart(o) PROVE api' = api
  BY <1>8 DEF LoseStatus, Restart, store
<1>9. ASSUME NEW d \in Deployments, NEW n \in ReplicaCounts, ScaleWorkload(d, n) PROVE api' = api
  BY <1>9 DEF ScaleWorkload
<1>10. CASE Quiet
  BY <1>1, <1>10, QuietStep
<1> QED BY <1>2, <1>3, <1>4, <1>5, <1>6, <1>7, <1>8, <1>9, <1>10
        DEF Next, Operator, Environment, ApplyOptionalAction, UpdateStatus, Quiet

(* A pause is never forgotten: a status write that records a resume follows an
   update that brought back the noted replicas, and nothing else ends a pause of
   a position that lives on.                                                   *)
THEOREM ResumeCorrect == Spec => ResumeRestoresNoted
<1>1. Init => FlipRecorded
  BY DEF Init, FlipRecorded, Scaled
<1>2. TypeInv /\ WorkloadInv /\ FlipRecorded /\ [Next]_vars =>
        [\A p \in Positions :
           api[p] # Gone /\ api'[p] # Gone /\ api[p].status.paused
           => \/ /\ api'[p].status.paused
                 /\ api'[p].status.orig = api[p].status.orig
              \/ /\ ~api'[p].status.paused
                 /\ \A d \in RefOf(api[p]) \ torn' : replicas[d] = api[p].status.orig]_vars
  BY RestoreStep
<1> QED BY <1>1, <1>2, WorkloadInit, WorkloadNext, FlipNext, TypeInvariance, PTL
        DEF Spec, ResumeRestoresNoted

(* What the bookkeeping makes of a Deployment that is not torn: up with what the
   user wants, or down with this noted.                                        *)
NotesPause(d) == \E s \in Bookkeeping(d) : s.paused

UpOrDown ==
  \A d \in Deployments \ torn :
    /\ Workload(d) # Gone /\ Workload(d).wanted = desired[d]
    /\ NotesPause(d) => Workload(d) = Workloads!Down(desired[d])
    /\ ~NotesPause(d) => Workload(d) = Workloads!Up(desired[d])
    /\ NotesPause(d) <=> Workload(d).noted # {}

LEMMA WorkloadShape == TypeInv /\ WorkloadInv => UpOrDown
<1> SUFFICES ASSUME TypeInv, WorkloadInv, NEW d \in Deployments, d \notin torn
             PROVE  /\ Workload(d) # Gone /\ Workload(d).wanted = desired[d]
                    /\ NotesPause(d) => Workload(d) = Workloads!Down(desired[d])
                    /\ ~NotesPause(d) => Workload(d) = Workloads!Up(desired[d])
                    /\ NotesPause(d) <=> Workload(d).noted # {}
  BY DEF UpOrDown
<1>1. \A s \in Bookkeeping(d) : AccountedBy(s, d)
  BY DEF WorkloadInv, WorkloadAccounted, Bookkeeping
<1>2. Bookkeeping(d) = {} => replicas[d] = desired[d]
  BY DEF WorkloadInv, WorkloadAccounted, Bookkeeping
<1>3. desired[d] \in Nat /\ replicas[d] \in Nat
  BY DEF TypeInv, TypeOK
<1> DEFINE noted == {s.orig : s \in {t \in Bookkeeping(d) : t.paused}}
<1>4. Workload(d) = [wanted |-> desired[d], running |-> replicas[d], noted |-> noted]
  BY DEF Workload
<1>5. CASE NotesPause(d)
  <2>1. replicas[d] = 0 /\ noted = {desired[d]}
    BY <1>1, <1>5 DEF AccountedBy, NotesPause
  <2> HIDE DEF noted
  <2>2. Workload(d) = Workloads!Down(desired[d])
    BY <1>4, <2>1 DEF Workloads!Down
  <2> QED BY <1>3, <1>4, <1>5, <2>1, <2>2, SentinelAssumption
<1>6. CASE ~NotesPause(d)
  <2>1. noted = {}
    BY <1>6 DEF NotesPause
  <2>2. replicas[d] = desired[d]
    BY <1>1, <1>2, <1>6 DEF AccountedBy, NotesPause
  <2> HIDE DEF noted
  <2>3. Workload(d) = Workloads!Up(desired[d])
    BY <1>4, <2>1, <2>2 DEF Workloads!Up
  <2> QED BY <1>3, <1>4, <1>6, <2>1, <2>3, SentinelAssumption
<1> QED BY <1>5, <1>6

(* Only a user mends what is torn, and only in ScaleWorkload a wish changes. *)
LEMMA TornStays ==
  ASSUME TypeInv, [Next]_vars
  PROVE  \/ torn \subseteq torn' /\ desired' = desired
         \/ \E d \in Deployments, n \in ReplicaCounts : ScaleWorkload(d, n)
<1>1. ASSUME Quiet PROVE torn' = torn /\ desired' = desired
  BY <1>1, QuietStep
<1>2. ASSUME NEW o \in Operators, Pause(o) \/ Resume(o)
      PROVE  torn \subseteq torn' /\ desired' = desired
  BY <1>2, UpdateOutcome DEF Refused, Accepted
<1>3. ASSUME NEW o \in Operators, SaveStatus(o) \/ LoseStatus(o) \/ Restart(o)
      PROVE  torn \subseteq torn' /\ desired' = desired
  BY <1>3 DEF SaveStatus, LoseStatus, Restart
<1>4. ASSUME NEW p \in Positions, NEW x, NEW broken, WritePosition(p, x, broken)
      PROVE  torn \subseteq torn' /\ desired' = desired
  BY <1>4 DEF WritePosition
<1> QED BY <1>1, <1>2, <1>3, <1>4
        DEF Next, Operator, Environment, ApplyOptionalAction, UpdateStatus, Quiet,
            EditPosition, CreatePosition, DeletePosition

(* A user scales a Deployment and does not tear it: no pause is noted, then or now. *)
LEMMA ScaledUp ==
  ASSUME TypeInv, NEW d \in Deployments, NEW n \in ReplicaCounts, ScaleWorkload(d, n),
         d \notin torn'
  PROVE  ~NotesPause(d) /\ ~NotesPause(d)'
<1>1. /\ \A p \in Positions : d \in RefOf(api[p]) => ~api[p].status.paused
      /\ \A o \in Operators : Scaled(o) => job[o].spec.ref # d
      /\ UNCHANGED <<api, job>>
  BY DEF ScaleWorkload, Scaled
<1>2. Moving(d) = {}
  BY <1>1 DEF Moving, Scaled
<1> QED BY <1>1, <1>2 DEF NotesPause, Bookkeeping, Moving

LEMMA PausesInit == Init => Workloads!Init
<1> SUFFICES ASSUME Init, NEW d \in Deployments
             PROVE  Workload(d) = Gone \/ Workload(d) = Workloads!Up(Workload(d).wanted)
  BY DEF Workloads!Init
<1>1. TypeInv /\ WorkloadInv
  BY TypeInit, WorkloadInit
<1>2. ~NotesPause(d)
  <2>1. api \in [Positions -> [spec: UNION {Specs[p] : p \in Positions}, status: {NewStatus}]]
    BY DEF Init
  <2>2. \A p \in Positions : ~api[p].status.paused
    BY <2>1 DEF NewStatus
  <2>3. Moving(d) = {}
    BY DEF Init, Moving
  <2> QED BY <2>2, <2>3 DEF NotesPause, Bookkeeping
<1> QED BY <1>1, <1>2, WorkloadShape DEF Workload, UpOrDown

LEMMA PausesNext ==
  ASSUME TypeInv, UpOrDown, UpOrDown', [Next]_vars
  PROVE  Workloads!Next
<1> SUFFICES ASSUME NEW d \in Deployments
             PROVE  \/ Workloads!Pause(d) \/ Workloads!Resume(d) \/ Workloads!Scale(d)
                    \/ Workloads!Break(d) \/ Workloads!Repair(d) \/ Workloads!Stay(d)
  BY DEF Workloads!Next
<1>1. CASE d \in torn'
  BY <1>1 DEF Workload, Workloads!Break
<1>2. ASSUME NEW e \in Deployments, NEW n \in ReplicaCounts, ScaleWorkload(e, n), d \notin torn',
             d \in torn \/ desired'[d] # desired[d]
      PROVE  ~NotesPause(d) /\ ~NotesPause(d)'
  <2>1. e = d
    BY <1>2 DEF ScaleWorkload, TypeInv, TypeOK
  <2> QED BY <1>2, <2>1, ScaledUp
<1>3. ASSUME d \notin torn'
      PROVE  /\ Workload(d)' # Gone /\ Workload(d)'.wanted = desired'[d]
             /\ NotesPause(d)' => Workload(d)' = Workloads!Down(desired'[d])
             /\ ~NotesPause(d)' => Workload(d)' = Workloads!Up(desired'[d])
  BY <1>3 DEF UpOrDown
<1>4. CASE d \notin torn' /\ d \in torn
  <2>1. PICK e \in Deployments, n \in ReplicaCounts : ScaleWorkload(e, n)
    BY <1>4, TornStays
  <2>2. ~NotesPause(d)'
    BY <1>2, <1>4, <2>1
  <2>3. Workload(d) = Gone
    BY <1>4 DEF Workload
  <2> QED BY <1>3, <1>4, <2>2, <2>3 DEF Workloads!Repair
<1>5. CASE d \notin torn' /\ d \notin torn
  <2>1. /\ Workload(d) # Gone /\ Workload(d).wanted = desired[d]
        /\ NotesPause(d) => Workload(d) = Workloads!Down(desired[d])
        /\ ~NotesPause(d) => Workload(d) = Workloads!Up(desired[d])
        /\ NotesPause(d) <=> Workload(d).noted # {}
    BY <1>5 DEF UpOrDown
  <2>2. CASE desired'[d] = desired[d]
    BY <1>3, <1>5, <2>1, <2>2 DEF Workloads!Pause, Workloads!Resume, Workloads!Stay
  <2>3. CASE desired'[d] # desired[d]
    <3>1. PICK e \in Deployments, n \in ReplicaCounts : ScaleWorkload(e, n)
      BY <2>3, TornStays
    <3>2. ~NotesPause(d) /\ ~NotesPause(d)'
      BY <1>2, <1>5, <2>3, <3>1
    <3> QED BY <1>3, <1>5, <2>1, <3>2 DEF Workloads!Scale
  <2> QED BY <2>2, <2>3
<1> QED BY <1>1, <1>4, <1>5

(* The controller implements PauseResume: seen through its bookkeeping a pause and
   a resume are one step each, whatever comes between update and status write.  *)
THEOREM PausesCorrect == Spec => PausesAtOnce
<1> DEFINE workload == [d \in Deployments |-> Workload(d)]
<1>1. /\ TypeInv /\ UpOrDown /\ UpOrDown' /\ [Next]_vars
      => [Workloads!Next]_workload
  BY PausesNext
<1> QED BY <1>1, PausesInit, WorkloadShape, WorkloadInit, WorkloadNext, TypeInvariance, PTL
        DEF Spec, PausesAtOnce, Workloads!Spec
===============================================================================
