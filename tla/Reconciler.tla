------------------------------ MODULE Reconciler ------------------------------
(* The ComputePosition controller with what it works on: the position objects
   and Deployments in the API server, the operator's informer caches of both,
   the marketplace, the price and utilization feeds, and the users.

   Each operator process reconciles one position at a time (the manager's
   default), in the steps where it touches something shared: it reads position
   and feeds, calls the marketplace, updates the Deployment, writes the status.
   Anything may happen between two steps.

   - A resourceVersion is compared, never read, so the model keeps who is behind
     instead of a number: posLag and depLag hold the cached copies that the API
     server has replaced, job.current says that the copy a reconcile works on
     still is the stored one.  A write from a copy that is behind conflicts.
   - The Deployment is read from the cache and updated at once in one action: a
     change in between leaves the same outcome as a copy that was behind.
   - Timestamps are ages, see IdleRule.  Prices are in mills (USD / 1000); the
     status stores them rounded to cents.
   - The feeds answer anything in PriceAnswers and UtilAnswers at each read.
     Once the environment has settled they repeat one answer and nothing
     disturbs the operator any more; the liveness properties speak of that.    *)
EXTENDS IdleRule, FiniteSets

CONSTANTS
  Operators,      \* running operator processes; there is no leader election
  Positions,      \* names a ComputePosition may have
  Deployments,    \* the Deployments that exist
  Specs,          \* Specs[p]: the specs users give position p
  ReplicaCounts,  \* the replicas users give a Deployment
  PriceAnswers,   \* what the price feed may answer: NoAnswer or [usd, old]
  UtilAnswers,    \* what the utilization feed may answer: NoAnswer, NaN or %
  SettledPrices,  \* the answers the feeds may settle on; none: they never do
  SettledUtils,
  MaxAge,         \* an age is not told apart beyond this one
  Disturbances,   \* what may go wrong or be changed by others, see Disturbance
  Gone,           \* an object that does not exist
  NoAnswer        \* a feed that fails

(* crash: an operator stops anywhere and starts again.  edit, delete: users
   edit, delete and create positions.  scale: users scale Deployments.  touch:
   others write to a Deployment and leave its replicas.  statusError,
   workloadError, marketError: a call fails, its effect perhaps made.          *)
Disturbance == { "crash", "edit", "delete", "scale", "touch",
                 "statusError", "workloadError", "marketError" }

PositionSpec ==
  [ hedgeParses: BOOLEAN, critical: BOOLEAN, enableActions: BOOLEAN,
    maxSpot: Nat \cup {Nil},          \* Nil: absent or not a number
    ref: Deployments \cup {Nil},
    idleThreshold: Nat, idleWindow: Nat ]

(* The fields the controller reads back; the others are derived on each write. *)
Status ==
  [ spot: Int \cup {Nil}, available: BOOLEAN, idle: Nat \cup {Nil},
    paused: BOOLEAN, orig: Nat \cup {Nil} ]

NewStatus ==
  [ spot |-> Nil, available |-> FALSE, idle |-> Nil, paused |-> FALSE, orig |-> Nil ]

Object == [spec: PositionSpec, status: Status]

(* A reconcile under way: the next step, its working copy of the position, the
   price it read, the flag it computed, what it has done, and whether its copy
   still is the stored one.                                                    *)
Job ==
  [ at: {"market", "action", "status"}, pos: Positions, spec: PositionSpec,
    status: Status, spot: Int, stale: BOOLEAN, available: BOOLEAN,
    call: {"none", "done", "failed"},  \* to the marketplace
    act: {"none", "same", "moved"},    \* update accepted: replicas kept, changed
    current: BOOLEAN ]

ASSUME ReconcilerAssumption ==
  /\ MaxAge \in Nat
  /\ ReplicaCounts \subseteq Nat
  /\ Specs \in [Positions -> SUBSET PositionSpec]
  /\ \A p \in Positions : \A s \in Specs[p] : Window(s) <= MaxAge
  /\ PriceAnswers \subseteq [usd: Int, old: BOOLEAN] \cup {NoAnswer}
  /\ UtilAnswers \subseteq Int \cup {NaN, NoAnswer}
  /\ SettledPrices \subseteq PriceAnswers
  /\ SettledUtils \subseteq UtilAnswers
  /\ Disturbances \subseteq Disturbance

(* The sentinels differ from what they stand in for. *)
ASSUME SentinelAssumption ==
  /\ Gone \notin Object \cup [wanted: Nat, running: Nat, noted: SUBSET Nat]
  /\ Nil \notin Deployments \cup Job \cup [price: SettledPrices, util: SettledUtils]

VARIABLES
  api,         \* position objects in the API server: Object or Gone
  replicas,    \* spec.replicas of the Deployments in the API server
  offers,      \* positions with a listing in the marketplace
  posCache, posLag,   \* informer caches of positions, and the copies behind
  depCache, depLag,   \* the same for Deployments (replicas)
  job,         \* the reconcile each operator works on, or Nil
  settled,     \* Nil, or the answers the feeds repeat from now on
  \* what only the properties read:
  desired,     \* the replicas the user wants each Deployment to have
  opted,       \* Deployments some stored spec ever opted in
  torn,        \* Deployments whose bookkeeping a fault or another writer broke,
               \* until a user scales them by hand
  tornOffers   \* the same for the listings of positions, until a clean flip

store == <<api, replicas, offers>>
posView == <<posCache, posLag>>
depView == <<depCache, depLag>>
history == <<desired, opted, torn, tornOffers>>
vars == <<store, posView, depView, job, settled, history>>

-------------------------------------------------------------------------------
(* What the operator computes. *)

(* money: %.2f, so a stored price is rounded to the cent. *)
Money(mills) == 10 * ((mills + 5) \div 10)

(* The guards of applyOptionalAction. *)
Eligible(spec) ==
  /\ spec.enableActions /\ spec.ref # Nil /\ ~spec.critical
  /\ spec.maxSpot # Nil /\ spec.maxSpot > 0

SpikeAbove(spec, spot) == spot > spec.maxSpot

RecoveredBelow(spec, spot) == 100 * spot <= 98 * spec.maxSpot

(* The two conditions of applyOptionalAction at this price. *)
NothingToDo(spec, s, spot) ==
  Eligible(spec) =>
    /\ SpikeAbove(spec, spot) => s.paused
    /\ RecoveredBelow(spec, spot) => ~s.paused

(* Mutant of PriceKnown: the last price is used although there is none. *)
PriceKnownUnchecked(price, status) == TRUE

(* A price, or the last one in the status to fall back to. *)
PriceKnown(price, status) == price # NoAnswer \/ status.spot # Nil

(* Mutant of WrittenStatus: built anew, without the fields of a pause. *)
WrittenStatusAnew(j) ==
  [NewStatus EXCEPT !.spot = Money(j.spot), !.available = j.available, !.idle = j.status.idle]

(* The status a reconcile writes: writeStatus on its working copy. *)
WrittenStatus(j) == [j.status EXCEPT !.spot = Money(j.spot), !.available = j.available]

(* The feeds: after the environment settled, always the same answer. *)
PriceFeed == IF settled = Nil THEN PriceAnswers ELSE {settled.price}

UtilFeed == IF settled = Nil THEN UtilAnswers ELSE {settled.util}

May(d) == settled = Nil /\ d \in Disturbances

-------------------------------------------------------------------------------
(* Bookkeeping of the model: who works on what, and what a lost write breaks.  *)

At(o, step) == job[o] # Nil /\ job[o].at = step

Working(p) == {o \in Operators : job[o] # Nil /\ job[o].pos = p}

(* A write to position p replaces the copy of everyone else who works on it. *)
Replaced(p) ==
  [o \in Operators |-> IF o \in Working(p) THEN [job[o] EXCEPT !.current = FALSE] ELSE job[o]]

(* What operators ops have done and will not record: their status write fails.
   A call made from a copy that is behind broke the listing at once.           *)
LostMoves(ops) == {job[o].spec.ref : o \in {x \in ops : job[x].act = "moved"}}

LostCalls(ops) == {job[o].pos : o \in {x \in ops : job[x].current /\ job[x].call # "none"}}

RefOf(x) == IF x = Gone THEN {} ELSE {x.spec.ref} \ {Nil}

SharedIn(a) == {d \in Deployments : \E p, q \in Positions :
                  p # q /\ d \in RefOf(a[p]) \cap RefOf(a[q])}

OptedBy(x) == {d \in RefOf(x) : Eligible(x.spec)}

-------------------------------------------------------------------------------
(* The operator. *)

(* Reconcile up to the marketplace: the cached position, both feeds, the idle
   rule.  A hedged price that does not parse, no utilization, or neither a price
   nor a last known one: the reconcile ends here and changes nothing.          *)
Observe(o, p) ==
  /\ job[o] = Nil
  /\ posCache[o][p] # Gone
  /\ LET seen == posCache[o][p] IN
     /\ seen.spec.hedgeParses
     /\ \E util \in UtilFeed \ {NoAnswer}, price \in PriceFeed :
          LET idle == EvaluateIdle(seen.spec, seen.status, util) IN
          /\ PriceKnown(price, seen.status)
          /\ job' = [job EXCEPT ![o] =
               [ at |-> "market", pos |-> p, spec |-> seen.spec,
                 status |-> [seen.status EXCEPT !.idle = idle.idle],
                 spot |-> IF price = NoAnswer THEN seen.status.spot ELSE price.usd,
                 stale |-> price = NoAnswer \/ price.old,
                 available |-> idle.available,
                 call |-> "none", act |-> "none",
                 current |-> <<o, p>> \notin posLag ]]
  /\ UNCHANGED <<store, posView, depView, settled, history>>

(* The flag did not flip: no call. *)
KeepOffer(o) ==
  /\ At(o, "market")
  /\ job[o].available = job[o].status.available
  /\ job' = [job EXCEPT ![o].at = "action"]
  /\ UNCHANGED <<store, posView, depView, settled, history>>

(* Mutant of Listed: withdrawing does nothing. *)
ListedForGood(j) == offers \cup {j.pos}

(* What the marketplace lists once the call of j is carried out. *)
Listed(j) == IF j.available THEN offers \cup {j.pos} ELSE offers \ {j.pos}

(* The flag flipped: PublishSupply or WithdrawSupply, with success.  From a copy
   that is current this also repairs what earlier calls left.                  *)
FlipOffer(o) ==
  LET j == job[o] IN
  /\ At(o, "market")
  /\ j.available # j.status.available
  /\ offers' = Listed(j)
  /\ tornOffers' = IF j.current THEN tornOffers \ {j.pos} ELSE tornOffers \cup {j.pos}
  /\ job' = [job EXCEPT ![o].at = "action", ![o].call = "done"]
  /\ UNCHANGED <<api, replicas, posView, depView, settled, desired, opted, torn>>

(* The call fails, perhaps after the marketplace has carried it out: an event is
   emitted and the reconcile goes on.                                          *)
MarketplaceError(o) ==
  LET j == job[o] IN
  /\ May("marketError")
  /\ At(o, "market")
  /\ j.available # j.status.available
  /\ offers' \in {offers, Listed(j)}
  /\ tornOffers' = tornOffers \cup {j.pos}
  /\ job' = [job EXCEPT ![o].at = "action", ![o].call = "failed"]
  /\ UNCHANGED <<api, replicas, posView, depView, settled, desired, opted, torn>>

(* applyOptionalAction returns before it updates anything: not opted in, nothing
   to do at this price, or the Deployment cannot be read.                      *)
NoAction(o) ==
  LET j == job[o] IN
  /\ At(o, "action")
  /\ \/ NothingToDo(j.spec, j.status, j.spot)
     \/ Eligible(j.spec) /\ May("workloadError")
  /\ job' = [job EXCEPT ![o].at = "status"]
  /\ UNCHANGED <<store, posView, depView, settled, history>>

(* r.Update of the Deployment with n replicas: accepted, and the status becomes
   done; or refused, because the cached copy is behind or for another failure,
   and it becomes failed; or carried out although the caller is told it failed.
   An update that changes nothing is accepted and leaves the version.          *)
UpdateReplicas(o, n, done, failed) ==
  LET d == job[o].spec.ref
      Write == /\ <<o, d>> \notin depLag
               /\ replicas' = [replicas EXCEPT ![d] = n]
               /\ depLag' = IF n = replicas[d] THEN depLag
                            ELSE depLag \cup (Operators \X {d})
      Goes(status, act) ==
        job' = [job EXCEPT ![o] =
                  [job[o] EXCEPT !.at = "status", !.status = status, !.act = act]]
  IN  /\ \/ /\ Write
            /\ Goes(done, IF n = replicas[d] THEN "same" ELSE "moved")
            /\ torn' = torn \cup (IF n = replicas[d] \/ job[o].current THEN {} ELSE {d})
         \/ /\ <<o, d>> \in depLag \/ May("workloadError")
            /\ Goes(failed, "none")
            /\ UNCHANGED <<replicas, depLag, torn>>
         \/ /\ May("workloadError")
            /\ Write
            /\ Goes(failed, "none")
            /\ torn' = torn \cup {d}
      /\ UNCHANGED <<api, offers, posView, depCache, settled, desired, opted, tornOffers>>

(* Mutants of Pause: the replicas noted after they are overwritten, Paused set
   before the update, and the priority not looked at.                          *)
PauseNotesZero(o) ==
  LET j == job[o]
      noted == [j.status EXCEPT !.orig = 0]
  IN  /\ At(o, "action")
      /\ Eligible(j.spec)
      /\ SpikeAbove(j.spec, j.spot) /\ ~j.status.paused
      /\ UpdateReplicas(o, 0, [noted EXCEPT !.paused = TRUE], noted)

PauseMarkedFirst(o) ==
  LET j == job[o]
      marked == [j.status EXCEPT !.orig = depCache[o][j.spec.ref], !.paused = TRUE]
  IN  /\ At(o, "action")
      /\ Eligible(j.spec)
      /\ SpikeAbove(j.spec, j.spot) /\ ~j.status.paused
      /\ UpdateReplicas(o, 0, marked, marked)

PauseAnyPriority(o) ==
  LET j == job[o]
      noted == [j.status EXCEPT !.orig = depCache[o][j.spec.ref]]
  IN  /\ At(o, "action")
      /\ Eligible([j.spec EXCEPT !.critical = FALSE])
      /\ SpikeAbove(j.spec, j.spot) /\ ~j.status.paused
      /\ UpdateReplicas(o, 0, [noted EXCEPT !.paused = TRUE], noted)

(* A spike: scale to zero.  OriginalReplicas is set before the update, Paused
   only after its success.                                                     *)
Pause(o) ==
  LET j == job[o]
      noted == [j.status EXCEPT !.orig = depCache[o][j.spec.ref]]
  IN  /\ At(o, "action")
      /\ Eligible(j.spec)
      /\ SpikeAbove(j.spec, j.spot) /\ ~j.status.paused
      /\ UpdateReplicas(o, 0, [noted EXCEPT !.paused = TRUE], noted)

(* Mutants of Resume: the noted replicas not used, or cleared before the update. *)
ResumeToOne(o) ==
  LET j == job[o] IN
  /\ At(o, "action")
  /\ Eligible(j.spec)
  /\ RecoveredBelow(j.spec, j.spot) /\ j.status.paused
  /\ UpdateReplicas(o, 1, [j.status EXCEPT !.paused = FALSE, !.orig = Nil], j.status)

ResumeClearsFirst(o) ==
  LET j == job[o]
      restore == IF j.status.orig = Nil THEN 1 ELSE j.status.orig
      cleared == [j.status EXCEPT !.orig = Nil]
  IN  /\ At(o, "action")
      /\ Eligible(j.spec)
      /\ RecoveredBelow(j.spec, j.spot) /\ j.status.paused
      /\ UpdateReplicas(o, restore, [cleared EXCEPT !.paused = FALSE], cleared)

(* The price is back under 98% of the cap: restore what was noted, or one. *)
Resume(o) ==
  LET j == job[o]
      restore == IF j.status.orig = Nil THEN 1 ELSE j.status.orig
  IN  /\ At(o, "action")
      /\ Eligible(j.spec)
      /\ RecoveredBelow(j.spec, j.spot) /\ j.status.paused
      /\ UpdateReplicas(o, restore,
                        [j.status EXCEPT !.paused = FALSE, !.orig = Nil], j.status)

(* Mutant of StatusAccepted: a patch, which sends no version. *)
StatusPatched(o) == TRUE

(* Status().Update sends the version it read, and the API server compares it. *)
StatusAccepted(o) == job[o].current

(* writeStatus and Status().Update from a copy that is current. *)
SaveStatus(o) ==
  LET p == job[o].pos
      others == Working(p) \ {o}
  IN  /\ At(o, "status")
      /\ StatusAccepted(o)
      /\ api' = [api EXCEPT ![p].status = WrittenStatus(job[o])]
      /\ posLag' = posLag \cup (Operators \X {p})
      /\ job' = [Replaced(p) EXCEPT ![o] = Nil]
      /\ torn' = torn \cup LostMoves(others)
      /\ tornOffers' = tornOffers \cup LostCalls(others)
      /\ UNCHANGED <<replicas, offers, posCache, depView, settled, desired, opted>>

(* Status().Update fails: a conflict, an object that is gone, or an API error.
   The reconcile is retried from the start, nothing it did is undone.          *)
LoseStatus(o) ==
  /\ At(o, "status")
  /\ ~StatusAccepted(o) \/ May("statusError")
  /\ job' = [job EXCEPT ![o] = Nil]
  /\ torn' = torn \cup LostMoves({o})
  /\ tornOffers' = tornOffers \cup LostCalls({o})
  /\ UNCHANGED <<store, posView, depView, settled, desired, opted>>

(* The watch brings one cached copy up to date. *)
SyncPosition(o, p) ==
  /\ <<o, p>> \in posLag
  /\ posCache' = [posCache EXCEPT ![o][p] = api[p]]
  /\ posLag' = posLag \ {<<o, p>>}
  /\ UNCHANGED <<store, depView, job, settled, history>>

SyncDeployment(o, d) ==
  /\ <<o, d>> \in depLag
  /\ depCache' = [depCache EXCEPT ![o][d] = replicas[d]]
  /\ depLag' = depLag \ {<<o, d>>}
  /\ UNCHANGED <<store, posView, job, settled, history>>

(* The process stops anywhere and a new one lists everything before it works. *)
Restart(o) ==
  /\ May("crash")
  /\ job' = [job EXCEPT ![o] = Nil]
  /\ posCache' = [posCache EXCEPT ![o] = api]
  /\ posLag' = {x \in posLag : x[1] # o}
  /\ depCache' = [depCache EXCEPT ![o] = replicas]
  /\ depLag' = {x \in depLag : x[1] # o}
  /\ torn' = torn \cup IF job[o] = Nil THEN {} ELSE LostMoves({o})
  /\ tornOffers' = tornOffers \cup IF job[o] = Nil THEN {} ELSE LostCalls({o})
  /\ UNCHANGED <<store, settled, desired, opted>>

-------------------------------------------------------------------------------
(* Users and everything else. *)

(* A write to position p by a user makes it x; broken are the Deployments whose
   bookkeeping it cuts.                                                        *)
WritePosition(p, x, broken) ==
  /\ api' = [api EXCEPT ![p] = x]
  /\ posLag' = posLag \cup (Operators \X {p})
  /\ job' = Replaced(p)
  /\ opted' = opted \cup OptedBy(x)
  /\ torn' = torn \cup broken \cup LostMoves(Working(p)) \cup SharedIn(api')
  /\ UNCHANGED <<replicas, offers, posCache, depView, settled, desired>>

(* An edit of the spec or, with the same spec, of the metadata.  Pointing a
   paused position elsewhere leaves the old workload down.                     *)
EditPosition(p, s) ==
  /\ May("edit")
  /\ api[p] # Gone
  /\ WritePosition(p, [api[p] EXCEPT !.spec = s],
       IF api[p].status.paused /\ s.ref # api[p].spec.ref
       THEN {api[p].spec.ref, s.ref} \ {Nil} ELSE {})
  /\ tornOffers' = tornOffers \cup LostCalls(Working(p))

(* There is no finalizer: the workload stays paused, the listing stays posted. *)
DeletePosition(p) ==
  /\ May("delete")
  /\ api[p] # Gone
  /\ WritePosition(p, Gone, IF api[p].status.paused THEN RefOf(api[p]) ELSE {})
  /\ tornOffers' = tornOffers \cup LostCalls(Working(p))
                              \cup (IF api[p].status.available THEN {p} ELSE {})

CreatePosition(p, s) ==
  /\ May("delete")
  /\ api[p] = Gone
  /\ WritePosition(p, [spec |-> s, status |-> NewStatus], {})
  /\ tornOffers' = tornOffers \cup LostCalls(Working(p))

(* A user, or an autoscaler, scales a Deployment.  Doing so while it is paused
   is overruled by the next resume; else it repairs what was lost before.      *)
ScaleWorkload(d, n) ==
  LET pausedHere ==
        \/ \E p \in Positions : d \in RefOf(api[p]) /\ api[p].status.paused
        \/ \E o \in Operators : job[o] # Nil /\ job[o].act # "none" /\ job[o].spec.ref = d
  IN  /\ May("scale")
      /\ n # replicas[d]
      /\ replicas' = [replicas EXCEPT ![d] = n]
      /\ desired' = [desired EXCEPT ![d] = n]
      /\ depLag' = depLag \cup (Operators \X {d})
      /\ torn' = IF pausedHere THEN torn \cup {d} ELSE torn \ ({d} \ SharedIn(api))
      /\ UNCHANGED <<api, offers, posView, depCache, job, settled, opted, tornOffers>>

(* The Deployment controller, or a rollout, writes something else. *)
TouchWorkload(d) ==
  /\ May("touch")
  /\ depLag' = depLag \cup (Operators \X {d})
  /\ UNCHANGED <<store, posView, depCache, job, settled, history>>

Older(s) == IF s.idle = Nil \/ s.idle = MaxAge THEN s ELSE [s EXCEPT !.idle = s.idle + 1]

OlderObject(x) == IF x = Gone THEN x ELSE [x EXCEPT !.status = Older(x.status)]

(* Time passes: every IdleSince, stored, cached or in a working copy, ages. *)
Tick ==
  /\ api' = [p \in Positions |-> OlderObject(api[p])]
  /\ posCache' = [o \in Operators |-> [p \in Positions |-> OlderObject(posCache[o][p])]]
  /\ job' = [o \in Operators |->
               IF job[o] = Nil THEN Nil ELSE [job[o] EXCEPT !.status = Older(job[o].status)]]
  /\ UNCHANGED <<replicas, offers, posLag, depView, settled, history>>

(* From here on the feeds repeat one answer and nothing disturbs the operator. *)
Settle ==
  /\ settled = Nil
  /\ \E answer \in [price: SettledPrices, util: SettledUtils] : settled' = answer
  /\ UNCHANGED <<store, posView, depView, job, history>>

-------------------------------------------------------------------------------
Init ==
  /\ api \in {a \in [Positions -> [spec: UNION {Specs[p] : p \in Positions}, status: {NewStatus}]] :
                \A p \in Positions : a[p].spec \in Specs[p]}
  /\ replicas \in [Deployments -> ReplicaCounts]
  /\ offers = {}
  /\ posCache = [o \in Operators |-> api]
  /\ depCache = [o \in Operators |-> replicas]
  /\ posLag = {}
  /\ depLag = {}
  /\ job = [o \in Operators |-> Nil]
  /\ settled = Nil
  /\ desired = replicas
  /\ opted = UNION {OptedBy(api[p]) : p \in Positions}
  /\ torn = SharedIn(api)
  /\ tornOffers = {}

HandleMarketplace(o) == KeepOffer(o) \/ FlipOffer(o) \/ MarketplaceError(o)

ApplyOptionalAction(o) == NoAction(o) \/ Pause(o) \/ Resume(o)

UpdateStatus(o) == SaveStatus(o) \/ LoseStatus(o)

Operator(o) ==
  \/ \E p \in Positions : Observe(o, p) \/ SyncPosition(o, p)
  \/ HandleMarketplace(o) \/ ApplyOptionalAction(o) \/ UpdateStatus(o)
  \/ \E d \in Deployments : SyncDeployment(o, d)
  \/ Restart(o)

Environment ==
  \/ \E p \in Positions : \/ \E s \in Specs[p] : EditPosition(p, s) \/ CreatePosition(p, s)
                          \/ DeletePosition(p)
  \/ \E d \in Deployments : \/ \E n \in ReplicaCounts : ScaleWorkload(d, n)
                            \/ TouchWorkload(d)
  \/ Tick
  \/ Settle

Next == (\E o \in Operators : Operator(o)) \/ Environment

Spec == Init /\ [][Next]_vars

(* The workqueue serves every key again and again (RequeueAfter, or the back-off
   of a conflict or an error), every call returns, watches deliver, time passes.
   The queue alternates between keys, hence the strong fairness of Observe.    *)
Fairness ==
  /\ \A o \in Operators :
       /\ WF_vars(HandleMarketplace(o))
       /\ WF_vars(ApplyOptionalAction(o))
       /\ WF_vars(UpdateStatus(o))
       /\ \A p \in Positions : SF_vars(Observe(o, p)) /\ WF_vars(SyncPosition(o, p))
       /\ \A d \in Deployments : WF_vars(SyncDeployment(o, d))
  /\ WF_vars(Tick)

FairSpec == Spec /\ Fairness
-------------------------------------------------------------------------------
TypeOK ==
  /\ api \in [Positions -> Object \cup {Gone}]
  /\ replicas \in [Deployments -> Nat]
  /\ offers \subseteq Positions
  /\ posCache \in [Operators -> [Positions -> Object \cup {Gone}]]
  /\ posLag \subseteq Operators \X Positions
  /\ depCache \in [Operators -> [Deployments -> Nat]]
  /\ depLag \subseteq Operators \X Deployments
  /\ job \in [Operators -> Job \cup {Nil}]
  /\ settled \in [price: SettledPrices, util: SettledUtils] \cup {Nil}
  /\ desired \in [Deployments -> Nat]
  /\ opted \subseteq Deployments
  /\ torn \subseteq Deployments
  /\ tornOffers \subseteq Positions

ViewsSound ==
  /\ \A o \in Operators, p \in Positions :
       <<o, p>> \notin posLag => posCache[o][p] = api[p]
  /\ \A o \in Operators, d \in Deployments :
       <<o, d>> \notin depLag => depCache[o][d] = replicas[d]

CopySound(o) ==
  job[o] # Nil /\ job[o].current =>
    LET stored == api[job[o].pos]
        copy == job[o].status
    IN  /\ stored # Gone
        /\ job[o].spec = stored.spec
        /\ copy.available = stored.status.available
        /\ job[o].act = "none" =>
             /\ copy.paused = stored.status.paused
             /\ copy.paused => copy.orig = stored.status.orig

(* What optimistic concurrency rests on: a cached copy that is not behind is the
   stored one, and a reconcile whose copy is current works with the stored spec,
   the stored flag and, until its own update, the stored pause.                *)
CachesSound == ViewsSound /\ \A o \in Operators : CopySound(o)

(* The controller is advisory by default (computeposition_types.go:44): the
   replicas of a Deployment that no spec ever opted in are the user's, through
   crashes, stale caches, shared references and edits of any other position.   *)
AdvisoryByDefault ==
  \A d \in Deployments \ opted : replicas[d] = desired[d]

(* What the controller reads back is enough to undo and to time what it did: in
   every copy a paused position has the replicas to restore, so a resume never
   guesses one, and a flagged position has the start of its idle window.       *)
StatusSound ==
  LET Sound(s) == (s.paused => s.orig # Nil) /\ (s.available => s.idle # Nil) IN
  /\ \A p \in Positions : api[p] # Gone => Sound(api[p].status)
  /\ \A o \in Operators, p \in Positions :
       posCache[o][p] # Gone => Sound(posCache[o][p].status)
  /\ \A o \in Operators : job[o] # Nil =>
       /\ job[o].status.paused => job[o].status.orig # Nil
       /\ job[o].available => job[o].status.idle # Nil

(* The bookkeeping of a pause.  A Deployment is as the status of its position
   says: down, with the replicas the user wants noted, or as the user wants it;
   while an operator has scaled it and not yet written its status, as that
   operator is about to write.  Only what marks a Deployment torn breaks this:
   a scaling whose status write is lost (conflict, error, crash, deletion) or
   was made from an outdated copy, an update carried out but answered with an
   error, a user's scaling while it is paused, a paused position deleted or
   pointed elsewhere, and two positions sharing it.  And only until its user
   scales it while no pause is recorded or under way.                          *)
AccountedBy(s, d) ==
  IF s.paused THEN replicas[d] = 0 /\ s.orig = desired[d] ELSE replicas[d] = desired[d]

Moving(d) ==
  {o \in Operators : job[o] # Nil /\ job[o].act = "moved" /\ job[o].spec.ref = d}

WorkloadAccounted ==
  \A d \in Deployments \ torn :
    /\ \A o \in Moving(d) : AccountedBy(job[o].status, d)
    /\ Moving(d) = {} =>
         \A p \in Positions : d \in RefOf(api[p]) => AccountedBy(api[p].status, d)
    /\ Moving(d) = {} /\ (\A p \in Positions : d \notin RefOf(api[p]))
         => replicas[d] = desired[d]

(* The same as a refinement: what anyone who looks at the Deployments and at the
   bookkeeping sees, the working copy of an operator that has scaled one included,
   is a pause or a resume at once; update, status write, conflicts, retries and
   edits in between are stutters, or break a Deployment as torn says, until its
   user repairs it.                                                            *)
Bookkeeping(d) ==
  IF Moving(d) # {} THEN {job[o].status : o \in Moving(d)}
  ELSE {api[p].status : p \in {q \in Positions : d \in RefOf(api[q])}}

Workload(d) ==
  IF d \in torn THEN Gone
  ELSE [ wanted |-> desired[d], running |-> replicas[d],
         noted |-> {s.orig : s \in {t \in Bookkeeping(d) : t.paused}} ]

Workloads ==
  INSTANCE PauseResume WITH workload <- [d \in Deployments |-> Workload(d)], Broken <- Gone

PausesAtOnce == Workloads!Spec

(* The listings of the marketplace are the flagged positions, or are about to be
   when an operator that called it writes its status.  Only a failed call, a call
   whose status write is lost or was made from an outdated copy, and the deletion
   of a flagged position break this, and only until the flag flips again from a
   current copy and the call succeeds.                                         *)
Calling(p) ==
  {o \in Operators : /\ job[o] # Nil /\ job[o].current
                     /\ job[o].call = "done" /\ job[o].pos = p}

OffersAccounted ==
  \A p \in Positions \ tornOffers :
    /\ \A o \in Calling(p) : p \in offers <=> job[o].available
    /\ Calling(p) = {} => (p \in offers <=> api[p] # Gone /\ api[p].status.available)

(* A status write never un-notes a pause it did not undo: if a position is
   recorded as resumed, or its noted replicas change while it is paused, the
   operator that writes it has just set the Deployment to the noted replicas.  *)
ResumeRestoresNoted ==
  [][\A p \in Positions :
       api[p] # Gone /\ api'[p] # Gone /\ api[p].status.paused
       => \/ /\ api'[p].status.paused
             /\ api'[p].status.orig = api[p].status.orig
          \/ /\ ~api'[p].status.paused
             /\ \A d \in RefOf(api[p]) \ torn' : replicas[d] = api[p].status.orig]_vars

(* The start of an idle window is shared state of everyone who reconciles: a write
   from a copy that is behind would start the window anew, or bring back one that
   a recovered reading has ended.  So a stored window only ages until it is
   cleared, and a flag goes up only over a window that was stored, and over under
   the stored spec, when it did.                                               *)
WindowKept ==
  [][\A p \in Positions :
       api[p] # Gone /\ api'[p] # Gone =>
         LET old == api[p].status
             new == api'[p].status
         IN  /\ old.idle # Nil /\ new.idle # Nil => new.idle = old.idle \/ new = Older(old)
             /\ new.available /\ ~old.available =>
                  /\ old.idle # Nil /\ new.idle = old.idle
                  /\ old.idle >= Window(api[p].spec)]_vars

(* Once the feeds repeat one answer and nothing disturbs the operator, every
   position reaches and keeps what its spec asks for, whatever happened before:
   paused above the cap, resumed below the margin, flagged and listed when idle,
   unlisted when in use; listings and replicas up to what was torn before.     *)
Converged(p) ==
  LET x == api[p] IN
  x # Gone /\ x.spec.hedgeParses /\ settled.util # NoAnswer /\ settled.price # NoAnswer =>
    /\ Low(x.spec, settled.util) =>
         x.status.available /\ (p \in tornOffers \/ p \in offers)
    /\ Recovered(x.spec, settled.util) =>
         ~x.status.available /\ (p \in tornOffers \/ p \notin offers)
    /\ Eligible(x.spec) =>
         /\ SpikeAbove(x.spec, settled.price.usd) => x.status.paused
         /\ RecoveredBelow(x.spec, settled.price.usd) => ~x.status.paused
         /\ x.spec.ref \in torn \/ replicas[x.spec.ref] =
              IF x.status.paused THEN 0 ELSE desired[x.spec.ref]

(* What the feeds repeat leaves this copy of a position as it is: its idle window
   is over if it is low, and nothing is left to pause or to resume.            *)
Rests(answer, spec, s) ==
  LET spot == IF answer.price = NoAnswer THEN s.spot ELSE answer.price.usd IN
  spec.hedgeParses /\ answer.util # NoAnswer /\ PriceKnown(answer.price, s) =>
    /\ Low(spec, answer.util) => s.available /\ s.idle # Nil /\ s.idle >= Window(spec)
    /\ Recovered(spec, answer.util) => ~s.available
    /\ NothingToDo(spec, s, spot)

(* A reconcile under way will neither call nor scale, and what it may still write
   is nothing new.                                                             *)
JobRests(answer, j) ==
  /\ j.available = j.status.available
  /\ j.at # "status" => NothingToDo(j.spec, j.status, j.spot)
  /\ j.current => j.act = "none"
  /\ Rests(answer, j.spec, WrittenStatus(j))

AtRest ==
  /\ settled # Nil
  /\ \A p \in Positions : api[p] # Gone => Rests(settled, api[p].spec, api[p].status)
  /\ \A o \in Operators, p \in Positions :
       posCache[o][p] # Gone => Rests(settled, posCache[o][p].spec, posCache[o][p].status)
  /\ \A o \in Operators : job[o] # Nil => JobRests(settled, job[o])

(* At rest everything is as the specs ask for. *)
RestConverged == AtRest => \A p \in Positions : Converged(p)

(* No flapping: once store, caches and reconciles under way are at rest they stay
   so, whichever copies are behind, and no step moves a replica, a listing, a
   flag or a pause any more.                                                   *)
StaysAtRest ==
  [][AtRest =>
       /\ AtRest'
       /\ UNCHANGED <<replicas, offers>>
       /\ \A p \in Positions :
            /\ api'[p] = Gone <=> api[p] = Gone
            /\ api[p] # Gone =>
                 /\ api'[p].status.available = api[p].status.available
                 /\ api'[p].status.paused = api[p].status.paused]_vars

EventuallyConverges ==
  <>[](settled # Nil => AtRest /\ \A p \in Positions : Converged(p))
===============================================================================
