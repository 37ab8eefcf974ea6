------------------------------ MODULE PageProofs ------------------------------
(* The page under its polls, for any number of requests under way and of States:
   what is said of answers that overtake each other.                           *)
EXTENDS Page, TLAPS

(* Publishing only goes on: what is on the page, what a poll set out from and
   what it was answered are no newer than the backend, and an answer is no older
   than what its poll set out from.                                            *)
InStep ==
  /\ shown <= latest.n
  /\ \A r \in Slot : requests[r].at # "free" =>
       /\ requests[r].since <= latest.n
       /\ requests[r].at = "answered" =>
            requests[r].since <= requests[r].answer.n /\ requests[r].answer.n <= latest.n

PageInv == TypeOK /\ InStep /\ BadgeHonest

LEMMA NoRequestType ==
  NoRequest \in [at: {"free", "sent", "answered"}, since: 0 .. MaxPublished, answer: States]
  BY PageAssumption DEF NoRequest, States, Bodies

LEMMA PageInit == Init => PageInv
  BY NoRequestType, PageAssumption
     DEF Init, PageInv, TypeOK, InStep, BadgeHonest, NoRequest, States, Bodies

(* What the page makes of an answer and of a failure. *)
LEMMA BadgeStep ==
  ASSUME TypeOK, BadgeHonest, (\E s \in States : Succeed(s)) \/ (Miss /\ UNCHANGED mounted)
  PROVE  /\ BadgeHonest'
         /\ shown' \in 0 .. MaxPublished /\ misses' \in 0 .. 2
         /\ conn' \in {"connecting", "live", "stale"}
  BY DEF TypeOK, BadgeHonest, Succeed, Miss, States

LEMMA PageNext == PageInv /\ [Next]_vars => PageInv'
<1> SUFFICES ASSUME TypeOK, InStep, BadgeHonest, [Next]_vars PROVE PageInv'
  BY DEF PageInv
<1> USE PageAssumption
<1>1. ASSUME NEW r \in Slot, Tick(r) PROVE PageInv'
  <2>1. requests' = [requests EXCEPT ![r] = [NoRequest EXCEPT !.at = "sent", !.since = shown]]
        /\ UNCHANGED <<backend, page>>
    BY <1>1 DEF Tick
  <2>2. TypeOK'
    BY <2>1, NoRequestType DEF TypeOK, NoRequest, backend, page
  <2>3. InStep'
    BY <2>1 DEF TypeOK, InStep, NoRequest, backend, page
  <2> QED BY <2>1, <2>2, <2>3 DEF PageInv, BadgeHonest, page
<1>2. ASSUME NEW r \in Slot, Serve(r) PROVE PageInv'
  <2>1. /\ requests' = [requests EXCEPT ![r] = [@ EXCEPT !.at = "answered", !.answer = latest]]
        /\ requests[r].at = "sent" /\ UNCHANGED <<backend, page>>
    BY <1>2 DEF Serve, Answers
  <2>2. TypeOK'
    BY <2>1 DEF TypeOK, backend, page
  <2>3. InStep'
    BY <2>1 DEF TypeOK, InStep, States, backend, page
  <2> QED BY <2>1, <2>2, <2>3 DEF PageInv, BadgeHonest, page
<1>3. ASSUME NEW r \in Slot, Arrive(r) PROVE PageInv'
  <2> DEFINE s == requests[r].answer
  <2>1. /\ s \in States /\ s.n <= latest.n /\ Free(r) /\ UNCHANGED backend
        /\ \/ Succeed(s) /\ mounted' \in BOOLEAN
           \/ Miss
           \/ UNCHANGED page
    BY <1>3 DEF Arrive, Take, TypeOK, InStep
  <2>2. BadgeHonest' /\ shown' \in 0 .. MaxPublished /\ misses' \in 0 .. 2
        /\ conn' \in {"connecting", "live", "stale"} /\ mounted' \in BOOLEAN
    <3>1. CASE Succeed(s) /\ mounted' \in BOOLEAN
      BY <2>1, <3>1, BadgeStep
    <3>2. CASE Miss
      BY <3>2, BadgeStep DEF Miss, TypeOK
    <3>3. CASE UNCHANGED page
      BY <3>3 DEF TypeOK, BadgeHonest, page
    <3> QED BY <2>1, <3>1, <3>2, <3>3
  <2>3. TypeOK'
    BY <2>1, <2>2, NoRequestType DEF TypeOK, Free, backend
  <2>4. shown' <= latest.n
    BY <2>1 DEF Succeed, Miss, InStep, page
  <2>5. InStep'
    BY <2>1, <2>4 DEF TypeOK, InStep, Free, NoRequest, backend
  <2> QED BY <2>2, <2>3, <2>5 DEF PageInv
<1>4. ASSUME NEW r \in Slot, Fail(r) PROVE PageInv'
  <2>1. Free(r) /\ UNCHANGED backend /\ (Miss \/ UNCHANGED page)
    BY <1>4 DEF Fail
  <2>2. /\ BadgeHonest' /\ shown' = shown /\ misses' \in 0 .. 2 /\ mounted' = mounted
        /\ conn' \in {"connecting", "live", "stale"}
    <3>1. CASE Miss
      BY <3>1, BadgeStep DEF Miss
    <3>2. CASE UNCHANGED page
      BY <3>2 DEF TypeOK, BadgeHonest, page
    <3> QED BY <2>1, <3>1, <3>2
  <2>3. TypeOK'
    BY <2>1, <2>2, NoRequestType DEF TypeOK, Free, backend
  <2>4. InStep'
    BY <2>1, <2>2 DEF TypeOK, InStep, Free, NoRequest, backend
  <2> QED BY <2>2, <2>3, <2>4 DEF PageInv
<1>5. CASE Publish \/ Start
  <2>1. /\ latest.n < MaxPublished /\ UNCHANGED <<requests, page>> /\ up' \in BOOLEAN
        /\ \E body \in Bodies : latest' = [n |-> latest.n + 1, body |-> body]
    BY <1>5 DEF Publish, Start, TypeOK
  <2>2. latest' \in States /\ latest'.n = latest.n + 1
    BY <2>1 DEF TypeOK, States
  <2>3. TypeOK'
    BY <2>1, <2>2 DEF TypeOK, page
  <2>4. InStep'
    BY <2>1, <2>2 DEF TypeOK, InStep, States, page
  <2> QED BY <2>1, <2>3, <2>4 DEF PageInv, BadgeHonest, page
<1>6. CASE Stop
  BY <1>6 DEF Stop, PageInv, TypeOK, InStep, BadgeHonest, page
<1>7. CASE Reload
  <2>1. TypeOK'
    BY <1>7, NoRequestType DEF Reload, TypeOK, backend
  <2>2. InStep'
    BY <1>7 DEF Reload, TypeOK, InStep, NoRequest, States, backend
  <2> QED BY <1>7, <2>1, <2>2 DEF Reload, PageInv, BadgeHonest
<1>8. CASE UNCHANGED vars
  BY <1>8 DEF vars, backend, page, PageInv, TypeOK, InStep, BadgeHonest
<1> QED BY <1>1, <1>2, <1>3, <1>4, <1>5, <1>6, <1>7, <1>8 DEF Next

LEMMA PageInvariance == Spec => []PageInv
  BY PageInit, PageNext, PTL DEF Spec

(* However answers and failures interleave, the badge says what the last ones
   were.                                                                       *)
THEOREM BadgeCorrect == Spec => []BadgeHonest
  BY PageInvariance, PTL DEF PageInv

LEMMA NoOlderStep ==
  ASSUME PageInv, [Next]_vars, NEW r \in Slot,
         requests[r].at = "answered", requests'[r].at = "free", shown' # shown, shown' # 0
  PROVE  shown' >= requests[r].since
<1>1. TypeOK /\ InStep
  BY DEF PageInv
<1>2. ASSUME NEW q \in Slot, Arrive(q) PROVE shown' >= requests[r].since
  <2>1. Free(q) /\ shown' = requests[q].answer.n
    BY <1>2 DEF Arrive, Take, Succeed, Miss, page
  <2>2. q = r
    BY <1>1, <2>1 DEF Free, TypeOK
  <2> QED BY <1>1, <2>1, <2>2 DEF InStep, TypeOK, States
<1> QED BY <1>2 DEF Next, Tick, Serve, Fail, Miss, Publish, Start, Stop, Reload, vars, page

(* A poll never shows anything older than what was on the page when it was sent,
   whatever overtakes it.                                                      *)
THEOREM NeverOlderThanAsked == Spec => NoOlderThanAsked
<1>1. PageInv /\ [Next]_vars =>
        [\A r \in Slot :
           requests[r].at = "answered" /\ requests'[r].at = "free" /\ shown' # shown /\ shown' # 0
           => shown' >= requests[r].since]_vars
  BY NoOlderStep
<1> QED BY <1>1, PageInvariance, PTL DEF Spec, NoOlderThanAsked
================================================================================
