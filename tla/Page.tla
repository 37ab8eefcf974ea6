--------------------------------- MODULE Page ---------------------------------
(* The console's page: it polls the backend every two seconds and does not wait
   for the answer of one poll before it sends the next, so that answers arrive in
   any order.  The States the backend publishes are numbered; of one, only its
   number matters and what becomes of it in the body of an answer:
     whole  it is rendered;
     null   an array is encoded as null, which crashes the render, and without an
            error boundary the page is unmounted for good;
     empty  a number cannot be encoded (a hedged price of NaN parses), the error
            is discarded, and the page is sent a 200 without a body.

   A request that is neither answered nor failed hangs, since fetch is given no
   timeout; Slot bounds the requests under way, as a browser does.             *)
EXTENDS Naturals

CONSTANTS
  Slot,          \* requests that may be under way at once
  MaxPublished   \* States the backend publishes

ASSUME PageAssumption == MaxPublished \in Nat \ {0}

VARIABLES
  up,         \* the backend listens
  latest,     \* the State it serves: [n, body]
  requests,   \* [at, since, answer] of each slot; since: the State shown when it was sent
  shown,      \* the number of the State on the page, 0 before the first
  conn,       \* the badge
  misses,     \* failures since the last answer; two are as good as more
  mounted     \* the page still is rendered

backend == <<up, latest>>
page == <<shown, conn, misses, mounted>>
vars == <<backend, requests, page>>

Bodies == {"whole", "null", "empty"}

States == [n: 1 .. MaxPublished, body: Bodies]

(* at: free, sent, answered *)
NoRequest == [at |-> "free", since |-> 0, answer |-> [n |-> 1, body |-> "whole"]]

-------------------------------------------------------------------------------
(* The page. *)

(* setInterval fires and fetchState is called, whatever is under way. *)
Tick(r) ==
  /\ mounted
  /\ requests[r].at = "free"
  /\ requests' = [requests EXCEPT ![r] = [NoRequest EXCEPT !.at = "sent", !.since = shown]]
  /\ UNCHANGED <<backend, page>>

Free(r) == requests' = [requests EXCEPT ![r] = NoRequest]

(* Mutant of Succeed: the misses are not reset. *)
SucceedStillMissed(s) ==
  /\ shown' = s.n
  /\ conn' = "live"
  /\ UNCHANGED misses

(* A State arrives: setState, setConn. *)
Succeed(s) ==
  /\ shown' = s.n
  /\ conn' = "live"
  /\ misses' = 0

(* Mutant of Miss: the second failure in a row is forgiven. *)
MissOnce ==
  /\ misses' = 1
  /\ UNCHANGED <<shown, conn, mounted>>

(* The second failure in a row, and every one after it, says so. *)
Miss ==
  /\ misses' = IF misses = 2 THEN 2 ELSE misses + 1
  /\ conn' = IF misses' = 2 THEN "stale" ELSE conn
  /\ UNCHANGED <<shown, mounted>>

(* What tick makes of an answer: a body that does not parse is a failure, else the
   page renders it or crashes on it.                                           *)
Take(s) ==
  IF s.body = "empty" THEN Miss ELSE Succeed(s) /\ mounted' = (s.body = "whole")

(* An answer arrives, in any order.  Once the page is unmounted, nothing that is
   under way does anything.                                                    *)
Arrive(r) ==
  /\ requests[r].at = "answered"
  /\ Free(r)
  /\ IF mounted THEN Take(requests[r].answer) ELSE UNCHANGED page
  /\ UNCHANGED backend

(* The request fails, whether the backend is away or not: it is refused, it breaks
   off before or within its answer, or the answer is not a 200.                *)
Fail(r) ==
  /\ requests[r].at = "sent"
  /\ Free(r)
  /\ IF mounted THEN Miss ELSE UNCHANGED page
  /\ UNCHANGED backend

(* The user loads the page again. *)
Reload ==
  /\ requests' = [r \in Slot |-> NoRequest]
  /\ shown' = 0
  /\ conn' = "connecting"
  /\ misses' = 0
  /\ mounted' = TRUE
  /\ UNCHANGED backend

-------------------------------------------------------------------------------
(* The backend, see Console. *)

(* Mutant of Answers: without no-store, the browser's cache answers. *)
AnswersCached == {s \in States : s.n <= latest.n /\ s.body = latest.body}

(* What GET /api/state answers: whatever was published last, past every cache. *)
Answers == {latest}

Serve(r) ==
  /\ up
  /\ requests[r].at = "sent"
  /\ \E s \in Answers :
       requests' = [requests EXCEPT ![r] = [@ EXCEPT !.at = "answered", !.answer = s]]
  /\ UNCHANGED <<backend, page>>

Publish ==
  /\ up
  /\ latest.n < MaxPublished
  /\ \E body \in Bodies : latest' = [n |-> latest.n + 1, body |-> body]
  /\ UNCHANGED <<up, requests, page>>

Stop == up /\ up' = FALSE /\ UNCHANGED <<latest, requests, page>>

(* A new process builds a State before it listens; if that fails it serves none,
   whose arrays are null.                                                      *)
Start ==
  /\ ~up
  /\ latest.n < MaxPublished
  /\ up' = TRUE
  /\ \E body \in Bodies : latest' = [n |-> latest.n + 1, body |-> body]
  /\ UNCHANGED <<requests, page>>

-------------------------------------------------------------------------------
Init ==
  /\ up \in BOOLEAN
  /\ latest = [n |-> 1, body |-> "whole"]
  /\ requests = [r \in Slot |-> NoRequest]
  /\ shown = 0 /\ conn = "connecting" /\ misses = 0 /\ mounted = TRUE

Next ==
  \/ \E r \in Slot : Tick(r) \/ Serve(r) \/ Arrive(r) \/ Fail(r)
  \/ Publish \/ Stop \/ Start \/ Reload

(* The interval fires for ever; the backend answers what it gets while it listens,
   answers arrive, and a backend that is away refuses.  That a request fails under
   a backend that listens may or may not happen.  Which slot a poll takes does not
   matter.                                                                     *)
Fairness ==
  /\ WF_vars(\E r \in Slot : Tick(r))
  /\ \A r \in Slot : WF_vars(Serve(r)) /\ WF_vars(Arrive(r)) /\ WF_vars(~up /\ Fail(r))

Spec == Init /\ [][Next]_vars /\ Fairness
-------------------------------------------------------------------------------
TypeOK ==
  /\ up \in BOOLEAN
  /\ latest \in States
  /\ requests \in [Slot -> [at: {"free", "sent", "answered"}, since: 0 .. MaxPublished, answer: States]]
  /\ shown \in 0 .. MaxPublished
  /\ conn \in {"connecting", "live", "stale"}
  /\ misses \in 0 .. 2
  /\ mounted \in BOOLEAN

(* Whatever the order in which answers and failures arrive, the badge says what
   the last ones were: RECONNECTING from the second failure in a row until the
   next answer, LIVE only over a State, CONNECTING only before the first.      *)
BadgeHonest ==
  conn = IF misses = 2 THEN "stale" ELSE IF shown = 0 THEN "connecting" ELSE "live"

(* Answers that overtake each other take the page back in time, but a poll never
   shows anything older than what was on the page when it was sent.            *)
NoOlderThanAsked ==
  [][\A r \in Slot :
       requests[r].at = "answered" /\ requests'[r].at = "free" /\ shown' # shown /\ shown' # 0
       => shown' >= requests[r].since]_vars

FailWhileUp == up /\ \E r \in Slot : Fail(r)

(* Provided that the page is not loaded again and again, never crashes, and from
   some time on loses no request to a backend that listens: once the backend stays
   up, publishes nothing more and its last State can be encoded, the page ends up
   with that State under LIVE, late answers and earlier failures notwithstanding;
   once it stays away, or stays up over a State that cannot be encoded, the page
   ends up saying RECONNECTING.                                                *)
FollowsBackend ==
  <>[][~Reload /\ ~FailWhileUp]_vars /\ []mounted =>
    /\ <>[](up /\ latest.body # "empty") /\ <>[][FALSE]_latest
         => <>[](shown = latest.n /\ conn = "live")
    /\ <>[]~up \/ <>[](up /\ latest.body = "empty") => <>[](conn = "stale")
================================================================================
