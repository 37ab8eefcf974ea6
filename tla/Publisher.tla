------------------------------- MODULE Publisher -------------------------------
(* internal/market under the controller: the two publishers, the marketplace
   behind one of them, and what handleMarketplace makes of their answers for all
   positions of an operator.  Reconciler splits a reconcile of one position into
   its steps and takes a call for done or failed; here a reconcile is a step, and
   the call is taken apart.  An offer is a quote, the size and price of the moment.

   The marketplace is external: it answers a request with a status, and may carry
   it out, or not, when the answer is lost (a timeout, a broken connection).   *)
EXTENDS Config, Naturals

CONSTANTS
  Positions,
  Quotes,
  Settings,   \* what the operator may be started with
  None        \* no offer, no event

ASSUME PublisherAssumption == Settings \subseteq Setting /\ None \notin Quotes

VARIABLES
  setting,    \* what the running process was started with
  flagged,    \* positions with availableForSublet stored: None, or the quote of
              \* the reconcile that set it
  listings,   \* the marketplace: the offer of each position, or None
  last,       \* LogPublisher: last and haveL, None or [pos, quote]
  event,      \* the last event a marketplace call led to: None or [kind, pos, quote]
  \* what only the properties read:
  unsure      \* positions whose last flip was not carried out, recorded and made
              \* under the setting that now holds

vars == <<setting, flagged, listings, last, event, unsure>>

Current == Load(setting)

Publisher == BuildMarketPublisher(Current)

-------------------------------------------------------------------------------
(* The marketplace (external). *)

NoReply == 0

PostAnswers(p, q) ==
  { [status |-> 201, listing |-> q], [status |-> 503, listing |-> listings[p]],
    [status |-> NoReply, listing |-> q], [status |-> NoReply, listing |-> listings[p]] }

DeleteAnswers(p) ==
  { [status |-> IF listings[p] = None THEN 404 ELSE 204, listing |-> None],
    [status |-> 503, listing |-> listings[p]],
    [status |-> NoReply, listing |-> None], [status |-> NoReply, listing |-> listings[p]] }

-------------------------------------------------------------------------------
(* The publishers: what a call may return and leave behind. *)

Outcome(err, p, listing, kept) ==
  [err |-> err, listings |-> [listings EXCEPT ![p] = listing], last |-> kept]

Untouched(p) == Outcome(FALSE, p, listings[p], last)

HTTPPublishSupply(p, q) ==
  IF ~Publisher.writeEnabled THEN {Untouched(p)}
  ELSE { Outcome(a.status = NoReply \/ a.status >= 300, p, a.listing, last) : a \in PostAnswers(p, q) }

(* An offer that is not there is as good as withdrawn. *)
HTTPWithdrawSupply(p) ==
  IF ~Publisher.writeEnabled THEN {Untouched(p)}
  ELSE { Outcome(a.status = NoReply \/ (a.status >= 300 /\ a.status # 404), p, a.listing, last)
           : a \in DeleteAnswers(p) }

LogPublishSupply(p, q) == {Outcome(FALSE, p, listings[p], [pos |-> p, quote |-> q])}

(* Mutant of LogWithdrawSupply: only the offer that is withdrawn is cleared. *)
LogWithdrawSupplyNothing(p) == {Untouched(p)}

(* There is one slot for all positions, and the id is not looked at. *)
LogWithdrawSupply(p) == {Outcome(FALSE, p, listings[p], None)}

PublishSupply(p, q) ==
  IF Publisher.kind = "http" THEN HTTPPublishSupply(p, q) ELSE LogPublishSupply(p, q)

WithdrawSupply(p) ==
  IF Publisher.kind = "http" THEN HTTPWithdrawSupply(p) ELSE LogWithdrawSupply(p)

-------------------------------------------------------------------------------
(* The operator. *)

(* The flag of p flips to flag, None or the quote; r is what the call returned,
   recorded tells whether the status write succeeds.  A call that fails leads to
   another event and to nothing else.                                          *)
Flip(p, flag, kind, quote, r, recorded) ==
  /\ listings' = r.listings
  /\ last' = r.last
  /\ event' = [kind |-> IF r.err THEN "error" ELSE kind, pos |-> p, quote |-> quote]
  /\ flagged' = IF recorded THEN [flagged EXCEPT ![p] = flag] ELSE flagged
  /\ unsure' = IF r.err \/ ~recorded THEN unsure \cup {p}
               ELSE IF Publisher.kind = "http" THEN unsure \ {p}
               ELSE unsure
  /\ UNCHANGED setting

(* Mutant of Publish: the offer is posted anew while the flag is set. *)
PublishAnew(p) ==
  \E q \in Quotes : \E r \in PublishSupply(p, q), recorded \in BOOLEAN :
    Flip(p, IF flagged[p] = None THEN q ELSE flagged[p], "posted", q, r, recorded)

(* A reconcile finds p idle that was not: it posts the offer, once. *)
Publish(p) ==
  /\ flagged[p] = None
  /\ \E q \in Quotes : \E r \in PublishSupply(p, q), recorded \in BOOLEAN :
       Flip(p, q, "posted", q, r, recorded)

(* A reconcile finds p in use again. *)
Withdraw(p) ==
  /\ flagged[p] # None
  /\ \E r \in WithdrawSupply(p), recorded \in BOOLEAN :
       Flip(p, None, "withdrawn", None, r, recorded)

(* The process ends and another one starts, perhaps with another setting: the
   flags and the listings are still there, and nothing compares them.          *)
Restart ==
  /\ setting' \in Settings
  /\ last' = None
  /\ event' = None
  /\ unsure' = IF MarketLive(Load(setting')) = MarketLive(Current) THEN unsure
               ELSE unsure \cup {p \in Positions : flagged[p] # None}
  /\ UNCHANGED <<flagged, listings>>

Init ==
  /\ setting \in Settings
  /\ flagged = [p \in Positions |-> None]
  /\ listings = [p \in Positions |-> None]
  /\ last = None
  /\ event = None
  /\ unsure = {}

Next == (\E p \in Positions : Publish(p) \/ Withdraw(p)) \/ Restart

Spec == Init /\ [][Next]_vars
-------------------------------------------------------------------------------
Offer == Quotes \cup {None}

TypeOK ==
  /\ setting \in Settings
  /\ flagged \in [Positions -> Offer]
  /\ listings \in [Positions -> Offer]
  /\ last \in [pos: Positions, quote: Quotes] \cup {None}
  /\ event \in [kind: {"posted", "withdrawn", "error"}, pos: Positions, quote: Offer] \cup {None}
  /\ unsure \subseteq Positions

(* A flagged position is listed with exactly the offer of the reconcile that set
   its flag: it is posted once and never refreshed, no call for another position
   touches it, and one clean flip repairs what failed calls left.  Without a live
   publisher nothing is listed at all.                                         *)
ListedAsQuoted ==
  \A p \in Positions \ unsure :
    listings[p] = IF MarketLive(Current) THEN flagged[p] ELSE None

(* What Last() of the log publisher returns is the offer of a position that still
   is flagged, although it has one slot for all of them: that is why a withdrawal
   for any position has to clear it.                                           *)
LastIsFlagged ==
  last # None /\ last.pos \notin unsure => flagged[last.pos] = last.quote

(* main.go:54 of the console, "Never show LIVE unless Sources() resolved live":
   where the label is live, the events tell the truth about the marketplace, so
   a supply that is reported as posted or withdrawn is posted or gone.         *)
LiveEventsTrue ==
  MarketLabel(Current) = "live" /\ event # None =>
    /\ event.kind = "posted" => listings[event.pos] = event.quote
    /\ event.kind = "withdrawn" => listings[event.pos] = None

(* README.md:173: the marketplace never changes unless a URL is set and the write
   flag is true, in the environment of the process or, only where that has no
   such variable, in the .env file; and never if the mode is mock.             *)
Says(v, value) ==
  \/ setting.process[v] = value
  \/ setting.process[v] = Unset /\ setting.file[v] = value

WritesOnlyWithConsent ==
  [][listings' # listings =>
       /\ Says("MARKET_WRITE_ENABLED", "true")
       /\ \E url \in Value \ {Unset, ""} : Says("MARKET_API_URL", url)
       /\ ~Says("MARKET_MODE", "mock")]_vars
================================================================================
