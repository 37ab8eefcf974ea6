---------------------------- MODULE PublisherProofs ----------------------------
(* What Publisher promises, for any positions, quotes and settings. *)
EXTENDS Publisher, TLAPS

(* The log publisher's slot is only filled by a process that logs, and a process
   keeps its publisher: without this, a slot that a live publisher leaves alone
   could show the offer of a position that was since withdrawn from it.         *)
LastOnlyLogged == MarketLive(Current) => last = None

IInv == TypeOK /\ LastOnlyLogged /\ ListedAsQuoted /\ LastIsFlagged /\ LiveEventsTrue

(* What a call for p returns that shall leave offer behind, None or a quote: the
   live publisher leaves it, or the error says that it may not have; the other
   touches its slot only.                                                       *)
Served(p, offer, r) ==
  /\ r.err \in BOOLEAN
  /\ \E l \in {offer, listings[p]} : r.listings = [listings EXCEPT ![p] = l]
  /\ MarketLive(Current) =>
       /\ r.last = last
       /\ ~r.err => r.listings = [listings EXCEPT ![p] = offer]
  /\ ~MarketLive(Current) =>
       /\ ~r.err
       /\ r.listings = [listings EXCEPT ![p] = listings[p]]
       /\ r.last = IF offer = None THEN None ELSE [pos |-> p, quote |-> offer]

-------------------------------------------------------------------------------
(* The publisher that is built is the live one exactly under MarketLive, and then
   its own gate is open (config.go:132).                                        *)
LEMMA PublisherBuilt ==
  /\ MarketLive(Current) => Publisher.kind = "http" /\ Publisher.writeEnabled
  /\ ~MarketLive(Current) => Publisher.kind = "log"
BY DEF Publisher, BuildMarketPublisher, MarketLive

LEMMA OutcomeFields ==
  ASSUME NEW err, NEW p, NEW listing, NEW kept
  PROVE  /\ Outcome(err, p, listing, kept).err = err
         /\ Outcome(err, p, listing, kept).listings = [listings EXCEPT ![p] = listing]
         /\ Outcome(err, p, listing, kept).last = kept
BY DEF Outcome

LEMMA PublishServes ==
  ASSUME NEW p \in Positions, NEW q \in Quotes, NEW r \in PublishSupply(p, q)
  PROVE  Served(p, q, r)
<1>1. CASE MarketLive(Current)
  <2>1. PICK a \in PostAnswers(p, q) :
          r = Outcome(a.status = NoReply \/ a.status >= 300, p, a.listing, last)
    BY <1>1, PublisherBuilt DEF PublishSupply, HTTPPublishSupply
  <2>2. /\ r.err = (a.status = NoReply \/ a.status >= 300)
        /\ r.listings = [listings EXCEPT ![p] = a.listing]
        /\ r.last = last
    BY <2>1, OutcomeFields
  <2>3. \/ a.status = 201 /\ a.listing = q
        \/ (a.status = 503 \/ a.status = 0) /\ a.listing \in {q, listings[p]}
    BY DEF PostAnswers, NoReply
  <2>4. r.err \in BOOLEAN /\ (~r.err => a.listing = q)
    <3>1. a.listing # q => a.status = NoReply \/ a.status >= 300
      BY <2>3 DEF NoReply
    <3> QED BY <2>2, <3>1, Zenon
  <2>5. a.listing \in {q, listings[p]}
    BY <2>3
  <2> QED BY <1>1, <2>2, <2>4, <2>5 DEF Served
<1>2. CASE ~MarketLive(Current)
  <2>1. r = Outcome(FALSE, p, listings[p], [pos |-> p, quote |-> q])
    BY <1>2, PublisherBuilt DEF PublishSupply, LogPublishSupply
  <2>2. /\ r.err = FALSE
        /\ r.listings = [listings EXCEPT ![p] = listings[p]]
        /\ r.last = [pos |-> p, quote |-> q]
    BY <2>1 DEF Outcome
  <2> QED BY <1>2, <2>2, PublisherAssumption DEF Served
<1> QED BY <1>1, <1>2

LEMMA WithdrawServes ==
  ASSUME NEW p \in Positions, NEW r \in WithdrawSupply(p)
  PROVE  Served(p, None, r)
<1>1. CASE MarketLive(Current)
  <2>1. PICK a \in DeleteAnswers(p) :
          r = Outcome(a.status = NoReply \/ (a.status >= 300 /\ a.status # 404), p, a.listing, last)
    BY <1>1, PublisherBuilt DEF WithdrawSupply, HTTPWithdrawSupply
  <2>2. /\ r.err = (a.status = NoReply \/ (a.status >= 300 /\ a.status # 404))
        /\ r.listings = [listings EXCEPT ![p] = a.listing]
        /\ r.last = last
    BY <2>1, OutcomeFields
  <2>3. \/ (a.status = 404 \/ a.status = 204) /\ a.listing = None
        \/ (a.status = 503 \/ a.status = 0) /\ a.listing \in {None, listings[p]}
    BY DEF DeleteAnswers, NoReply
  <2>4. r.err \in BOOLEAN /\ (~r.err => a.listing = None)
    <3>1. a.listing # None => a.status = NoReply \/ (a.status >= 300 /\ a.status # 404)
      BY <2>3 DEF NoReply
    <3> QED BY <2>2, <3>1, Zenon
  <2>5. a.listing \in {None, listings[p]}
    BY <2>3
  <2> QED BY <1>1, <2>2, <2>4, <2>5 DEF Served
<1>2. CASE ~MarketLive(Current)
  <2>1. r = Outcome(FALSE, p, listings[p], None)
    BY <1>2, PublisherBuilt DEF WithdrawSupply, LogWithdrawSupply
  <2>2. /\ r.err = FALSE
        /\ r.listings = [listings EXCEPT ![p] = listings[p]]
        /\ r.last = None
    BY <2>1 DEF Outcome
  <2> QED BY <1>2, <2>2 DEF Served
<1> QED BY <1>1, <1>2
-------------------------------------------------------------------------------
LEMMA InitHolds == Init => IInv
BY DEF Init, IInv, TypeOK, Offer, LastOnlyLogged, ListedAsQuoted, LastIsFlagged, LiveEventsTrue

(* A flip, either way, whatever the publisher makes of it. *)
LEMMA FlipKeeps ==
  ASSUME IInv, NEW p \in Positions, NEW offer \in Offer, NEW r, NEW recorded \in BOOLEAN,
         NEW kind \in {"posted", "withdrawn"},
         (offer = None) <=> (kind = "withdrawn"),
         (offer = None) <=> (flagged[p] # None),
         Served(p, offer, r),
         Flip(p, offer, kind, offer, r, recorded)
  PROVE  IInv'
<1>1. /\ setting' = setting
      /\ listings' = r.listings
      /\ last' = r.last
      /\ event' = [kind |-> IF r.err THEN "error" ELSE kind, pos |-> p, quote |-> offer]
      /\ flagged' = IF recorded THEN [flagged EXCEPT ![p] = offer] ELSE flagged
      /\ unsure' = IF r.err \/ ~recorded THEN unsure \cup {p}
                   ELSE IF MarketLive(Current) THEN unsure \ {p} ELSE unsure
  BY PublisherBuilt DEF Flip
<1>2. MarketLive(Current)' <=> MarketLive(Current)
  BY <1>1 DEF Current
<1>3. /\ r.err \in BOOLEAN
      /\ \E l \in {offer, listings[p]} : r.listings = [listings EXCEPT ![p] = l]
  BY DEF Served
<1>4. TypeOK'
  <2>1. /\ flagged' \in [Positions -> Offer]
        /\ listings' \in [Positions -> Offer]
        /\ unsure' \subseteq Positions
        /\ setting' \in Settings
    BY <1>1, <1>3 DEF IInv, TypeOK
  <2>2. last' \in [pos: Positions, quote: Quotes] \cup {None}
    BY <1>1 DEF IInv, TypeOK, Served, Offer
  <2>3. event' \in [kind: {"posted", "withdrawn", "error"}, pos: Positions, quote: Offer] \cup {None}
    BY <1>1, <1>3
  <2> QED BY <2>1, <2>2, <2>3 DEF TypeOK
<1>5. LastOnlyLogged'
  BY <1>1, <1>2 DEF IInv, LastOnlyLogged, Served
<1>6. ListedAsQuoted'
  <2> SUFFICES ASSUME NEW x \in Positions \ unsure'
               PROVE  listings'[x] = IF MarketLive(Current) THEN flagged'[x] ELSE None
    BY <1>2 DEF ListedAsQuoted
  <2>1. CASE x # p
    <3>1. listings'[x] = listings[x] /\ flagged'[x] = flagged[x] /\ x \notin unsure
      BY <1>1, <1>3, <2>1 DEF IInv, TypeOK
    <3> QED BY <3>1 DEF IInv, ListedAsQuoted
  <2>2. CASE x = p
    <3>1. ~r.err /\ recorded
      BY <1>1, <2>2
    <3>2. CASE MarketLive(Current)
      BY <1>1, <2>2, <3>1, <3>2 DEF IInv, TypeOK, Served
    <3>3. CASE ~MarketLive(Current)
      <4>1. x \notin unsure /\ listings'[x] = listings[x]
        BY <1>1, <2>2, <3>1, <3>3 DEF IInv, TypeOK, Served
      <4> QED BY <3>3, <4>1 DEF IInv, ListedAsQuoted
    <3> QED BY <3>2, <3>3
  <2> QED BY <2>1, <2>2
<1>7. LastIsFlagged'
  <2>1. CASE MarketLive(Current)
    BY <1>1, <1>2, <2>1, <1>5 DEF LastOnlyLogged, LastIsFlagged
  <2>2. CASE ~MarketLive(Current)
    BY <1>1, <2>2 DEF IInv, TypeOK, LastIsFlagged, Served
  <2> QED BY <2>1, <2>2
<1>8. LiveEventsTrue'
  BY <1>1, <1>2 DEF LiveEventsTrue, MarketLabel, IInv, TypeOK, Served
<1> QED BY <1>4, <1>5, <1>6, <1>7, <1>8 DEF IInv

(* Another process: nothing of what the old one remembered is left, and a change
   of publisher puts every flagged position in doubt.                           *)
LEMMA RestartKeeps ==
  ASSUME IInv, Restart
  PROVE  IInv'
<1>1. /\ setting' \in Settings /\ last' = None /\ event' = None
      /\ flagged' = flagged /\ listings' = listings
  BY DEF Restart
<1>2. unsure' = IF MarketLive(Current)' = MarketLive(Current) THEN unsure
                ELSE unsure \cup {p \in Positions : flagged[p] # None}
  BY DEF Restart, Current
<1>3. TypeOK'
  BY <1>1, <1>2 DEF IInv, TypeOK
<1>4. ListedAsQuoted'
  <2> SUFFICES ASSUME NEW x \in Positions \ unsure'
               PROVE  listings[x] = IF MarketLive(Current)' THEN flagged[x] ELSE None
    BY <1>1 DEF ListedAsQuoted
  <2>1. listings[x] = IF MarketLive(Current) THEN flagged[x] ELSE None
    BY <1>2 DEF IInv, ListedAsQuoted
  <2>2. MarketLive(Current)' = MarketLive(Current) \/ flagged[x] = None
    BY <1>2
  <2> QED BY <2>1, <2>2 DEF MarketLive, Resolve
<1> QED BY <1>1, <1>3, <1>4 DEF IInv, LastOnlyLogged, LastIsFlagged, LiveEventsTrue

LEMMA NextKeeps == IInv /\ [Next]_vars => IInv'
<1> SUFFICES ASSUME IInv, [Next]_vars PROVE IInv'
  OBVIOUS
<1>1. ASSUME NEW p \in Positions, Publish(p) PROVE IInv'
  <2>1. PICK q \in Quotes : \E r \in PublishSupply(p, q), recorded \in BOOLEAN :
          Flip(p, q, "posted", q, r, recorded)
    BY <1>1 DEF Publish
  <2>2. PICK r \in PublishSupply(p, q), recorded \in BOOLEAN :
          Flip(p, q, "posted", q, r, recorded)
    BY <2>1
  <2> QED BY <1>1, <2>2, PublishServes, FlipKeeps, PublisherAssumption DEF Publish, Offer
<1>2. ASSUME NEW p \in Positions, Withdraw(p) PROVE IInv'
  <2>1. PICK r \in WithdrawSupply(p), recorded \in BOOLEAN :
          Flip(p, None, "withdrawn", None, r, recorded)
    BY <1>2 DEF Withdraw
  <2> QED BY <1>2, <2>1, WithdrawServes, FlipKeeps DEF Withdraw, Offer
<1>3. CASE Restart
  BY <1>3, RestartKeeps
<1>4. CASE UNCHANGED vars
  BY <1>4 DEF vars, IInv, TypeOK, LastOnlyLogged, ListedAsQuoted, LastIsFlagged, LiveEventsTrue, Current
<1> QED BY <1>1, <1>2, <1>3, <1>4 DEF Next

LEMMA Invariance == Spec => []IInv
BY InitHolds, NextKeeps, PTL DEF Spec

(* A flagged position is listed with exactly the offer of the reconcile that set
   its flag, and nothing is listed without a live publisher (market.go:45,
   httppublisher.go:71), whatever fails, restarts or is set differently.        *)
THEOREM ListedAsQuotedAlways == Spec => []ListedAsQuoted
<1>1. IInv => ListedAsQuoted
  BY DEF IInv
<1> QED BY <1>1, Invariance, PTL

(* What the one slot of the log publisher shows is on offer (market.go:46). *)
THEOREM LastIsFlaggedAlways == Spec => []LastIsFlagged
<1>1. IInv => LastIsFlagged
  BY DEF IInv
<1> QED BY <1>1, Invariance, PTL

(* Under a live label the events tell the truth about the marketplace. *)
THEOREM LiveEventsTrueAlways == Spec => []LiveEventsTrue
<1>1. IInv => LiveEventsTrue
  BY DEF IInv
<1> QED BY <1>1, Invariance, PTL

(* The marketplace is written to only with a URL and the write flag (README.md:173),
   and only if the mode is not mock: the two gates of config.go:106 and
   httppublisher.go:72 on what LoadDotEnv makes of the environment.             *)
THEOREM ConsentAlways == Spec => WritesOnlyWithConsent
<1> DEFINE Consent ==
      /\ Says("MARKET_WRITE_ENABLED", "true")
      /\ \E url \in Value \ {Unset, ""} : Says("MARKET_API_URL", url)
      /\ ~Says("MARKET_MODE", "mock")
<1>1. TypeOK /\ MarketLive(Current) => Consent
  <2> SUFFICES ASSUME TypeOK, MarketLive(Current) PROVE Consent
    OBVIOUS
  <2> DEFINE env == LoadDotEnv(setting)
  <2>1. setting \in Setting
    BY PublisherAssumption DEF TypeOK
  <2>2. /\ env["MARKET_WRITE_ENABLED"] = "true"
        /\ env["MARKET_API_URL"] \notin {Unset, ""}
        /\ env["MARKET_MODE"] # "mock"
    BY DEF MarketLive, Current, Load, Resolve, ParseMode, EnvBool
  <2>3. \A v \in Variable : env[v] \in Value
    BY <2>1 DEF Setting, LoadDotEnv
  <2>5. /\ {"MARKET_WRITE_ENABLED", "MARKET_API_URL", "MARKET_MODE"} \subseteq Variable
        /\ {"true", "mock"} \subseteq Value
    BY DEF Variable, Value
  <2>6. setting.process["MARKET_WRITE_ENABLED"] = "true"
        \/ (setting.process["MARKET_WRITE_ENABLED"] = Unset /\ setting.file["MARKET_WRITE_ENABLED"] = "true")
    BY <2>2, <2>5 DEF LoadDotEnv
  <2>7. ~Says("MARKET_MODE", "mock")
    BY <2>2, <2>5, ConfigAssumption DEF LoadDotEnv, Says
  <2>8. Says("MARKET_API_URL", env["MARKET_API_URL"])
    BY <2>5 DEF LoadDotEnv, Says
  <2>9. env["MARKET_API_URL"] \in Value \ {Unset, ""}
    BY <2>2, <2>3, <2>5
  <2> QED BY <2>6, <2>7, <2>8, <2>9 DEF Says
<1>2. TypeOK /\ [Next]_vars => (listings' # listings => Consent)
  <2> SUFFICES ASSUME TypeOK, [Next]_vars, listings' # listings
               PROVE  MarketLive(Current)
    BY <1>1
  <2> USE DEF TypeOK
  <2>1. ASSUME NEW p \in Positions, Publish(p) PROVE MarketLive(Current)
    <3>1. PICK q \in Quotes : \E r \in PublishSupply(p, q), recorded \in BOOLEAN :
            Flip(p, q, "posted", q, r, recorded)
      BY <2>1 DEF Publish
    <3>2. PICK r \in PublishSupply(p, q) : listings' = r.listings
      BY <3>1 DEF Flip
    <3>3. Served(p, q, r)
      BY <3>2, PublishServes
    <3> QED BY <3>2, <3>3 DEF Served
  <2>2. ASSUME NEW p \in Positions, Withdraw(p) PROVE MarketLive(Current)
    <3>1. PICK r \in WithdrawSupply(p) : listings' = r.listings
      BY <2>2 DEF Withdraw, Flip
    <3>2. Served(p, None, r)
      BY <3>1, WithdrawServes
    <3> QED BY <3>1, <3>2 DEF Served
  <2> QED BY <2>1, <2>2 DEF Next, Restart, vars
<1>3. IInv => TypeOK
  BY DEF IInv
<1> QED BY <1>2, <1>3, Invariance, PTL DEF Spec, WritesOnlyWithConsent
================================================================================
