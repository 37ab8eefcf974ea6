------------------------------ MODULE Console ------------------------------
(***************************************************************************)
(* The console's backend: one goroutine polls the API server and the price *)
(* source, builds a State in three remote calls and publishes it; the HTTP *)
(* handlers serve whatever was published last.  The rolling histories and  *)
(* the previous prices live in the builder and outlast a poll; all of it   *)
(* is lost when the console restarts.                                      *)
(***************************************************************************)
EXTENDS Naturals, SequencesExt

CONSTANTS
  POS,        \* the ComputePositions that may exist, in every namespace
  NAME,       \* their names
  NameOf,     \* the name of each position: namespaces may repeat a name
  SKU,        \* the GPU models
  REPORT,     \* what a position may say of itself: records [sku, spot]
  PRICE,      \* the prices a source may answer, in any unit
  Cap,        \* historyPoints: samples kept per series
  None        \* no report, no earlier price

ASSUME ConsoleAssumption ==
  /\ NameOf \in [POS -> NAME]
  /\ PRICE \subseteq Nat
  /\ REPORT \subseteq [sku : SKU, spot : Nat]
  /\ Cap \in Nat \ {0}
  /\ None \notin REPORT /\ None \notin Nat

VARIABLES
  positions,   \* cluster: the report of every position, None when absent
  step,        \* poll goroutine: the call it makes next
  hist,        \* builder: the series of every position name
  pfHist,      \* builder: the portfolio series
  prevPrices,  \* builder: the prices of the last ticker that had any
  draft,       \* Build's local state between two calls
  latest,      \* the published State
  listening    \* ListenAndServe was reached

vars == <<positions, step, hist, pfHist, prevPrices, draft, latest, listening>>
-----------------------------------------------------------------------------
Cards == [POS -> REPORT \cup {None}]

ListedIn(cards) == {p \in POS : cards[p] # None}

SkusIn(cards) == {cards[p].sku : p \in ListedIn(cards)}

(* Mutant: one sample too many is kept.                                    *)
PushTooLong(s, v) ==
  LET buf == Append(s, v)
  IN  IF Len(s) > Cap THEN SubSeq(buf, Len(buf) - Cap, Len(buf)) ELSE buf

(* (s *Store) Push: a sample is added, what exceeds the cap is cut off.    *)
Push(s, v) ==
  LET buf == Append(s, v)
  IN  IF Len(buf) > Cap THEN SubSeq(buf, Len(buf) - Cap + 1, Len(buf)) ELSE buf

(* A map with one more entry, or another value in it.                      *)
Put(f, k, v) == [x \in DOMAIN f \cup {k} |-> IF x = k THEN v ELSE f[x]]

(* What Fetch may return: it asks for every SKU and omits those that fail. *)
Answers(skus) == UNION {[answered -> PRICE] : answered \in SUBSET skus}

(* Mutant: the status prices are left out.                                 *)
MergedFetchedOnly(fetched, status) == fetched

(* Fetched prices win over those of the positions' status.                 *)
Merged(fetched, status) ==
  [k \in DOMAIN fetched \cup DOMAIN status |->
     IF k \in DOMAIN fetched THEN fetched[k] ELSE status[k]]

(* What the change of a price is measured against; None shows as zero.     *)
Against(k, prev) == IF k \in DOMAIN prev /\ prev[k] > 0 THEN prev[k] ELSE None

(* Mutant: the previous prices are replaced before they are compared.      *)
TickerReplacedFirst(merged, prev) ==
  [k \in DOMAIN merged |-> [price |-> merged[k], against |-> Against(k, merged)]]

(* buildPrices: the ticker, each price with the earlier one.               *)
Ticker(merged, prev) ==
  [k \in DOMAIN merged |-> [price |-> merged[k], against |-> Against(k, prev)]]

NoPrices == [k \in {} |-> 0]

(* The zero State, which is served until a first Build has succeeded.      *)
ZeroState ==
  [built |-> FALSE, cards |-> [p \in POS |-> None], series |-> [p \in {} |-> <<>>],
   pf |-> <<>>, ticker |-> [k \in {} |-> None], hasEvents |-> FALSE]

NoDraft ==
  [items |-> [p \in POS |-> None], status |-> NoPrices, state |-> ZeroState]
-----------------------------------------------------------------------------
(* A fresh console process: nothing built, nothing served.                 *)
Fresh(s, h, pf, prev, d, l, on) ==
  /\ s = "list"
  /\ h = [x \in NAME |-> <<>>]
  /\ pf = <<>>
  /\ prev = NoPrices
  /\ d = NoDraft
  /\ l = ZeroState
  /\ on = FALSE

Init ==
  /\ positions \in Cards
  /\ Fresh(step, hist, pfHist, prevPrices, draft, latest, listening)

(* Build: List, a snapshot of the cluster.                                 *)
ListPositions ==
  /\ step = "list"
  /\ draft' = [items |-> positions, status |-> NoPrices,
               state |-> [ZeroState EXCEPT !.built = TRUE]]
  /\ step' = "positions"
  /\ UNCHANGED <<positions, hist, pfHist, prevPrices, latest, listening>>

(* List failed: poll logs it and leaves the published State alone.         *)
ListFails ==
  /\ step = "list"
  /\ listening' = TRUE
  /\ UNCHANGED <<positions, step, hist, pfHist, prevPrices, draft, latest>>

(* Mutant: a position without a price pushes nothing.                      *)
BuildPositionIfPriced(p) ==
  LET r == draft.items[p]
      series == IF r.spot > 0 THEN Push(hist[NameOf[p]], r) ELSE hist[NameOf[p]]
  IN  /\ step = "positions"
      /\ p \in ListedIn(draft.items)
      /\ hist' = [hist EXCEPT ![NameOf[p]] = series]
      /\ draft' = [draft EXCEPT
           !.items[p] = None,
           !.status = IF r.spot > 0 THEN Put(draft.status, r.sku, r.spot) ELSE draft.status,
           !.state.cards[p] = r,
           !.state.series = Put(draft.state.series, p, series)]
      /\ UNCHANGED <<positions, step, pfHist, prevPrices, latest, listening>>

(* The loop over the items, in any order: the card takes its series right  *)
(* after its own push; of the positions of a SKU the last priced one       *)
(* counts in statusPrices.                                                 *)
BuildPosition(p) ==
  LET r == draft.items[p]
      series == Push(hist[NameOf[p]], r)
  IN  /\ step = "positions"
      /\ p \in ListedIn(draft.items)
      /\ hist' = [hist EXCEPT ![NameOf[p]] = series]
      /\ draft' = [draft EXCEPT
           !.items[p] = None,
           !.status = IF r.spot > 0 THEN Put(draft.status, r.sku, r.spot) ELSE draft.status,
           !.state.cards[p] = r,
           !.state.series = Put(draft.state.series, p, series)]
      /\ UNCHANGED <<positions, step, pfHist, prevPrices, latest, listening>>

(* Fetch, then buildPrices and the pushes of the portfolio.                *)
FetchPrices ==
  /\ step = "positions"
  /\ ListedIn(draft.items) = {}
  /\ \E fetched \in Answers(SkusIn(draft.state.cards)) :
       LET merged == Merged(fetched, draft.status)
       IN  /\ draft' = [draft EXCEPT
                          !.state.ticker = Ticker(merged, prevPrices),
                          !.state.pf = Push(pfHist, draft.state.cards)]
           /\ prevPrices' = IF DOMAIN merged # {} THEN merged ELSE prevPrices
  /\ pfHist' = Push(pfHist, draft.state.cards)
  /\ step' = "events"
  /\ UNCHANGED <<positions, hist, latest, listening>>

(* Mutant: a failing event list fails the whole poll.                      *)
PublishNeedsEvents ==
  /\ step = "events"
  /\ \/ \E feed \in BOOLEAN : latest' = [draft.state EXCEPT !.hasEvents = feed]
     \/ latest' = latest
  /\ listening' = TRUE
  /\ draft' = NoDraft
  /\ step' = "list"
  /\ UNCHANGED <<positions, hist, pfHist, prevPrices>>

(* buildEvents, whose failure only empties the feed, and the publication.  *)
(* The feed shows the newest of whatever events are recorded by then.      *)
Publish ==
  /\ step = "events"
  /\ \E feed \in BOOLEAN : latest' = [draft.state EXCEPT !.hasEvents = feed]
  /\ listening' = TRUE
  /\ draft' = NoDraft
  /\ step' = "list"
  /\ UNCHANGED <<positions, hist, pfHist, prevPrices>>

Restart ==
  /\ Fresh(step', hist', pfHist', prevPrices', draft', latest', listening')
  /\ UNCHANGED positions
-----------------------------------------------------------------------------
(* The cluster: users and the operator write positions.                    *)
PositionChanges ==
  /\ \E p \in POS, r \in REPORT \cup {None} :
       /\ r # positions[p]
       /\ positions' = [positions EXCEPT ![p] = r]
  /\ UNCHANGED <<step, hist, pfHist, prevPrices, draft, latest, listening>>

Poll ==
  \/ ListPositions \/ ListFails
  \/ \E p \in POS : BuildPosition(p)
  \/ FetchPrices \/ Publish

Next == Poll \/ Restart \/ PositionChanges

(* The ticker fires for ever and every call ends within five seconds.  The *)
(* API server does not fail every List, or nothing is ever published.      *)
Fairness ==
  /\ WF_vars(ListPositions)
  /\ WF_vars(\E p \in POS : BuildPosition(p))
  /\ WF_vars(FetchPrices)
  /\ WF_vars(Publish)

Spec == Init /\ [][Next]_vars /\ Fairness
-----------------------------------------------------------------------------
(* The json encoder writes a nil slice as null: buildEvents and Build      *)
(* append to nil slices, buildPrices to an empty one.                      *)
Encoded ==
  [events |-> IF latest.hasEvents THEN "array" ELSE "null",
   positions |-> IF ListedIn(latest.cards) = {} THEN "null" ELSE "array",
   prices |-> IF latest.built THEN "array" ELSE "null"]

ShownPrice == PRICE \cup {r.spot : r \in REPORT}

Prices == UNION {[S -> ShownPrice] : S \in SUBSET SKU}

Tickers ==
  UNION {[S -> [price : ShownPrice, against : ShownPrice \cup {None}]] : S \in SUBSET SKU}

IsState(s) ==
  /\ s \in [built : BOOLEAN, cards : Cards, series : {s.series}, pf : Seq(Cards),
            ticker : Tickers, hasEvents : BOOLEAN]
  /\ s.series \in [ListedIn(s.cards) -> Seq(REPORT)]

(* Types, and the retention of both kinds of series.                       *)
TypeOK ==
  /\ positions \in Cards
  /\ step \in {"list", "positions", "events"}
  /\ hist \in [NAME -> Seq(REPORT)] /\ \A x \in NAME : Len(hist[x]) <= Cap
  /\ pfHist \in Seq(Cards) /\ Len(pfHist) <= Cap
  /\ prevPrices \in Prices
  /\ draft \in [items : Cards, status : Prices, state : {draft.state}]
  /\ IsState(draft.state)
  /\ IsState(latest)
  /\ listening \in BOOLEAN

(* A State is built over three calls while the cluster moves on, yet it    *)
(* tells one story: the portfolio and every card end their series at the   *)
(* values shown, and every card with a price finds its SKU in the ticker,  *)
(* even when the price source fails.                                       *)
TellsOneStory(s) ==
  /\ s.pf # <<>> /\ Last(s.pf) = s.cards
  /\ \A p \in ListedIn(s.cards) :
       /\ s.series[p] # <<>> /\ Last(s.series[p]) = s.cards[p]
       /\ s.cards[p].spot > 0 => s.cards[p].sku \in DOMAIN s.ticker

PublishedTellsOneStory == latest.built => TellsOneStory(latest)

(* The reports of p in the lists of a portfolio series end a series of     *)
(* samples: counted from the end, each is at its place among them.         *)
HeldFrom(p, lists, i) == {j \in i..Len(lists) : lists[j][p] # None}

EndsWithReports(samples, p, lists) ==
  \A i \in DOMAIN lists :
    lists[i][p] # None =>
      LET n == Cardinality(HeldFrom(p, lists, i))
      IN  n <= Len(samples) /\ samples[Len(samples) + 1 - n] = lists[i][p]

NamedAlone(p) == \A q \in POS \ {p} : NameOf[q] # NameOf[p]

(* A position whose name no other namespace repeats has a series of its    *)
(* own: across failed polls and polls that did not list it, the series     *)
(* ends with exactly the reports that the portfolio series summed up.      *)
SeriesAgree ==
  \A p \in ListedIn(latest.cards) :
    NamedAlone(p) => EndsWithReports(latest.series[p], p, latest.pf)

(* The change next to a price is measured against the price that the       *)
(* State before showed, and is zero for a SKU which that State lacked;     *)
(* only a State without any price is passed over.                          *)
ChangeAgainstShown ==
  [][latest' # latest /\ latest'.built /\ DOMAIN latest.ticker # {} =>
       \A k \in DOMAIN latest'.ticker :
         latest'.ticker[k].against =
           IF k \in DOMAIN latest.ticker /\ latest.ticker[k].price > 0
             THEN latest.ticker[k].price ELSE None]_vars

(* Once the positions stay as they are, and the console stays up, it shows *)
(* them for good, whatever the price source and the event list do.         *)
ShowsTheCluster ==
  <>[][FALSE]_positions /\ <>[]listening
    => <>[](latest.built /\ latest.cards = positions)

(* api.ts:76 declares the events of a State as an array, and the page      *)
(* takes its length to show that there are none.                           *)
EventsServed == latest.built => Encoded.events = "array"
=============================================================================
