--------------------------- MODULE ConsoleProofs ---------------------------
(***************************************************************************)
(* The types of the console, that a published State tells one story, that  *)
(* its series agree with each other, and the change shown next to a price, *)
(* for every console: any positions, names, SKUs and retention, across     *)
(* failed polls, failed prices and restarts.                               *)
(***************************************************************************)
EXTENDS Console, FiniteSetTheorems, TLAPS

(* What the builder keeps of a series.                                     *)
Kept(s) == IF Len(s) > Cap THEN SubSeq(s, Len(s) - Cap + 1, Len(s)) ELSE s
-----------------------------------------------------------------------------
(* What a push leaves: samples of the same kind, within the cap, of which  *)
(* the last is the one pushed.                                             *)
LEMMA PushFacts ==
  ASSUME NEW T, NEW s \in Seq(T), NEW v \in T
  PROVE  /\ Push(s, v) \in Seq(T)
         /\ Len(Push(s, v)) <= Cap
         /\ Push(s, v) # <<>> /\ Last(Push(s, v)) = v
         /\ Push(s, v) = Kept(Append(s, v))
<1> DEFINE buf == Append(s, v)
<1>1. buf \in Seq(T) /\ Len(buf) = Len(s) + 1 /\ buf[Len(buf)] = v
  OBVIOUS
<1>2. Push(s, v) = Kept(buf)
  BY DEF Push, Kept
<1> HIDE DEF buf
<1>3. CASE Len(buf) > Cap
  <2>1. Kept(buf) = SubSeq(buf, Len(buf) - Cap + 1, Len(buf))
    BY <1>3 DEF Kept
  <2>2. /\ Len(buf) - Cap + 1 \in 1..Len(buf)
        /\ Len(buf) \in 1..Len(buf)
    BY <1>1, <1>3, ConsoleAssumption DEF ConsoleAssumption
  <2>3. /\ Kept(buf) \in Seq(T)
        /\ Len(Kept(buf)) = Cap
        /\ Kept(buf)[Cap] = buf[Len(buf)]
    BY <1>1, <2>1, <2>2, ConsoleAssumption DEF ConsoleAssumption
  <2> QED
    <3> DEFINE k == Kept(buf)
    <3>1. k \in Seq(T) /\ Len(k) = Cap /\ k[Cap] = v /\ Cap \in Nat \ {0}
      BY <1>1, <2>3, ConsoleAssumption DEF ConsoleAssumption
    <3> HIDE DEF k
    <3>2. k # <<>> /\ k[Len(k)] = v /\ Len(k) <= Cap
      BY <3>1
    <3> QED
      BY <1>2, <3>1, <3>2 DEF k, buf, Last
<1>4. CASE ~(Len(buf) > Cap)
  <2>1. Kept(buf) = buf
    BY <1>4 DEF Kept
  <2>2. buf # <<>> /\ Len(buf) <= Cap
    BY <1>1, <1>4, ConsoleAssumption DEF ConsoleAssumption
  <2> QED
    BY <1>1, <1>2, <2>1, <2>2 DEF buf, Last
<1> QED
  BY <1>3, <1>4
-----------------------------------------------------------------------------
(* The prices of positions, of any source and of both together.            *)
LEMMA PutPrice ==
  ASSUME NEW status \in Prices, NEW r \in REPORT
  PROVE  Put(status, r.sku, r.spot) \in Prices
<1>1. PICK S \in SUBSET SKU : status \in [S -> ShownPrice]
  BY DEF Prices
<1>2. r.sku \in SKU /\ r.spot \in ShownPrice
  BY ConsoleAssumption DEF ConsoleAssumption, ShownPrice
<1>3. Put(status, r.sku, r.spot) \in [S \cup {r.sku} -> ShownPrice]
  BY <1>1, <1>2 DEF Put
<1>4. S \cup {r.sku} \in SUBSET SKU
  BY <1>2
<1> QED
  BY <1>3, <1>4 DEF Prices

LEMMA MergedPrices ==
  ASSUME NEW skus \in SUBSET SKU, NEW fetched \in Answers(skus), NEW status \in Prices
  PROVE  /\ Merged(fetched, status) \in Prices
         /\ DOMAIN Merged(fetched, status) = DOMAIN fetched \cup DOMAIN status
<1>1. PICK S \in SUBSET SKU : status \in [S -> ShownPrice]
  BY DEF Prices
<1>2. PICK A \in SUBSET skus : fetched \in [A -> PRICE]
  BY DEF Answers
<1>3. \A k \in A : fetched[k] \in ShownPrice
  BY <1>2 DEF ShownPrice
<1>4. Merged(fetched, status) \in [A \cup S -> ShownPrice]
  BY <1>1, <1>2, <1>3 DEF Merged
<1>5. A \cup S \in SUBSET SKU
  OBVIOUS
<1> QED
  BY <1>1, <1>2, <1>4, <1>5 DEF Prices

LEMMA TickerType ==
  ASSUME NEW merged \in Prices, NEW prev \in Prices
  PROVE  Ticker(merged, prev) \in Tickers /\ DOMAIN Ticker(merged, prev) = DOMAIN merged
<1>1. PICK S \in SUBSET SKU : merged \in [S -> ShownPrice]
  BY DEF Prices
<1>2. PICK P \in SUBSET SKU : prev \in [P -> ShownPrice]
  BY DEF Prices
<1>3. \A k : Against(k, prev) \in ShownPrice \cup {None}
  BY <1>2 DEF Against
<1>4. \A k \in S : Ticker(merged, prev)[k]
                     \in [price : ShownPrice, against : ShownPrice \cup {None}]
  BY <1>1, <1>3 DEF Ticker
<1>5. Ticker(merged, prev) = [k \in S |-> Ticker(merged, prev)[k]]
  BY <1>1 DEF Ticker
<1>6. Ticker(merged, prev)
        \in [S -> [price : ShownPrice, against : ShownPrice \cup {None}]]
  BY <1>4, <1>5
<1> QED
  BY <1>1, <1>6 DEF Tickers, Ticker

LEMMA SkusType ==
  ASSUME NEW cards \in Cards
  PROVE  SkusIn(cards) \in SUBSET SKU
BY ConsoleAssumption DEF ConsoleAssumption, SkusIn, ListedIn, Cards

LEMMA ZeroType ==
  /\ IsState(ZeroState) /\ ZeroState.cards = [p \in POS |-> None]
  /\ IsState([ZeroState EXCEPT !.built = TRUE])
  /\ NoPrices \in Prices /\ DOMAIN NoPrices = {}
  /\ NoDraft.items \in Cards /\ NoDraft.status = NoPrices /\ NoDraft.state = ZeroState
  /\ NoDraft \in [items : Cards, status : Prices, state : {NoDraft.state}]
  /\ ~ZeroState.built /\ DOMAIN ZeroState.ticker = {}
<1>1. /\ [p \in POS |-> None] \in Cards
      /\ ListedIn([p \in POS |-> None]) = {}
  BY DEF Cards, ListedIn
<1>2. [k \in {} |-> None] \in Tickers
  <2>1. [k \in {} |-> None]
          \in [{} -> [price : ShownPrice, against : ShownPrice \cup {None}]]
    OBVIOUS
  <2> QED
    BY <2>1 DEF Tickers
<1>3. NoPrices \in Prices /\ DOMAIN NoPrices = {}
  <2>1. NoPrices \in [{} -> ShownPrice]
    BY DEF NoPrices
  <2> QED
    BY <2>1 DEF Prices
<1>4. [p \in {} |-> <<>>] \in [{} -> Seq(REPORT)]
  OBVIOUS
<1>5. IsState(ZeroState) /\ ZeroState.cards = [p \in POS |-> None]
  BY <1>1, <1>2, <1>4 DEF IsState, ZeroState
<1>6. IsState([ZeroState EXCEPT !.built = TRUE])
  <2> DEFINE z == [ZeroState EXCEPT !.built = TRUE]
  <2>1. /\ z.cards = ZeroState.cards /\ z.series = ZeroState.series
        /\ z \in [built : BOOLEAN, cards : Cards, series : {ZeroState.series},
                  pf : Seq(Cards), ticker : Tickers, hasEvents : BOOLEAN]
    BY <1>5 DEF IsState
  <2> QED
    BY <1>5, <2>1 DEF IsState
<1>7. ~ZeroState.built /\ DOMAIN ZeroState.ticker = {}
  BY DEF ZeroState
<1> QED
  BY <1>1, <1>3, <1>5, <1>6, <1>7 DEF NoDraft

LEMMA FreshType ==
  ASSUME NEW s, NEW h, NEW pf, NEW prev, NEW d, NEW l, NEW on,
         Fresh(s, h, pf, prev, d, l, on)
  PROVE  /\ s = "list"
         /\ h \in [NAME -> Seq(REPORT)] /\ \A x \in NAME : Len(h[x]) <= Cap
         /\ pf \in Seq(Cards) /\ Len(pf) <= Cap
         /\ prev \in Prices
         /\ d \in [items : Cards, status : Prices, state : {d.state}]
         /\ IsState(d.state) /\ IsState(l) /\ on \in BOOLEAN
<1>1. /\ s = "list" /\ h = [x \in NAME |-> <<>>] /\ pf = <<>> /\ prev = NoPrices
      /\ d = NoDraft /\ l = ZeroState /\ on = FALSE
  BY DEF Fresh
<1>2. Len(<<>>) = 0 /\ 0 <= Cap
  BY ConsoleAssumption DEF ConsoleAssumption
<1>3. h \in [NAME -> Seq(REPORT)] /\ \A x \in NAME : Len(h[x]) <= Cap
  BY <1>1, <1>2
<1>4. pf \in Seq(Cards) /\ Len(pf) <= Cap
  BY <1>1, <1>2
<1> QED
  BY <1>1, <1>3, <1>4, ZeroType

LEMMA TypeInit == Init => TypeOK
BY FreshType DEF Init, TypeOK

(* What the loop does to the draft.                                        *)
LEMMA BuildType ==
  ASSUME TypeOK, NEW p \in POS, BuildPosition(p)
  PROVE  TypeOK'
<1> DEFINE r == draft.items[p]
           series == Push(hist[NameOf[p]], r)
           status == IF r.spot > 0 THEN Put(draft.status, r.sku, r.spot) ELSE draft.status
<1>1. r \in REPORT
  BY DEF BuildPosition, TypeOK, ListedIn, Cards
<1>2. NameOf[p] \in NAME /\ hist[NameOf[p]] \in Seq(REPORT)
  BY ConsoleAssumption DEF ConsoleAssumption, TypeOK
<1>3. series \in Seq(REPORT) /\ Len(series) <= Cap
  BY <1>1, <1>2, PushFacts
<1>4. status \in Prices
  BY <1>1, PutPrice DEF TypeOK
<1>5. /\ hist' = [hist EXCEPT ![NameOf[p]] = series]
      /\ draft' = [draft EXCEPT !.items[p] = None, !.status = status,
                     !.state.cards[p] = r, !.state.series = Put(draft.state.series, p, series)]
      /\ UNCHANGED <<positions, step, pfHist, prevPrices, latest, listening>>
  BY DEF BuildPosition
<1> HIDE DEF r, series, status
<1>6. /\ hist' \in [NAME -> Seq(REPORT)]
      /\ \A x \in NAME : Len(hist'[x]) <= Cap
  BY <1>2, <1>3, <1>5 DEF TypeOK
<1>7. /\ draft' \in [items : Cards, status : Prices, state : {draft'.state}]
      /\ draft'.state = [draft.state EXCEPT !.cards[p] = r,
                           !.series = Put(draft.state.series, p, series)]
  BY <1>4, <1>5 DEF TypeOK, Cards
<1>8. IsState(draft'.state)
  <2>1. IsState(draft.state)
    BY DEF TypeOK
  <2> DEFINE st == draft.state
             cards == [st.cards EXCEPT ![p] = r]
  <2>2. cards \in Cards /\ ListedIn(cards) = ListedIn(st.cards) \cup {p}
    BY <1>1, <2>1, ConsoleAssumption DEF ConsoleAssumption, IsState, Cards, ListedIn
  <2>3. Put(st.series, p, series) \in [ListedIn(cards) -> Seq(REPORT)]
    BY <1>3, <2>1, <2>2 DEF IsState, Put
  <2>4. /\ draft'.state.cards = cards
        /\ draft'.state.series = Put(st.series, p, series)
        /\ draft'.state \in [built : BOOLEAN, cards : Cards, series : {draft'.state.series},
                             pf : Seq(Cards), ticker : Tickers, hasEvents : BOOLEAN]
    BY <1>7, <2>1, <2>2 DEF IsState
  <2> QED
    BY <2>3, <2>4 DEF IsState
<1> QED
  BY <1>5, <1>6, <1>7, <1>8 DEF TypeOK

(* What Fetch and buildPrices do to the draft.                             *)
LEMMA FetchFacts ==
  ASSUME TypeOK, FetchPrices
  PROVE  \E merged \in Prices :
           /\ DOMAIN draft.status \subseteq DOMAIN merged
           /\ draft'.items = draft.items /\ draft'.status = draft.status
           /\ draft' \in [items : Cards, status : Prices, state : {draft'.state}]
           /\ draft'.state = [draft.state EXCEPT !.ticker = Ticker(merged, prevPrices),
                                 !.pf = Push(pfHist, draft.state.cards)]
           /\ prevPrices' = IF DOMAIN merged # {} THEN merged ELSE prevPrices
<1>1. PICK fetched \in Answers(SkusIn(draft.state.cards)) :
        LET merged == Merged(fetched, draft.status)
        IN  /\ draft' = [draft EXCEPT
                           !.state.ticker = Ticker(merged, prevPrices),
                           !.state.pf = Push(pfHist, draft.state.cards)]
            /\ prevPrices' = IF DOMAIN merged # {} THEN merged ELSE prevPrices
  BY DEF FetchPrices
<1> DEFINE merged == Merged(fetched, draft.status)
<1>2. draft.state.cards \in Cards /\ draft.status \in Prices
  BY DEF TypeOK, IsState
<1>3. /\ merged \in Prices
      /\ DOMAIN merged = DOMAIN fetched \cup DOMAIN draft.status
  BY <1>2, SkusType, MergedPrices
<1> HIDE DEF merged
<1>4. draft' = [draft EXCEPT !.state.ticker = Ticker(merged, prevPrices),
                             !.state.pf = Push(pfHist, draft.state.cards)]
  BY <1>1 DEF merged
<1>5. prevPrices' = IF DOMAIN merged # {} THEN merged ELSE prevPrices
  BY <1>1 DEF merged
<1>6. /\ draft'.items = draft.items /\ draft'.status = draft.status
      /\ draft' \in [items : Cards, status : Prices, state : {draft'.state}]
      /\ draft'.state = [draft.state EXCEPT !.ticker = Ticker(merged, prevPrices),
                                            !.pf = Push(pfHist, draft.state.cards)]
  BY <1>4 DEF TypeOK
<1> QED
  BY <1>3, <1>5, <1>6

LEMMA FetchType ==
  ASSUME TypeOK, FetchPrices
  PROVE  TypeOK'
<1>1. PICK merged \in Prices :
        /\ draft' \in [items : Cards, status : Prices, state : {draft'.state}]
        /\ draft'.state = [draft.state EXCEPT !.ticker = Ticker(merged, prevPrices),
                              !.pf = Push(pfHist, draft.state.cards)]
        /\ prevPrices' = IF DOMAIN merged # {} THEN merged ELSE prevPrices
  BY FetchFacts
<1>2. draft.state.cards \in Cards /\ pfHist \in Seq(Cards)
  BY DEF TypeOK, IsState
<1>3. Push(pfHist, draft.state.cards) \in Seq(Cards) /\ Len(Push(pfHist, draft.state.cards)) <= Cap
  BY <1>2, PushFacts
<1>4. Ticker(merged, prevPrices) \in Tickers
  BY TickerType DEF TypeOK
<1>5. IsState(draft'.state)
  <2>1. IsState(draft.state)
    BY DEF TypeOK
  <2>2. /\ draft'.state.cards = draft.state.cards
        /\ draft'.state.series = draft.state.series
        /\ draft'.state \in [built : BOOLEAN, cards : Cards, series : {draft.state.series},
                             pf : Seq(Cards), ticker : Tickers, hasEvents : BOOLEAN]
    BY <1>1, <1>3, <1>4, <2>1 DEF IsState
  <2> QED
    BY <2>1, <2>2 DEF IsState
<1>6. /\ pfHist' = Push(pfHist, draft.state.cards) /\ step' = "events"
      /\ UNCHANGED <<positions, hist, latest, listening>>
  BY DEF FetchPrices
<1> QED
  BY <1>1, <1>3, <1>5, <1>6 DEF TypeOK

(* What Publish serves: the draft, with or without a feed.                 *)
LEMMA PublishFacts ==
  ASSUME TypeOK, Publish
  PROVE  /\ IsState(latest')
         /\ latest'.built = draft.state.built /\ latest'.cards = draft.state.cards
         /\ latest'.series = draft.state.series /\ latest'.pf = draft.state.pf
         /\ latest'.ticker = draft.state.ticker
<1>1. PICK feed \in BOOLEAN : latest' = [draft.state EXCEPT !.hasEvents = feed]
  BY DEF Publish
<1>2. IsState(draft.state)
  BY DEF TypeOK
<1>3. /\ latest'.built = draft.state.built /\ latest'.cards = draft.state.cards
      /\ latest'.series = draft.state.series /\ latest'.pf = draft.state.pf
      /\ latest'.ticker = draft.state.ticker
      /\ latest' \in [built : BOOLEAN, cards : Cards, series : {draft.state.series},
                      pf : Seq(Cards), ticker : Tickers, hasEvents : BOOLEAN]
  BY <1>1, <1>2 DEF IsState
<1> QED
  BY <1>2, <1>3 DEF IsState

LEMMA TypeStep == TypeOK /\ [Next]_vars => TypeOK'
<1> SUFFICES ASSUME TypeOK, [Next]_vars PROVE TypeOK'
  OBVIOUS
<1>1. CASE ListPositions
  <2>1. /\ step' = "positions"
        /\ draft' = [items |-> positions, status |-> NoPrices,
                     state |-> [ZeroState EXCEPT !.built = TRUE]]
        /\ UNCHANGED <<positions, hist, pfHist, prevPrices, latest, listening>>
    BY <1>1 DEF ListPositions
  <2>2. draft' \in [items : Cards, status : Prices, state : {draft'.state}]
    BY <2>1, ZeroType DEF TypeOK
  <2>3. IsState(draft'.state)
    BY <2>1, ZeroType
  <2> QED
    BY <2>1, <2>2, <2>3 DEF TypeOK
<1>2. CASE ListFails
  BY <1>2 DEF ListFails, TypeOK
<1>3. CASE \E p \in POS : BuildPosition(p)
  BY <1>3, BuildType
<1>4. CASE FetchPrices
  BY <1>4, FetchType
<1>5. CASE Publish
  <2>1. /\ draft' = NoDraft /\ step' = "list" /\ listening' = TRUE
        /\ UNCHANGED <<positions, hist, pfHist, prevPrices>>
    BY <1>5 DEF Publish
  <2>2. IsState(latest')
    BY <1>5, PublishFacts
  <2> QED
    BY <2>1, <2>2, ZeroType DEF TypeOK
<1>6. CASE Restart
  <2>1. Fresh(step', hist', pfHist', prevPrices', draft', latest', listening')
    BY <1>6 DEF Restart
  <2> HIDE DEF Fresh
  <2> QED
    BY <1>6, <2>1, FreshType DEF Restart, TypeOK
<1>7. CASE PositionChanges
  BY <1>7 DEF PositionChanges, TypeOK, Cards
<1>8. CASE UNCHANGED vars
  BY <1>8 DEF vars, TypeOK
<1> QED
  BY <1>1, <1>2, <1>3, <1>4, <1>5, <1>6, <1>7, <1>8 DEF Next, Poll

(* state.go and history.go: every value of the console keeps its type, and *)
(* no series ever holds more samples than the retention allows.            *)
THEOREM TypeCorrect == Spec => []TypeOK
BY TypeInit, TypeStep, PTL DEF Spec
-----------------------------------------------------------------------------
(* While the loop runs, what it has built tells one story with the prices  *)
(* it has found so far, and what it still has to build is in no card.      *)
Building ==
  step = "positions" =>
    /\ \A p \in POS : draft.items[p] # None => draft.state.cards[p] = None
    /\ \A p \in ListedIn(draft.state.cards) :
         /\ draft.state.series[p] # <<>>
         /\ Last(draft.state.series[p]) = draft.state.cards[p]
         /\ draft.state.cards[p].spot > 0
              => draft.state.cards[p].sku \in DOMAIN draft.status

StoryInv ==
  /\ TypeOK
  /\ Building
  /\ step = "events" => TellsOneStory(draft.state)
  /\ PublishedTellsOneStory

LEMMA StoryInit == Init => StoryInv
BY TypeInit, ZeroType DEF Init, Fresh, StoryInv, Building, PublishedTellsOneStory

(* One round of the loop.                                                  *)
LEMMA BuildStory ==
  ASSUME StoryInv, NEW p \in POS, BuildPosition(p)
  PROVE  Building'
<1> DEFINE r == draft.items[p]
           series == Push(hist[NameOf[p]], r)
           st == draft.state
<1>1. r \in REPORT /\ r # None
  BY ConsoleAssumption DEF ConsoleAssumption, BuildPosition, StoryInv, TypeOK, ListedIn, Cards
<1>2. hist[NameOf[p]] \in Seq(REPORT)
  BY ConsoleAssumption DEF ConsoleAssumption, StoryInv, TypeOK
<1>3. series # <<>> /\ Last(series) = r
  BY <1>1, <1>2, PushFacts
<1>4. draft' = [draft EXCEPT
                  !.items[p] = None,
                  !.status = IF r.spot > 0 THEN Put(draft.status, r.sku, r.spot)
                                           ELSE draft.status,
                  !.state.cards[p] = r, !.state.series = Put(st.series, p, series)]
  BY DEF BuildPosition
<1> HIDE DEF r, series
<1>5. /\ draft'.items = [draft.items EXCEPT ![p] = None]
      /\ draft'.status = IF r.spot > 0 THEN Put(draft.status, r.sku, r.spot) ELSE draft.status
      /\ draft'.state.cards = [st.cards EXCEPT ![p] = r]
      /\ draft'.state.series = Put(st.series, p, series)
  <2>1. /\ draft \in [items : Cards, status : Prices, state : {st}]
        /\ st \in [built : BOOLEAN, cards : Cards, series : {st.series}, pf : Seq(Cards),
                   ticker : Tickers, hasEvents : BOOLEAN]
    BY DEF StoryInv, TypeOK, IsState
  <2>2. draft'.state = [st EXCEPT !.cards[p] = r, !.series = Put(st.series, p, series)]
    BY <1>4, <2>1
  <2> QED
    BY <1>4, <2>1, <2>2
<1>6. /\ st.cards \in Cards /\ draft.items \in Cards
      /\ st.series \in [ListedIn(st.cards) -> Seq(REPORT)]
  BY DEF StoryInv, TypeOK, IsState
<1>7. /\ ListedIn(draft'.state.cards) = ListedIn(st.cards) \cup {p}
      /\ draft'.state.cards[p] = r
      /\ \A q \in POS \ {p} : draft'.state.cards[q] = st.cards[q]
  BY <1>1, <1>5, <1>6 DEF ListedIn, Cards
<1>8. /\ DOMAIN draft.status \subseteq DOMAIN draft'.status
      /\ r.spot > 0 => r.sku \in DOMAIN draft'.status
  BY <1>5 DEF Put
<1>9. /\ draft'.state.series[p] = series
      /\ \A q \in ListedIn(st.cards) \ {p} : draft'.state.series[q] = st.series[q]
  BY <1>5, <1>6 DEF Put
<1>10. step = "positions"
  BY DEF BuildPosition
<1>11. \A q \in POS : draft'.items[q] # None => draft'.state.cards[q] = None
  BY <1>5, <1>6, <1>7, <1>10 DEF StoryInv, Building, Cards
<1>12. ASSUME NEW q \in ListedIn(draft'.state.cards)
       PROVE  /\ draft'.state.series[q] # <<>>
              /\ Last(draft'.state.series[q]) = draft'.state.cards[q]
              /\ draft'.state.cards[q].spot > 0
                   => draft'.state.cards[q].sku \in DOMAIN draft'.status
  <2>1. CASE q = p
    BY <1>3, <1>7, <1>8, <1>9, <2>1
  <2>2. CASE q # p
    <3>1. q \in ListedIn(st.cards) /\ q \in POS \ {p}
      BY <1>7, <1>12, <2>2 DEF ListedIn
    <3>2. /\ st.series[q] # <<>> /\ Last(st.series[q]) = st.cards[q]
          /\ st.cards[q].spot > 0 => st.cards[q].sku \in DOMAIN draft.status
      BY <1>10, <3>1 DEF StoryInv, Building
    <3> QED
      BY <1>7, <1>8, <1>9, <2>2, <3>1, <3>2
  <2> QED
    BY <2>1, <2>2
<1> QED
  BY <1>11, <1>12 DEF Building

(* After the prices the whole draft tells one story.                       *)
LEMMA FetchStory ==
  ASSUME StoryInv, FetchPrices
  PROVE  TellsOneStory(draft'.state)
<1> DEFINE st == draft.state
<1>1. TypeOK
  BY DEF StoryInv
<1>2. PICK merged \in Prices :
        /\ DOMAIN draft.status \subseteq DOMAIN merged
        /\ draft'.state = [st EXCEPT !.ticker = Ticker(merged, prevPrices),
                                    !.pf = Push(pfHist, st.cards)]
  BY <1>1, FetchFacts
<1>3. /\ st \in [built : BOOLEAN, cards : Cards, series : {st.series}, pf : Seq(Cards),
                 ticker : Tickers, hasEvents : BOOLEAN]
      /\ pfHist \in Seq(Cards) /\ st.cards \in Cards
  BY <1>1 DEF TypeOK, IsState
<1>4. /\ draft'.state.cards = st.cards /\ draft'.state.series = st.series
      /\ draft'.state.ticker = Ticker(merged, prevPrices)
      /\ draft'.state.pf = Push(pfHist, st.cards)
  BY <1>2, <1>3
<1>5. DOMAIN draft'.state.ticker = DOMAIN merged
  BY <1>1, <1>4, TickerType DEF TypeOK
<1>6. draft'.state.pf # <<>> /\ Last(draft'.state.pf) = draft'.state.cards
  BY <1>3, <1>4, PushFacts
<1>7. step = "positions"
  BY DEF FetchPrices
<1>8. \A p \in ListedIn(st.cards) :
        /\ st.series[p] # <<>> /\ Last(st.series[p]) = st.cards[p]
        /\ st.cards[p].spot > 0 => st.cards[p].sku \in DOMAIN merged
  BY <1>2, <1>7 DEF StoryInv, Building
<1> QED
  BY <1>4, <1>5, <1>6, <1>8 DEF TellsOneStory

LEMMA StoryStep == StoryInv /\ [Next]_vars => StoryInv'
<1> SUFFICES ASSUME StoryInv, [Next]_vars PROVE StoryInv'
  OBVIOUS
<1>1. TypeOK /\ TypeOK'
  BY TypeStep DEF StoryInv
<1>2. CASE ListPositions
  <2>1. /\ step' = "positions" /\ UNCHANGED latest
        /\ draft'.items = positions /\ draft'.status = NoPrices
        /\ draft'.state = [ZeroState EXCEPT !.built = TRUE]
    BY <1>2 DEF ListPositions
  <2>2. draft'.state.cards = [p \in POS |-> None]
    BY <2>1, ZeroType DEF IsState
  <2>3. Building'
    BY <2>1, <2>2, ZeroType DEF Building, ListedIn
  <2> QED
    BY <1>1, <2>1, <2>3 DEF StoryInv, PublishedTellsOneStory, TellsOneStory
<1>3. CASE ListFails
  <2>1. UNCHANGED <<step, draft, latest>>
    BY <1>3 DEF ListFails
  <2> QED
    BY <1>1, <2>1 DEF StoryInv, Building, PublishedTellsOneStory, TellsOneStory
<1>4. ASSUME NEW p \in POS, BuildPosition(p)
      PROVE  StoryInv'
  <2>1. step' = "positions" /\ UNCHANGED latest
    BY <1>4 DEF BuildPosition
  <2>2. Building'
    BY <1>4, BuildStory
  <2> QED
    BY <1>1, <2>1, <2>2 DEF StoryInv, PublishedTellsOneStory, TellsOneStory
<1>5. CASE FetchPrices
  <2>1. step' = "events" /\ UNCHANGED latest
    BY <1>5 DEF FetchPrices
  <2>2. TellsOneStory(draft'.state)
    BY <1>5, FetchStory
  <2> QED
    BY <1>1, <2>1, <2>2 DEF StoryInv, Building, PublishedTellsOneStory, TellsOneStory
<1>6. CASE Publish
  <2>1. step = "events" /\ step' = "list"
    BY <1>6 DEF Publish
  <2>2. TellsOneStory(draft.state)
    BY <2>1 DEF StoryInv
  <2>3. TellsOneStory(latest')
    BY <1>1, <1>6, <2>2, PublishFacts DEF TellsOneStory
  <2> QED
    BY <1>1, <2>1, <2>3 DEF StoryInv, Building, PublishedTellsOneStory, TellsOneStory
<1>7. CASE Restart
  <2>1. step' = "list" /\ latest' = ZeroState
    BY <1>7 DEF Restart, Fresh
  <2> QED
    BY <1>1, <2>1, ZeroType DEF StoryInv, Building, PublishedTellsOneStory
<1>8. CASE PositionChanges
  <2>1. UNCHANGED <<step, draft, latest>>
    BY <1>8 DEF PositionChanges
  <2> QED
    BY <1>1, <2>1 DEF StoryInv, Building, PublishedTellsOneStory, TellsOneStory
<1>9. CASE UNCHANGED vars
  BY <1>1, <1>9 DEF vars, StoryInv, Building, PublishedTellsOneStory, TellsOneStory
<1> QED
  BY <1>2, <1>3, <1>4, <1>5, <1>6, <1>7, <1>8, <1>9 DEF Next, Poll

(* state.go: the State that is served was built over several calls while   *)
(* the positions changed and prices failed, and is consistent in itself.   *)
THEOREM StoryCorrect == Spec => []PublishedTellsOneStory
<1>1. StoryInv => PublishedTellsOneStory
  BY DEF StoryInv
<1> QED
  BY StoryInit, StoryStep, <1>1, PTL DEF Spec
-----------------------------------------------------------------------------
(* The lists a portfolio series sums up.                                   *)
LEMMA HeldFinite ==
  ASSUME NEW p, NEW lists \in Seq(Cards), NEW i \in Nat \ {0}
  PROVE  /\ IsFiniteSet(HeldFrom(p, lists, i))
         /\ Cardinality(HeldFrom(p, lists, i)) \in Nat
         /\ Cardinality(HeldFrom(p, lists, i)) <= Len(lists)
         /\ i \in HeldFrom(p, lists, i) => Cardinality(HeldFrom(p, lists, i)) >= 1
<1> DEFINE S == HeldFrom(p, lists, i)
<1>1. Len(lists) \in Nat
  OBVIOUS
<1>2. IsFiniteSet(1..Len(lists)) /\ Cardinality(1..Len(lists)) = Len(lists)
  BY <1>1, FS_Interval
<1>3. S \in SUBSET (1..Len(lists))
  BY <1>1 DEF HeldFrom
<1> HIDE DEF S
<1>4. IsFiniteSet(S) /\ Cardinality(S) <= Len(lists)
  BY <1>2, <1>3, FS_Subset
<1>5. Cardinality(S) \in Nat
  BY <1>4, FS_CardinalityType
<1>6. i \in S => Cardinality(S) # 0
  BY <1>4, FS_EmptySet
<1> QED
  BY <1>4, <1>5, <1>6 DEF S

(* Only the reports of p itself count.                                     *)
LEMMA EndsColumn ==
  ASSUME NEW p, NEW samples, NEW l1 \in Seq(Cards), NEW l2 \in Seq(Cards),
         Len(l1) = Len(l2), \A j \in 1..Len(l1) : l1[j][p] = l2[j][p],
         EndsWithReports(samples, p, l1)
  PROVE  EndsWithReports(samples, p, l2)
<1>1. DOMAIN l1 = 1..Len(l1) /\ DOMAIN l2 = DOMAIN l1 /\ Len(l1) \in Nat
  OBVIOUS
<1>2. \A i \in DOMAIN l1 : HeldFrom(p, l1, i) = HeldFrom(p, l2, i)
  BY <1>1 DEF HeldFrom
<1> QED
  BY <1>1, <1>2 DEF EndsWithReports

(* One more list, with a report of p that is the sample pushed with it.    *)
LEMMA EndsBoth ==
  ASSUME NEW p, NEW samples \in Seq(REPORT), NEW lists \in Seq(Cards), NEW cards \in Cards,
         cards[p] \in REPORT, EndsWithReports(samples, p, lists)
  PROVE  EndsWithReports(Append(samples, cards[p]), p, Append(lists, cards))
<1> DEFINE L == Len(lists)
           more == Append(lists, cards)
           buf == Append(samples, cards[p])
<1>1. /\ L \in Nat /\ Len(samples) \in Nat /\ DOMAIN lists = 1..L
      /\ more \in Seq(Cards) /\ Len(more) = L + 1 /\ DOMAIN more = 1..(L + 1)
      /\ more[L + 1] = cards /\ \A j \in 1..L : more[j] = lists[j]
      /\ Len(buf) = Len(samples) + 1 /\ buf[Len(samples) + 1] = cards[p]
      /\ \A j \in 1..Len(samples) : buf[j] = samples[j]
  OBVIOUS
<1>2. cards[p] # None
  BY ConsoleAssumption DEF ConsoleAssumption
<1> HIDE DEF L, more, buf
<1>3. SUFFICES ASSUME NEW i \in 1..(L + 1), more[i][p] # None
               PROVE  LET n == Cardinality(HeldFrom(p, more, i))
                      IN  n <= Len(buf) /\ buf[Len(buf) + 1 - n] = more[i][p]
  BY <1>1 DEF EndsWithReports, more, buf
<1>4. CASE i = L + 1
  <2>1. HeldFrom(p, more, i) = {L + 1}
    BY <1>1, <1>2, <1>4 DEF HeldFrom
  <2>2. Cardinality(HeldFrom(p, more, i)) = 1
    BY <2>1, FS_Singleton
  <2> QED
    BY <1>1, <1>4, <2>2
<1>5. CASE i \in 1..L
  <2> DEFINE S == HeldFrom(p, lists, i)
             n == Cardinality(S)
  <2>1. HeldFrom(p, more, i) = S \cup {L + 1} /\ L + 1 \notin S
    BY <1>1, <1>2, <1>5 DEF HeldFrom, L
  <2>2. i \in S
    BY <1>1, <1>3, <1>5 DEF HeldFrom, L
  <2>3. IsFiniteSet(S) /\ n \in Nat /\ n >= 1
    BY <1>1, <1>5, <2>2, HeldFinite
  <2>4. n <= Len(samples) /\ samples[Len(samples) + 1 - n] = lists[i][p]
    BY <1>1, <1>3, <1>5 DEF EndsWithReports
  <2> HIDE DEF S
  <2>5. Cardinality(S \cup {L + 1}) = n + 1
    BY <2>1, <2>3, FS_AddElement
  <2> HIDE DEF n
  <2>6. /\ Len(samples) + 1 - n \in 1..Len(samples)
        /\ Len(buf) + 1 - (n + 1) = Len(samples) + 1 - n /\ n + 1 <= Len(buf)
    BY <1>1, <2>3, <2>4
  <2>7. buf[Len(buf) + 1 - (n + 1)] = more[i][p]
    BY <1>1, <1>5, <2>4, <2>6
  <2> QED
    BY <2>1, <2>5, <2>6, <2>7
<1> QED
  BY <1>1, <1>4, <1>5

(* One more list, without a report of p: nothing is pushed for p.          *)
LEMMA EndsAbsent ==
  ASSUME NEW p, NEW samples, NEW lists \in Seq(Cards), NEW cards \in Cards,
         cards[p] = None, EndsWithReports(samples, p, lists)
  PROVE  EndsWithReports(samples, p, Append(lists, cards))
<1> DEFINE L == Len(lists)
           more == Append(lists, cards)
<1>1. /\ L \in Nat /\ DOMAIN lists = 1..L
      /\ Len(more) = L + 1 /\ DOMAIN more = 1..(L + 1)
      /\ more[L + 1] = cards /\ \A j \in 1..L : more[j] = lists[j]
  OBVIOUS
<1> HIDE DEF L, more
<1>2. \A i \in 1..L : HeldFrom(p, more, i) = HeldFrom(p, lists, i)
  BY <1>1 DEF HeldFrom, L
<1>3. \A i \in 1..(L + 1) : more[i][p] # None => i \in 1..L
  BY <1>1
<1> QED
  BY <1>1, <1>2, <1>3 DEF EndsWithReports, more

(* The oldest lists may go.                                                *)
LEMMA EndsKeptLists ==
  ASSUME NEW p, NEW samples, NEW lists \in Seq(Cards), EndsWithReports(samples, p, lists)
  PROVE  EndsWithReports(samples, p, Kept(lists))
<1>1. CASE ~(Len(lists) > Cap)
  BY <1>1 DEF Kept
<1>2. CASE Len(lists) > Cap
  <2> DEFINE d == Len(lists) - Cap
             kept == SubSeq(lists, d + 1, Len(lists))
  <2>1. d \in Nat /\ Len(lists) \in Nat /\ Cap \in Nat \ {0} /\ Len(lists) = d + Cap
    BY <1>2, ConsoleAssumption DEF ConsoleAssumption
  <2>2. /\ Len(kept) = Cap /\ DOMAIN kept = 1..Cap
        /\ \A j \in 1..Cap : kept[j] = lists[j + d]
    BY <2>1
  <2>3. Kept(lists) = kept
    BY <1>2 DEF Kept
  <2> HIDE DEF kept, d
  <2>4. ASSUME NEW i \in 1..Cap
        PROVE  Cardinality(HeldFrom(p, kept, i)) = Cardinality(HeldFrom(p, lists, i + d))
    <3> DEFINE S == HeldFrom(p, lists, i + d)
               T == HeldFrom(p, kept, i)
               f == [j \in S |-> j - d]
    <3>1. IsFiniteSet(S)
      BY <2>1, HeldFinite
    <3>2. \A j \in S : j \in (i + d)..Len(lists) /\ lists[j][p] # None
      BY DEF HeldFrom
    <3>3. \A j \in S : j \in Nat /\ j - d \in T
      BY <2>1, <2>2, <3>2 DEF HeldFrom
    <3>4. \A j \in T : j + d \in S /\ j \in Nat
      BY <2>1, <2>2 DEF HeldFrom
    <3> HIDE DEF S, T
    <3>5. f \in [S -> T]
      BY <3>3
    <3>6. \A j, k \in S : f[j] = f[k] => j = k
      BY <2>1, <3>3
    <3>7. \A k \in T : \E j \in S : f[j] = k
      <4> TAKE k \in T
      <4>1. k + d \in S /\ f[k + d] = k
        BY <2>1, <3>4
      <4> QED
        BY <4>1
    <3>8. f \in Bijection(S, T)
      BY <3>5, <3>6, <3>7 DEF Bijection, Injection, Surjection, IsInjective
    <3>9. ExistsBijection(S, T)
      BY <3>8 DEF ExistsBijection
    <3> QED
      BY <3>1, <3>9, FS_Bijection DEF S, T
  <2>5. \A i \in 1..Cap : i + d \in 1..Len(lists)
    BY <2>1
  <2>6. DOMAIN lists = 1..Len(lists)
    OBVIOUS
  <2> QED
    BY <2>2, <2>3, <2>4, <2>5, <2>6 DEF EndsWithReports
<1> QED
  BY <1>1, <1>2

(* Of the samples, no more than there are lists are needed.                *)
LEMMA EndsKeptSamples ==
  ASSUME NEW p, NEW samples \in Seq(REPORT), NEW lists \in Seq(Cards), Len(lists) <= Cap,
         EndsWithReports(samples, p, lists)
  PROVE  EndsWithReports(Kept(samples), p, lists)
<1>1. CASE ~(Len(samples) > Cap)
  BY <1>1 DEF Kept
<1>2. CASE Len(samples) > Cap
  <2> DEFINE d == Len(samples) - Cap
             kept == SubSeq(samples, d + 1, Len(samples))
  <2>1. d \in Nat /\ Len(samples) \in Nat /\ Cap \in Nat \ {0} /\ Len(samples) = d + Cap
    BY <1>2, ConsoleAssumption DEF ConsoleAssumption
  <2>2. Kept(samples) = kept
    BY <1>2 DEF Kept
  <2> HIDE DEF d
  <2>3. Len(kept) = Cap /\ \A j \in 1..Cap : kept[j] = samples[j + d]
    BY <2>1
  <2> HIDE DEF kept
  <2>4. SUFFICES ASSUME NEW i \in DOMAIN lists, lists[i][p] # None
                 PROVE  LET n == Cardinality(HeldFrom(p, lists, i))
                        IN  n <= Cap /\ kept[Cap + 1 - n] = lists[i][p]
    BY <2>2, <2>3 DEF EndsWithReports
  <2> DEFINE n == Cardinality(HeldFrom(p, lists, i))
  <2>5. i \in 1..Len(lists) /\ Len(lists) \in Nat
    OBVIOUS
  <2>6. i \in HeldFrom(p, lists, i)
    BY <2>4, <2>5 DEF HeldFrom
  <2>7. n \in Nat /\ n >= 1 /\ n <= Len(lists)
    BY <2>5, <2>6, HeldFinite
  <2>8. samples[Len(samples) + 1 - n] = lists[i][p]
    BY <2>4 DEF EndsWithReports
  <2> HIDE DEF n
  <2>9. Cap + 1 - n \in 1..Cap /\ (Cap + 1 - n) + d = Len(samples) + 1 - n
    BY <2>1, <2>5, <2>7
  <2> QED
    BY <2>1, <2>3, <2>5, <2>7, <2>8, <2>9 DEF n
<1> QED
  BY <1>1, <1>2

(* Together: what a poll does to both series of a position it listed ...   *)
LEMMA EndsPushed ==
  ASSUME NEW p, NEW samples \in Seq(REPORT), NEW lists \in Seq(Cards), NEW cards \in Cards,
         cards[p] \in REPORT, EndsWithReports(samples, p, lists)
  PROVE  EndsWithReports(Push(samples, cards[p]), p, Push(lists, cards))
<1> DEFINE buf == Append(samples, cards[p])
           more == Append(lists, cards)
<1>1. buf \in Seq(REPORT) /\ more \in Seq(Cards)
  OBVIOUS
<1>2. EndsWithReports(buf, p, more)
  BY EndsBoth
<1>3. /\ Push(samples, cards[p]) = Kept(buf) /\ Push(lists, cards) = Kept(more)
      /\ Kept(more) \in Seq(Cards) /\ Len(Kept(more)) <= Cap
  <2>1. Push(samples, cards[p]) = Kept(buf)
    BY PushFacts
  <2>2. /\ Push(lists, cards) = Kept(more)
        /\ Push(lists, cards) \in Seq(Cards) /\ Len(Push(lists, cards)) <= Cap
    BY PushFacts
  <2> QED
    BY <2>1, <2>2
<1> HIDE DEF buf, more
<1>4. EndsWithReports(buf, p, Kept(more))
  BY <1>1, <1>2, EndsKeptLists
<1>5. EndsWithReports(Kept(buf), p, Kept(more))
  BY <1>1, <1>3, <1>4, EndsKeptSamples
<1> QED
  BY <1>3, <1>5

(* ... and to those of one it did not list.                                *)
LEMMA EndsUnlisted ==
  ASSUME NEW p, NEW samples, NEW lists \in Seq(Cards), NEW cards \in Cards,
         cards[p] = None, EndsWithReports(samples, p, lists)
  PROVE  EndsWithReports(samples, p, Push(lists, cards))
<1> DEFINE more == Append(lists, cards)
<1>1. more \in Seq(Cards)
  OBVIOUS
<1>2. EndsWithReports(samples, p, more)
  BY EndsAbsent
<1>3. Push(lists, cards) = Kept(more)
  BY PushFacts
<1> HIDE DEF more
<1> QED
  BY <1>1, <1>2, <1>3, EndsKeptLists

(* The cards of other positions make no difference to p.                   *)
LEMMA EndsOther ==
  ASSUME NEW p, NEW samples, NEW lists \in Seq(Cards), NEW c1 \in Cards, NEW c2 \in Cards,
         c1[p] = c2[p], EndsWithReports(samples, p, Push(lists, c1))
  PROVE  EndsWithReports(samples, p, Push(lists, c2))
<1> DEFINE m1 == Append(lists, c1)
           m2 == Append(lists, c2)
           k1 == Kept(m1)
           k2 == Kept(m2)
<1>1. /\ Push(lists, c1) = k1 /\ k1 \in Seq(Cards)
      /\ Push(lists, c2) = k2 /\ k2 \in Seq(Cards)
  <2>1. Push(lists, c1) = k1 /\ Push(lists, c1) \in Seq(Cards)
    BY PushFacts
  <2>2. Push(lists, c2) = k2 /\ Push(lists, c2) \in Seq(Cards)
    BY PushFacts
  <2> QED
    BY <2>1, <2>2
<1>2. /\ m1 \in Seq(Cards) /\ m2 \in Seq(Cards) /\ Len(m1) = Len(m2)
      /\ \A j \in 1..Len(m1) : m1[j][p] = m2[j][p]
  OBVIOUS
<1> HIDE DEF m1, m2
<1>3. Len(k1) = Len(k2) /\ \A j \in 1..Len(k1) : k1[j][p] = k2[j][p]
  <2>1. CASE Len(m1) > Cap
    <3> DEFINE d == Len(m1) - Cap
    <3>1. /\ d \in Nat /\ Len(m1) \in Nat /\ Cap \in Nat \ {0} /\ Len(m1) = d + Cap
      BY <1>2, <2>1, ConsoleAssumption DEF ConsoleAssumption
    <3>2. k1 = SubSeq(m1, d + 1, Len(m1)) /\ k2 = SubSeq(m2, d + 1, Len(m2))
      BY <1>2, <2>1 DEF Kept
    <3> HIDE DEF d, k1, k2
    <3>3. Len(k1) = Cap /\ \A j \in 1..Cap : k1[j] = m1[j + d]
      <4>1. m1 \in Seq(Cards) /\ k1 = SubSeq(m1, d + 1, Len(m1))
        BY <1>2, <3>2
      <4> QED
        BY <3>1, <4>1
    <3>4. Len(k2) = Cap /\ \A j \in 1..Cap : k2[j] = m2[j + d]
      <4>1. /\ m2 \in Seq(Cards) /\ k2 = SubSeq(m2, d + 1, Len(m2))
            /\ Len(m2) = d + Cap
        BY <1>2, <3>1, <3>2
      <4> QED
        BY <3>1, <4>1
    <3>5. \A j \in 1..Cap : j + d \in 1..Len(m1)
      BY <3>1
    <3> QED
      BY <1>2, <3>3, <3>4, <3>5
  <2>2. CASE ~(Len(m1) > Cap)
    <3>1. k1 = m1 /\ k2 = m2
      BY <1>2, <2>2 DEF Kept
    <3> QED
      BY <1>2, <3>1
  <2> QED
    BY <2>1, <2>2
<1> HIDE DEF k1, k2
<1> QED
  BY <1>1, <1>3, EndsColumn
-----------------------------------------------------------------------------
(* What the portfolio series will have summed up, once the poll is done,   *)
(* of what a position's series holds.                                      *)
Told(p) ==
  IF step = "positions" /\ p \in ListedIn(draft.state.cards)
    THEN Push(pfHist, draft.state.cards) ELSE pfHist

SeriesOf(p) ==
  /\ EndsWithReports(hist[NameOf[p]], p, Told(p))
  /\ step # "list" /\ p \in ListedIn(draft.state.cards)
       => draft.state.series[p] = hist[NameOf[p]]

SeriesInv ==
  /\ TypeOK
  /\ \A p \in POS : NamedAlone(p) => SeriesOf(p)
  /\ step = "events" => draft.state.pf = pfHist
  /\ SeriesAgree

(* Nothing was pushed yet, nothing summed up.                              *)
LEMMA EndsEmpty ==
  ASSUME NEW p, NEW samples
  PROVE  EndsWithReports(samples, p, <<>>)
BY DEF EndsWithReports

LEMMA FreshSeries ==
  ASSUME Fresh(step, hist, pfHist, prevPrices, draft, latest, listening)
  PROVE  /\ \A p \in POS : NamedAlone(p) => SeriesOf(p)
         /\ step = "events" => draft.state.pf = pfHist
         /\ SeriesAgree
<1>1. step = "list" /\ pfHist = <<>> /\ ListedIn(latest.cards) = {}
  BY ZeroType DEF Fresh, ListedIn
<1>2. \A p \in POS : SeriesOf(p)
  BY <1>1, EndsEmpty DEF SeriesOf, Told
<1> QED
  BY <1>1, <1>2 DEF SeriesAgree

LEMMA SeriesInit == Init => SeriesInv
BY TypeInit, FreshSeries DEF Init, SeriesInv

(* One round of the loop: the series of p and of every other name.         *)
LEMMA BuildSeries ==
  ASSUME SeriesInv, Building, NEW p \in POS, BuildPosition(p),
         NEW q \in POS, NamedAlone(q)
  PROVE  SeriesOf(q)'
<1> DEFINE r == draft.items[p]
           series == Push(hist[NameOf[p]], r)
           st == draft.state
<1>1. /\ r \in REPORT /\ r # None /\ step = "positions" /\ step' = "positions"
      /\ UNCHANGED pfHist
  BY ConsoleAssumption DEF ConsoleAssumption, BuildPosition, SeriesInv, TypeOK, ListedIn, Cards
<1>2. hist' = [hist EXCEPT ![NameOf[p]] = series]
  BY DEF BuildPosition
<1>3. /\ st \in [built : BOOLEAN, cards : Cards, series : {st.series}, pf : Seq(Cards),
                 ticker : Tickers, hasEvents : BOOLEAN]
      /\ st.series \in [ListedIn(st.cards) -> Seq(REPORT)]
      /\ draft \in [items : Cards, status : Prices, state : {st}]
      /\ hist \in [NAME -> Seq(REPORT)] /\ pfHist \in Seq(Cards)
  BY DEF SeriesInv, TypeOK, IsState
<1>4. NameOf[p] \in NAME /\ NameOf[q] \in NAME
  BY ConsoleAssumption DEF ConsoleAssumption
<1>5. draft'.state = [st EXCEPT !.cards[p] = r, !.series = Put(st.series, p, series)]
  BY <1>3 DEF BuildPosition
<1> HIDE DEF r, series
<1>6. /\ draft'.state.cards = [st.cards EXCEPT ![p] = r]
      /\ draft'.state.series = Put(st.series, p, series)
  BY <1>3, <1>5
<1>7. /\ draft'.state.cards \in Cards /\ draft'.state.cards[p] = r
      /\ \A x \in POS \ {p} : draft'.state.cards[x] = st.cards[x]
      /\ ListedIn(draft'.state.cards) = ListedIn(st.cards) \cup {p}
  BY <1>1, <1>3, <1>6 DEF Cards, ListedIn
<1>8. st.cards[p] = None
  BY <1>1 DEF Building, BuildPosition, r
<1>9. SeriesOf(q)
  BY DEF SeriesInv
<1>10. CASE q = p
  <2>1. EndsWithReports(hist[NameOf[p]], p, pfHist)
    BY <1>8, <1>9, <1>10 DEF SeriesOf, Told, ListedIn
  <2>2. EndsWithReports(Push(hist[NameOf[p]], r), p, Push(pfHist, draft'.state.cards))
    BY <1>1, <1>3, <1>4, <1>7, <2>1, EndsPushed
  <2>3. hist'[NameOf[p]] = series /\ draft'.state.series[p] = series
    BY <1>2, <1>3, <1>4, <1>6 DEF Put
  <2>4. p \in ListedIn(draft'.state.cards)
    BY <1>7
  <2> QED
    BY <1>1, <1>10, <2>2, <2>3, <2>4 DEF SeriesOf, Told, series
<1>11. CASE q # p
  <2>1. hist'[NameOf[q]] = hist[NameOf[q]]
    BY <1>2, <1>3, <1>4, <1>11 DEF NamedAlone
  <2>2. /\ draft'.state.cards[q] = st.cards[q]
        /\ q \in ListedIn(draft'.state.cards) <=> q \in ListedIn(st.cards)
    BY <1>7, <1>11
  <2>3. q \in ListedIn(st.cards) => draft'.state.series[q] = st.series[q]
    BY <1>3, <1>6, <1>11 DEF Put
  <2>4. CASE q \in ListedIn(st.cards)
    <3>1. /\ EndsWithReports(hist[NameOf[q]], q, Push(pfHist, st.cards))
          /\ st.series[q] = hist[NameOf[q]]
      BY <1>1, <1>9, <2>4 DEF SeriesOf, Told
    <3>2. EndsWithReports(hist[NameOf[q]], q, Push(pfHist, draft'.state.cards))
      BY <1>3, <1>7, <2>2, <3>1, EndsOther
    <3> QED
      BY <1>1, <2>1, <2>2, <2>3, <2>4, <3>1, <3>2 DEF SeriesOf, Told
  <2>5. CASE q \notin ListedIn(st.cards)
    BY <1>1, <1>9, <2>1, <2>2, <2>5 DEF SeriesOf, Told
  <2> QED
    BY <2>4, <2>5
<1> QED
  BY <1>10, <1>11

(* The portfolio is pushed.                                                *)
LEMMA FetchSeries ==
  ASSUME SeriesInv, FetchPrices
  PROVE  /\ \A q \in POS : NamedAlone(q) => SeriesOf(q)'
         /\ draft'.state.pf = pfHist'
<1> DEFINE st == draft.state
<1>1. TypeOK
  BY DEF SeriesInv
<1>2. PICK merged \in Prices :
        draft'.state = [st EXCEPT !.ticker = Ticker(merged, prevPrices),
                                 !.pf = Push(pfHist, st.cards)]
  BY <1>1, FetchFacts
<1>3. /\ st \in [built : BOOLEAN, cards : Cards, series : {st.series}, pf : Seq(Cards),
                 ticker : Tickers, hasEvents : BOOLEAN]
      /\ pfHist \in Seq(Cards) /\ st.cards \in Cards
  BY <1>1 DEF TypeOK, IsState
<1>4. /\ draft'.state.cards = st.cards /\ draft'.state.series = st.series
      /\ draft'.state.pf = Push(pfHist, st.cards)
  BY <1>2, <1>3
<1>5. /\ step = "positions" /\ step' = "events" /\ UNCHANGED hist
      /\ pfHist' = Push(pfHist, st.cards)
  BY DEF FetchPrices
<1>6. ASSUME NEW q \in POS, NamedAlone(q)
      PROVE  SeriesOf(q)'
  <2>1. SeriesOf(q)
    BY <1>6 DEF SeriesInv
  <2>2. EndsWithReports(hist[NameOf[q]], q, pfHist')
    <3>1. CASE q \in ListedIn(st.cards)
      BY <1>5, <2>1, <3>1 DEF SeriesOf, Told
    <3>2. CASE q \notin ListedIn(st.cards)
      <4>1. st.cards[q] = None
        BY <3>2 DEF ListedIn
      <4>2. EndsWithReports(hist[NameOf[q]], q, pfHist)
        BY <2>1, <3>2 DEF SeriesOf, Told
      <4> QED
        BY <1>3, <1>5, <4>1, <4>2, EndsUnlisted
    <3> QED
      BY <3>1, <3>2
  <2>3. q \in ListedIn(st.cards) => st.series[q] = hist[NameOf[q]]
    BY <1>5, <2>1 DEF SeriesOf
  <2> QED
    BY <1>4, <1>5, <2>2, <2>3 DEF SeriesOf, Told
<1> QED
  BY <1>4, <1>5, <1>6

LEMMA SeriesStep == SeriesInv /\ Building /\ [Next]_vars => SeriesInv'
<1> SUFFICES ASSUME SeriesInv, Building, [Next]_vars PROVE SeriesInv'
  OBVIOUS
<1>1. TypeOK /\ TypeOK'
  BY TypeStep DEF SeriesInv
<1>2. CASE ListPositions
  <2>1. /\ step = "list" /\ step' = "positions" /\ UNCHANGED <<hist, pfHist, latest>>
        /\ draft'.state = [ZeroState EXCEPT !.built = TRUE]
    BY <1>2 DEF ListPositions
  <2>2. ListedIn(draft'.state.cards) = {}
    BY <2>1, ZeroType DEF ListedIn, IsState
  <2>3. \A p \in POS : NamedAlone(p) => SeriesOf(p)'
    BY <2>1, <2>2 DEF SeriesInv, SeriesOf, Told
  <2> QED
    BY <1>1, <2>1, <2>3 DEF SeriesInv, SeriesAgree
<1>3. ASSUME UNCHANGED <<step, hist, pfHist, draft, latest>>
      PROVE  SeriesInv'
  BY <1>1, <1>3 DEF SeriesInv, SeriesOf, Told, SeriesAgree
<1>4. ASSUME NEW p \in POS, BuildPosition(p)
      PROVE  SeriesInv'
  <2>1. step' = "positions" /\ UNCHANGED latest
    BY <1>4 DEF BuildPosition
  <2>2. \A q \in POS : NamedAlone(q) => SeriesOf(q)'
    BY <1>4, BuildSeries
  <2> QED
    BY <1>1, <2>1, <2>2 DEF SeriesInv, SeriesAgree
<1>5. CASE FetchPrices
  <2>1. step' = "events" /\ UNCHANGED latest
    BY <1>5 DEF FetchPrices
  <2>2. (\A q \in POS : NamedAlone(q) => SeriesOf(q)') /\ draft'.state.pf = pfHist'
    BY <1>5, FetchSeries
  <2> QED
    BY <1>1, <2>1, <2>2 DEF SeriesInv, SeriesAgree
<1>6. CASE Publish
  <2>1. step = "events" /\ step' = "list" /\ UNCHANGED <<hist, pfHist>>
    BY <1>6 DEF Publish
  <2>2. /\ latest'.cards = draft.state.cards /\ latest'.series = draft.state.series
        /\ latest'.pf = pfHist
    BY <1>1, <1>6, <2>1, PublishFacts DEF SeriesInv
  <2>3. \A p \in POS : NamedAlone(p) => SeriesOf(p)'
    BY <2>1 DEF SeriesInv, SeriesOf, Told
  <2>4. SeriesAgree'
    <3> SUFFICES ASSUME NEW p \in ListedIn(latest'.cards), NamedAlone(p)
                 PROVE  EndsWithReports(latest'.series[p], p, latest'.pf)
      BY DEF SeriesAgree
    <3>1. p \in POS /\ p \in ListedIn(draft.state.cards)
      BY <2>2 DEF ListedIn
    <3>2. SeriesOf(p)
      BY <3>1 DEF SeriesInv
    <3> QED
      BY <2>1, <2>2, <3>1, <3>2 DEF SeriesOf, Told
  <2> QED
    BY <1>1, <2>1, <2>3, <2>4 DEF SeriesInv
<1>7. CASE Restart
  <2>1. Fresh(step, hist, pfHist, prevPrices, draft, latest, listening)'
    BY <1>7 DEF Restart, Fresh, NoDraft, ZeroState, NoPrices
  <2> QED
    BY <1>1, <2>1, FreshSeries, PTL DEF SeriesInv
<1>8. CASE ListFails
  BY <1>3, <1>8 DEF ListFails
<1>9. CASE PositionChanges
  BY <1>3, <1>9 DEF PositionChanges
<1>10. CASE UNCHANGED vars
  BY <1>3, <1>10 DEF vars
<1> QED
  BY <1>2, <1>4, <1>5, <1>6, <1>7, <1>8, <1>9, <1>10 DEF Next, Poll

(* state.go and history.go: of a position whose name is its own the series *)
(* ends with the reports that the portfolio series summed up, in order and *)
(* without a gap, whatever failed and whatever was not listed in between.  *)
THEOREM SeriesCorrect == Spec => []SeriesAgree
<1>1. StoryInv => Building
  BY DEF StoryInv
<1>2. SeriesInv => SeriesAgree
  BY DEF SeriesInv
<1> QED
  BY StoryInit, StoryStep, SeriesInit, SeriesStep, <1>1, <1>2, PTL DEF Spec
-----------------------------------------------------------------------------
(* The prices of a State's ticker.                                         *)
PricesIn(ticker) == [k \in DOMAIN ticker |-> ticker[k].price]

(* The changes of a ticker are measured against those prices.              *)
Measured(ticker, shown) ==
  \A k \in DOMAIN ticker :
    ticker[k].against =
      IF k \in DOMAIN shown /\ shown[k].price > 0 THEN shown[k].price ELSE None

(* Between two polls the builder remembers the prices that are on show; a  *)
(* poll that has fetched its prices has measured them against those, and   *)
(* the builder then remembers the ones about to be shown.                  *)
Remembered ==
  /\ step # "events" /\ DOMAIN latest.ticker # {}
       => prevPrices = PricesIn(latest.ticker)
  /\ step = "events" /\ DOMAIN draft.state.ticker # {}
       => prevPrices = PricesIn(draft.state.ticker)
  /\ step = "events" /\ DOMAIN latest.ticker # {}
       => Measured(draft.state.ticker, latest.ticker)

TickerInv == TypeOK /\ Remembered

(* A fresh console satisfies the invariant: it shows no price.             *)
LEMMA TickerInit == Init => TickerInv
BY TypeInit, ZeroType DEF Init, Fresh, TickerInv, Remembered

(* What buildPrices makes of any prices, against the ones remembered.      *)
LEMMA TickerFacts ==
  ASSUME NEW merged, NEW prev, NEW shown, DOMAIN shown # {} => prev = PricesIn(shown)
  PROVE  /\ DOMAIN Ticker(merged, prev) = DOMAIN merged
         /\ PricesIn(Ticker(merged, prev)) = [k \in DOMAIN merged |-> merged[k]]
         /\ DOMAIN shown # {} => Measured(Ticker(merged, prev), shown)
<1>1. DOMAIN Ticker(merged, prev) = DOMAIN merged
  BY DEF Ticker
<1>2. \A k \in DOMAIN merged :
        /\ Ticker(merged, prev)[k].price = merged[k]
        /\ Ticker(merged, prev)[k].against = Against(k, prev)
  BY DEF Ticker
<1>3. ASSUME DOMAIN shown # {}
      PROVE  Measured(Ticker(merged, prev), shown)
  <2>1. \A k : Against(k, prev)
                 = IF k \in DOMAIN shown /\ shown[k].price > 0
                     THEN shown[k].price ELSE None
    BY <1>3 DEF Against, PricesIn
  <2> QED
    BY <1>1, <1>2, <2>1 DEF Measured
<1> QED
  BY <1>1, <1>2, <1>3 DEF PricesIn

LEMMA TickerStep == TickerInv /\ [Next]_vars => TickerInv'
<1> SUFFICES ASSUME TickerInv, [Next]_vars PROVE TickerInv'
  OBVIOUS
<1>1. TypeOK /\ TypeOK'
  BY TypeStep DEF TickerInv
<1>2. CASE FetchPrices
  <2>1. step = "positions" /\ step' = "events" /\ UNCHANGED latest
    BY <1>2 DEF FetchPrices
  <2>2. PICK merged \in Prices :
          /\ draft'.state = [draft.state EXCEPT !.ticker = Ticker(merged, prevPrices),
                                !.pf = Push(pfHist, draft.state.cards)]
          /\ prevPrices' = IF DOMAIN merged # {} THEN merged ELSE prevPrices
    BY <1>1, <1>2, FetchFacts
  <2>3. draft'.state.ticker = Ticker(merged, prevPrices)
    BY <1>1, <2>2 DEF TypeOK, IsState
  <2>4. merged = [k \in DOMAIN merged |-> merged[k]]
    BY DEF Prices
  <2>5. DOMAIN latest.ticker # {} => prevPrices = PricesIn(latest.ticker)
    BY <2>1 DEF TickerInv, Remembered
  <2>6. /\ DOMAIN draft'.state.ticker = DOMAIN merged
        /\ PricesIn(draft'.state.ticker) = merged
        /\ DOMAIN latest.ticker # {} => Measured(draft'.state.ticker, latest.ticker)
    <3>1. /\ DOMAIN Ticker(merged, prevPrices) = DOMAIN merged
          /\ PricesIn(Ticker(merged, prevPrices)) = [k \in DOMAIN merged |-> merged[k]]
          /\ DOMAIN latest.ticker # {}
               => Measured(Ticker(merged, prevPrices), latest.ticker)
      BY <2>5, TickerFacts
    <3> QED
      BY <2>3, <2>4, <3>1
  <2> QED
    BY <1>1, <2>1, <2>2, <2>6 DEF TickerInv, Remembered
<1>3. CASE Publish
  <2>1. step = "events" /\ step' = "list" /\ UNCHANGED prevPrices /\ draft' = NoDraft
    BY <1>3 DEF Publish
  <2>2. latest'.ticker = draft.state.ticker
    BY <1>1, <1>3, PublishFacts
  <2> QED
    BY <1>1, <2>1, <2>2 DEF TickerInv, Remembered
<1>4. CASE Restart
  BY <1>1, <1>4, ZeroType DEF Restart, Fresh, TickerInv, Remembered
<1>5. ASSUME NEW p \in POS, BuildPosition(p)
      PROVE  TickerInv'
  BY <1>1, <1>5 DEF BuildPosition, TickerInv, Remembered
<1>6. CASE ListPositions
  BY <1>1, <1>6 DEF ListPositions, TickerInv, Remembered
<1>7. CASE ListFails
  BY <1>1, <1>7 DEF ListFails, TickerInv, Remembered
<1>8. CASE PositionChanges
  BY <1>1, <1>8 DEF PositionChanges, TickerInv, Remembered
<1>9. CASE UNCHANGED vars
  BY <1>1, <1>9 DEF vars, TickerInv, Remembered
<1> QED
  BY <1>2, <1>3, <1>4, <1>5, <1>6, <1>7, <1>8, <1>9 DEF Next, Poll

(* A step that changes what is served publishes or restarts.               *)
LEMMA ChangeStep ==
  ASSUME TickerInv, [Next]_vars
  PROVE  latest' # latest /\ latest'.built /\ DOMAIN latest.ticker # {} =>
           \A k \in DOMAIN latest'.ticker :
             latest'.ticker[k].against =
               IF k \in DOMAIN latest.ticker /\ latest.ticker[k].price > 0
                 THEN latest.ticker[k].price ELSE None
<1> SUFFICES ASSUME latest' # latest, latest'.built, DOMAIN latest.ticker # {}
             PROVE  Measured(latest'.ticker, latest.ticker)
  BY DEF Measured
<1>1. CASE Publish
  <2>1. latest'.ticker = draft.state.ticker /\ step = "events"
    BY <1>1, PublishFacts DEF Publish, TickerInv
  <2> QED
    BY <2>1 DEF TickerInv, Remembered
<1>2. CASE Restart
  BY <1>2, ZeroType DEF Restart, Fresh
<1>3. CASE ~Publish /\ ~Restart
  BY <1>3 DEF Next, Poll, ListPositions, ListFails, BuildPosition, FetchPrices,
              PositionChanges, vars
<1> QED
  BY <1>1, <1>2, <1>3

(* main.go and state.go: the change shown next to a price compares it with *)
(* the price that the page showed before, whatever failed in between.      *)
THEOREM ChangeCorrect == Spec => ChangeAgainstShown
<1>1. TickerInv /\ [Next]_vars =>
        [latest' # latest /\ latest'.built /\ DOMAIN latest.ticker # {} =>
           \A k \in DOMAIN latest'.ticker :
             latest'.ticker[k].against =
               IF k \in DOMAIN latest.ticker /\ latest.ticker[k].price > 0
                 THEN latest.ticker[k].price ELSE None]_vars
  BY ChangeStep
<1> QED
  BY TickerInit, TickerStep, <1>1, PTL DEF Spec, ChangeAgainstShown
=============================================================================
