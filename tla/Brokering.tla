----------------------------- MODULE Brokering -----------------------------
(***************************************************************************)
(* The listings of the marketplace (products/marketplace/src), on one      *)
(* connection with implicit transactions, their ratings, and the broker    *)
(* that finds a listing, makes sure of it and intends a payment for it     *)
(* (gateway/src/tools/marketplace.py).  Each listing has a provider of its *)
(* own, and `trusted' is the score of its provider, below zero when it has *)
(* none; providers have no reputation.  An endpoint is a number, 0 when    *)
(* there is none.  Names are in EventDelivery, scores in TrustScores and   *)
(* payments in Intents.                                                    *)
(***************************************************************************)
EXTENDS Coroutines, Integers, FiniteSetsExt, Sequences, SqliteConnection

CONSTANTS NoListing,
          FirstListings,    \* what is listed at the start: a row or NoListing
          FirstTags, FirstTrust,
          Raters

VARIABLES
    marketDb,    \* the connection (see SqliteConnection)
    trusted,
    nth,         \* the tag that a write is at
    broker,      \* locals of a brokering
    shown,       \* what a reader has read
    deal,        \* what a brokering came to; history: the market at that moment
    stale,       \* history: what was changed under a reader or a brokering
    lastWrite,   \* history: who wrote a listing, or rated it as somebody, last
    overlapped   \* history: listings with two writes at a time

marketVars == <<marketDb, trusted, nth, broker, shown, deal, stale, lastWrite, overlapped>>

Listings == DOMAIN FirstListings
market == marketDb.data
ExecuteMarket(d) == marketDb' = ExecuteImplicit(marketDb, d)

L(r) == job[r].listing
Row(r) == market.row[L(r)]
Writes(r) == Op(r) \in {"list", "amend"}
Reads(r) == Op(r) \in {"broker", "readRatings", "getListing"}
Disturb(what, l) ==
    stale' = [q \in Requests |-> IF Reads(q) /\ Running(q) THEN stale[q] \cup {<<what, l>>} ELSE stale[q]]
\* What has not been written as a whole: a write under way, refused at a tag or
\* cut short, or two at a time.
Unfinished(l) ==
    \/ l \in overlapped
    \/ \E r \in Requests : Writes(r) /\ L(r) = l /\ (Running(r) \/ pc[r] \in {"error", "504", "lost"})
BeginWrite(r) ==
    overlapped' = IF \E q \in Requests \ {r} : Writes(q) /\ L(q) = L(r) /\ Running(q)
                  THEN overlapped \cup {L(r)} ELSE overlapped
Reading == UNCHANGED <<marketDb, trusted, nth, stale, lastWrite, overlapped>>

-----------------------------------------------------------------------------
\* insert_service: the row, its tags, the commit.
TagOr(r, next) == IF job[r].tags = <<>> THEN next ELSE "tag"

InsertListing(r) ==
    /\ At(r, "list", "new")
    /\ ExecuteMarket([market EXCEPT !.row[L(r)] =
          [active |-> TRUE, place |-> job[r].place, cost |-> job[r].cost]])
    /\ Disturb("row", L(r)) /\ BeginWrite(r)
    /\ lastWrite' = [lastWrite EXCEPT ![L(r)] = r]
    /\ Go(r, TagOr(r, "commit"))
    /\ UNCHANGED <<trusted, nth, broker, shown, deal>>

\* update_service, by the tools update and deactivate.
FindListing(r) ==
    /\ Op(r) \in {"amend", "withdraw"} /\ pc[r] = "new"
    /\ IF Row(r) = NoListing THEN Go(r, "rejected") /\ UNCHANGED overlapped
       ELSE /\ Go(r, "update")
            /\ IF Writes(r) THEN BeginWrite(r) ELSE UNCHANGED overlapped
    /\ UNCHANGED <<marketDb, trusted, nth, broker, shown, deal, stale, lastWrite>>

AmendRow(r) ==
    /\ At(r, "amend", "update")
    /\ ExecuteMarket([market EXCEPT !.row[L(r)].place = job[r].place])
    /\ Disturb("row", L(r))
    /\ lastWrite' = [lastWrite EXCEPT ![L(r)] = r]
    /\ Go(r, "untag")
    /\ UNCHANGED <<trusted, nth, broker, shown, deal, overlapped>>

DeleteTags(r) ==
    /\ At(r, "amend", "untag")
    /\ ExecuteMarket([market EXCEPT !.tags[L(r)] = {}])
    /\ Disturb("tags", L(r))
    /\ Go(r, TagOr(r, "commit"))
    /\ UNCHANGED <<trusted, nth, broker, shown, deal, lastWrite, overlapped>>

\* A tag that the listing has is refused; the transaction stays open.
InsertTag(r) ==
    /\ Writes(r) /\ pc[r] = "tag"
    /\ LET tag == job[r].tags[nth[r]] IN
       IF tag \in market.tags[L(r)]
       THEN Go(r, "error") /\ UNCHANGED <<marketDb, nth, stale>>
       ELSE /\ ExecuteMarket([market EXCEPT !.tags[L(r)] = @ \cup {tag}])
            /\ Disturb("tags", L(r))
            /\ nth' = [nth EXCEPT ![r] = @ + 1]
            /\ Go(r, IF nth[r] = Len(job[r].tags) THEN "commit" ELSE "tag")
    /\ UNCHANGED <<trusted, broker, shown, deal, lastWrite, overlapped>>

WithdrawRow(r) ==
    /\ At(r, "withdraw", "update")
    /\ ExecuteMarket([market EXCEPT !.row[L(r)].active = FALSE])
    /\ Disturb("row", L(r))
    /\ Go(r, "commit")
    /\ UNCHANGED <<trusted, nth, broker, shown, deal, lastWrite, overlapped>>

\* rate_service: one rating of each agent.
RateListing(r) ==
    /\ At(r, "rate", "new")
    /\ ExecuteMarket([market EXCEPT !.ratings[L(r)][job[r].rater] = job[r].stars])
    /\ Disturb("rating", L(r))
    /\ lastWrite' = [lastWrite EXCEPT ![<<L(r), job[r].rater>>] = r]
    /\ Go(r, "commit")
    /\ UNCHANGED <<trusted, nth, broker, shown, deal, overlapped>>

CommitMarket(r) ==
    /\ Writes(r) \/ Op(r) \in {"withdraw", "rate"}
    /\ pc[r] = "commit"
    /\ marketDb' = Commit(marketDb)
    /\ Go(r, "done")
    /\ UNCHANGED <<trusted, nth, broker, shown, deal, stale, lastWrite, overlapped>>

\* A score of the provider is computed, or the provider is deleted.
Rescore(r) ==
    /\ At(r, "rescore", "new")
    /\ trusted' = [trusted EXCEPT ![L(r)] = job[r].trust]
    /\ Disturb("trust", L(r))
    /\ Go(r, "done")
    /\ UNCHANGED <<marketDb, nth, broker, shown, deal, lastWrite, overlapped>>

-----------------------------------------------------------------------------
\* get_service: the row, then its tags; get_ratings: the number of ratings and
\* their sum, then the ratings.
Given(ratings) == {<<a, ratings[a]>> : a \in {b \in Raters : ratings[b] # 0}}
RatingsOf(l) == Given(market.ratings[l])
Stars(ratings) == MapThenSumSet(LAMBDA x : x[2], ratings)
Summary(ratings) == [number |-> Cardinality(ratings), stars |-> Stars(ratings)]

ReadFirst(r) ==
    /\ Op(r) \in {"getListing", "readRatings"} /\ pc[r] = "new"
    /\ IF Row(r) = NoListing /\ Op(r) = "getListing" THEN Go(r, "rejected") /\ UNCHANGED shown
       ELSE /\ shown' = [shown EXCEPT ![r].first =
                   IF Op(r) = "getListing" THEN Row(r).place ELSE Summary(RatingsOf(L(r)))]
            /\ Go(r, "second")
    /\ stale' = IF Unfinished(L(r)) THEN [stale EXCEPT ![r] = {<<"row", L(r)>>}] ELSE stale
    /\ UNCHANGED <<marketDb, trusted, nth, lastWrite, overlapped, broker, deal>>

ReadSecond(r) ==
    /\ Op(r) \in {"getListing", "readRatings"} /\ pc[r] = "second"
    /\ shown' = [shown EXCEPT ![r].second =
          IF Op(r) = "getListing" THEN market.tags[L(r)] ELSE RatingsOf(L(r))]
    /\ Go(r, "done")
    /\ Reading /\ UNCHANGED <<broker, deal>>

-----------------------------------------------------------------------------
\* atlas_broker.  `found' are the candidates, `left' those of them that the
\* present loop has not come to.
Matches(r, row) == row # NoListing /\ row.active /\ row.cost <= job[r].budget
Trusts(r, l) == trusted[l] >= job[r].least

\* compute_atlas_score: 0.4 for a trust between 0 and 100, 0.2 for the mean of
\* the stars on the same scale.  A trust counts 50 here: a fortieth of all, times
\* the number of ratings.
AtlasScore(trust, ratings) ==
    IF ratings = {} THEN [over |-> 1, sum |-> 5 * (IF trust < 0 THEN 0 ELSE trust)]
    ELSE [over |-> Cardinality(ratings),
          sum |-> 5 * (IF trust < 0 THEN 0 ELSE trust) * Cardinality(ratings) + Stars(ratings)]
Below(s, t) == s.sum * t.over < t.sum * s.over

Came(r, listing, amount) ==
    deal' = [deal EXCEPT ![r] = [listing |-> listing, amount |-> amount, market |-> market,
                                 trusted |-> trusted]]
NoMatch(r) == Go(r, "rejected") /\ Came(r, NoListing, 0)

\* The next candidate, or, after the last one, the next loop with all that
\* are left.
Proceed(r, b, again, next) ==
    IF b.left # {} THEN broker' = [broker EXCEPT ![r] = b] /\ Go(r, again) /\ UNCHANGED deal
    ELSE /\ broker' = [broker EXCEPT ![r] = [b EXCEPT !.left = b.found]]
         /\ IF b.found = {} THEN NoMatch(r) ELSE Go(r, next) /\ UNCHANGED deal

\* best_match: the search, and the trust in each provider.
SearchListings(r) ==
    /\ At(r, "broker", "new")
    /\ LET found == {l \in Listings : Matches(r, market.row[l])} IN
       Proceed(r, [broker[r] EXCEPT !.found = found,
                                    !.cost = [l \in found |-> market.row[l].cost]], "filter", "filter")
    /\ Reading /\ UNCHANGED shown

FilterTrust(r) ==
    /\ At(r, "broker", "filter")
    /\ \E l \in broker[r].left :
          Proceed(r, [broker[r] EXCEPT !.left = @ \ {l}, !.found = IF Trusts(r, l) THEN @ ELSE @ \ {l}],
                  "filter", "weigh")
    /\ Reading /\ UNCHANGED shown

\* atlas_discover: trust and ratings once more.
WeighListing(r) ==
    /\ At(r, "broker", "weigh")
    /\ \E l \in broker[r].left :
          Proceed(r, [broker[r] EXCEPT !.left = @ \ {l}, !.score[l] = AtlasScore(trusted[l], RatingsOf(l))],
                  "weigh", "preflight")
    /\ Reading /\ UNCHANGED shown

\* atlas_preflight of the best candidate that is left: its row as it is now,
\* whatever its status, its endpoint, its trust.
ReadCandidate(r) ==
    /\ At(r, "broker", "preflight")
    /\ \E l \in broker[r].left :
          /\ \A k \in broker[r].left : ~Below(broker[r].score[l], broker[r].score[k])
          /\ broker' = [broker EXCEPT ![r].left = @ \ {l}, ![r].current = l,
                                      ![r].place = market.row[l].place]
    /\ Go(r, "probe")
    /\ Reading /\ UNCHANGED <<shown, deal>>

ProbeEndpoint(r) ==
    /\ At(r, "broker", "probe")
    /\ \E up \in BOOLEAN :
          /\ up => broker[r].place # 0
          /\ broker' = [broker EXCEPT ![r].down = IF up THEN @ ELSE @ \cup {broker[r].current}]
    /\ Go(r, "check")
    /\ Reading /\ UNCHANGED <<shown, deal>>

CheckCandidate(r) ==
    /\ At(r, "broker", "check")
    /\ IF broker[r].current \notin broker[r].down /\ Trusts(r, broker[r].current)
       THEN Go(r, "intent") /\ UNCHANGED deal
       ELSE IF broker[r].left = {} THEN NoMatch(r)
       ELSE Go(r, "preflight") /\ UNCHANGED deal
    /\ Reading /\ UNCHANGED <<shown, broker>>

\* The payment: of the cost at discovery, or of one credit for what is free.
\* No tool changes the cost of a listing.
PriceFor(cost) == IF cost > 0 THEN cost ELSE 1

IntendPayment(r) ==
    /\ At(r, "broker", "intent")
    /\ Came(r, broker[r].current, PriceFor(broker[r].cost[broker[r].current]))
    /\ Go(r, "done")
    /\ Reading /\ UNCHANGED <<shown, broker>>

MarketStep(r) ==
    \/ InsertListing(r) \/ FindListing(r) \/ AmendRow(r) \/ DeleteTags(r) \/ InsertTag(r)
    \/ WithdrawRow(r) \/ RateListing(r) \/ CommitMarket(r) \/ Rescore(r)
    \/ ReadFirst(r) \/ ReadSecond(r)
    \/ SearchListings(r) \/ FilterTrust(r) \/ WeighListing(r)
    \/ ReadCandidate(r) \/ ProbeEndpoint(r) \/ CheckCandidate(r) \/ IntendPayment(r)

MarketCrash ==
    /\ marketDb' = Crash(marketDb)
    /\ UNCHANGED <<trusted, nth, broker, shown, deal, stale, lastWrite, overlapped>>

MarketInit ==
    /\ marketDb = Connected([row |-> FirstListings, tags |-> FirstTags,
                             ratings |-> [l \in Listings |-> [a \in Raters |-> 0]]])
    /\ trusted = FirstTrust
    /\ nth = [r \in Requests |-> 1]
    /\ broker = [r \in Requests |-> [found |-> {}, left |-> {}, current |-> NoListing, place |-> 0,
                                     cost |-> <<>>, score |-> [l \in Listings |-> AtlasScore(-1, {})], down |-> {}]]
    /\ shown = [r \in Requests |-> [first |-> 0, second |-> {}]]
    /\ deal = [r \in Requests |-> NoListing]
    /\ stale = [r \in Requests |-> {}]
    /\ lastWrite = [l \in Listings \cup (Listings \X Raters) |-> NoListing]
    /\ overlapped = {}

-----------------------------------------------------------------------------
\* A listing is what one write made it, in the file and for who reads it.
WrittenBy(l, w, place, tags) ==
    IF w = NoListing
    THEN FirstListings[l] # NoListing /\ place = FirstListings[l].place /\ tags = FirstTags[l]
    ELSE Writes(w) /\ L(w) = l /\ place = job[w].place /\ tags = Range(job[w].tags)

ListingsWhole ==
    \A l \in Listings :
        LET row == marketDb.saved.row[l] IN
        row = NoListing \/ Unfinished(l) \/ WrittenBy(l, lastWrite[l], row.place, marketDb.saved.tags[l])

\* What was answered is in the file, unless it was written once more.
MarketKept ==
    \A r \in Requests : pc[r] = "done" =>
        CASE Writes(r) -> marketDb.saved.row[L(r)] # NoListing
          [] Op(r) = "withdraw" -> ~marketDb.saved.row[L(r)].active
          [] Op(r) = "rate" ->
                lastWrite[<<L(r), job[r].rater>>] = r =>
                    marketDb.saved.ratings[L(r)][job[r].rater] = job[r].stars
          [] Op(r) = "getListing" ->
                \/ \E w \in Requests \cup {NoListing} : WrittenBy(L(r), w, shown[r].first, shown[r].second)
                \/ stale[r] # {}
          [] Op(r) = "readRatings" ->
                Summary(shown[r].second) = shown[r].first \/ <<"rating", L(r)>> \in stale[r]
          [] OTHER -> TRUE

\* Who brokers gets, of the listings that are offered, in reach and trusted, the
\* best of those that answer, at its cost and within the budget; but for what
\* changed since it was read, and for the credit that what is free costs.
DealRight(r) ==
    LET came == deal[r]
        calm(l) == \A what \in {"row", "trust", "rating"} : <<what, l>> \notin stale[r]
        fit(l) == LET row == came.market.row[l] IN
                  /\ row # NoListing /\ row.active /\ row.cost <= job[r].budget
                  /\ came.trusted[l] >= job[r].least
        score(l) == AtlasScore(came.trusted[l], Given(came.market.ratings[l]))
    IN
    /\ came.listing # NoListing =>
          LET l == came.listing IN
          /\ came.amount = PriceFor(came.market.row[l].cost)
          /\ came.amount <= job[r].budget \/ came.market.row[l].cost = 0
          /\ fit(l) \/ ~calm(l)
          /\ broker[r].place = came.market.row[l].place \/ <<"row", l>> \in stale[r]
          /\ l \notin broker[r].down
    /\ \A k \in Listings : calm(k) /\ fit(k) /\ k \notin broker[r].down =>
          /\ came.listing # NoListing
          /\ calm(came.listing) => ~Below(score(came.listing), score(k))

MarketHolds ==
    /\ ListingsWhole /\ MarketKept
    /\ \A r \in Requests : Op(r) = "broker" /\ deal[r] # NoListing => DealRight(r)
============================================================================
