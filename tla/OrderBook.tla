----------------------------- MODULE OrderBook -----------------------------
(***************************************************************************)
(* The central limit order book of one market (orderbook.rs) with the      *)
(* self-trade-prevention rate limiter it owns (rate_limit.rs).             *)
(*                                                                         *)
(* The code keeps two BTreeMaps price -> Vec<Order>.  A level's Vec is     *)
(* only pushed at the back and removed from, so here the book is the set   *)
(* of resting orders, each with the ticket `arr' of its push: a level's    *)
(* order is ticket order, and an empty level is an absent key.             *)
(*                                                                         *)
(* submit_order runs under the engine's book lock.  phase = "matching"     *)
(* is that lock held by a submission: Submit opens it, every iteration of  *)
(* match_order's loop is one step, Finish closes it, and no other          *)
(* operation of the book is enabled in between.  When phase = "idle",      *)
(* <<taker, trades, stp>> is what the last submission returned.            *)
(*                                                                         *)
(* Prices and sizes are FP8 raw values; products are taken at scale 1.     *)
(* Rejections (`bail!') change nothing and are the negated guards.         *)
(***************************************************************************)
EXTENDS Integers, Sequences, FiniteSets, FiniteSetsExt

CONSTANTS
    Users,        \* accounts that place orders
    Requests,     \* the order requests clients may send
    MaxOrders,    \* bound on order ids (exploration bound)
    MaxRecent,    \* max_recent_trades
    StpCap,       \* self-trade events allowed per window (30)
    StpWindow,    \* the limiter's window (60 s), in clock ticks
    MaxNow,       \* bound on the wall clock (exploration bound)
    NoOrder       \* "no submission yet"

Sides == {"Long", "Short"}
OrderTypes == {"Limit", "Market"}
TimesInForce == {"Gtc", "Ioc", "Fok"}
Statuses == {"Open", "PartiallyFilled", "Filled", "Cancelled"}

OrderRequest ==
    [user : Users, side : Sides, type : OrderTypes, price : Nat, size : Nat,
     lev : Nat \ {0}, tif : TimesInForce, reduceOnly : BOOLEAN]

Order ==
    [id : Nat \ {0}, user : Users, side : Sides, type : OrderTypes,
     price : Nat, size : Nat, filled : Nat, lev : Nat \ {0},
     status : Statuses, tif : TimesInForce, reduceOnly : BOOLEAN, arr : Nat]

Trade ==
    [id : Nat \ {0}, maker : Nat \ {0}, taker : Nat \ {0}, makerUser : Users,
     takerUser : Users, price : Nat, size : Nat, takerSide : Sides]

StpEntry == [id : Nat \ {0}, user : Users, status : Statuses, filled : Nat,
             cross : Nat]

ASSUME BookAssumption ==
    /\ Requests \subseteq OrderRequest
    /\ MaxOrders \in Nat /\ MaxRecent \in Nat \ {0} /\ MaxNow \in Nat
    /\ StpCap \in Nat \ {0} /\ StpWindow \in Nat \ {0}
    /\ NoOrder \notin Order

VARIABLES
    resting,      \* both sides of the book
    pushes,       \* next push ticket
    nextOrderId, nextTradeId,
    recent,       \* recent_trades
    stpHits,      \* the limiter: user -> times of its recorded events
    now,          \* Instant::now()
    attestedMs,   \* 0: the attested clock was not fed
    phase,        \* the book lock: "idle" or held by a submission, "matching"
    taker, trades, stp

bookVars == <<resting, pushes, nextOrderId, nextTradeId, recent, stpHits,
              now, attestedMs, phase, taker, trades, stp>>

----------------------------------------------------------------------------
(* Reading the book. *)

Remaining(o) == o.size - o.filled

Opposite(side) == IF side = "Long" THEN "Short" ELSE "Long"

OnSide(side) == {o \in resting : o.side = side}

\* Mutant: a level at exactly the limit price does not match.
CrossesStrictly(o, p) ==
    \/ o.type = "Market"
    \/ o.side = "Long" /\ p < o.price
    \/ o.side = "Short" /\ p > o.price

\* take_while of match_order: does a taker o trade at level price p?
Crosses(o, p) ==
    \/ o.type = "Market"
    \/ o.side = "Long" /\ p <= o.price
    \/ o.side = "Short" /\ p >= o.price

Crossing(o) == {m \in OnSide(Opposite(o.side)) : Crosses(o, m.price)}

\* Mutant: both sides walk their levels in ascending price order.
BeforeAscending(side, m, k) ==
    \/ m.price < k.price
    \/ m.price = k.price /\ m.arr <= k.arr

\* Level order for a taker on `side', then queue order inside a level.
Before(side, m, k) ==
    \/ m.price # k.price /\ (IF side = "Long" THEN m.price < k.price
                                              ELSE m.price > k.price)
    \/ m.price = k.price /\ m.arr <= k.arr

IsNextMaker(o, m) ==
    /\ m \in Crossing(o)
    /\ \A k \in Crossing(o) : Before(o.side, m, k)

\* Mutant: the limit price is ignored when liquidity is counted.
VisitedAnyPrice(o) == OnSide(Opposite(o.side))

\* available_liquidity walks the opposite map in ASCENDING price order for
\* both sides and stops at the first level that does not match.
Visited(o) ==
    {m \in OnSide(Opposite(o.side)) :
        \A k \in OnSide(Opposite(o.side)) :
            k.price <= m.price => Crosses(o, k.price)}

AvailableLiquidity(o) ==
    MapThenSumSet(Remaining, {m \in Visited(o) : m.user # o.user})

\* user_reserved_margin: initial margin held by the user's resting orders.
OrderMargin(o) == (Remaining(o) * o.price) \div o.lev

UserReservedMargin(u) ==
    MapThenSumSet(OrderMargin, {o \in resting : o.user = u /\ ~o.reduceOnly})

----------------------------------------------------------------------------
(* The sliding-window limiter: hits younger than the window count. *)

Live(q, t) == Cardinality({i \in DOMAIN q : t - q[i] < StpWindow})

\* Times are recorded in order, so pruning from the front keeps a suffix.
Prune(q, t) == SubSeq(q, Len(q) - Live(q, t) + 1, Len(q))

\* Mutant: one event too many is allowed.
PeekOffByOne(u) == Live(stpHits[u], now) <= StpCap

Peek(u) == Live(stpHits[u], now) < StpCap

Record(u) == Append(Prune(stpHits[u], now), now)

----------------------------------------------------------------------------
(* submit_order. *)

NewOrder(r) ==
    [id |-> nextOrderId, user |-> r.user, side |-> r.side, type |-> r.type,
     price |-> r.price, size |-> r.size, filled |-> 0, lev |-> r.lev,
     status |-> "Open", tif |-> r.tif, reduceOnly |-> r.reduceOnly, arr |-> 0]

Accepts(r) ==
    /\ phase = "idle"
    /\ nextOrderId <= MaxOrders
    /\ r.size > 0
    /\ r.type = "Limit" => r.price > 0
    /\ Peek(r.user)
    /\ attestedMs # 0

FokShort(r) == r.tif = "Fok" /\ AvailableLiquidity(NewOrder(r)) < r.size

\* The id is consumed even when the FOK pre-check kills the order.
KillFok(r) ==
    /\ Accepts(r) /\ FokShort(r)
    /\ nextOrderId' = nextOrderId + 1
    /\ taker' = [NewOrder(r) EXCEPT !.status = "Cancelled"]
    /\ trades' = <<>> /\ stp' = <<>>
    /\ UNCHANGED <<resting, pushes, nextTradeId, recent, stpHits, now,
                   attestedMs, phase>>

Submit(r) ==
    /\ Accepts(r) /\ ~FokShort(r)
    /\ nextOrderId' = nextOrderId + 1
    /\ taker' = NewOrder(r)
    /\ trades' = <<>> /\ stp' = <<>>
    /\ phase' = "matching"
    /\ UNCHANGED <<resting, pushes, nextTradeId, recent, stpHits, now, attestedMs>>

\* Mutant: a fill takes all of the maker, whatever the taker has left.
WholeMaker(a, b) == b

Lesser(a, b) == IF a <= b THEN a ELSE b

\* The maker after `n' of it is consumed; a fully consumed one leaves the book.
Consumed(m, n, status) == [m EXCEPT !.filled = m.filled + n, !.status = status]

\* Mutants: a consumed maker is left in its level; a partly filled maker is
\* dropped from it.
BookKeepsConsumed(m, m2) == (resting \ {m}) \cup {m2}
BookDropsPartial(m, m2) == resting \ {m}

BookAfter(m, m2) ==
    (resting \ {m}) \cup (IF Remaining(m2) > 0 THEN {m2} ELSE {})

\* Mutant: an own resting order is skipped but the walk does not advance.
SkipOwn(m) ==
    /\ m.user = taker.user
    /\ UNCHANGED <<taker, resting, stp, trades, recent, nextTradeId>>

\* Decrement-and-cancel: the taker shrinks, the maker is consumed, no trade.
SelfCross(m) ==
    LET cross == Lesser(Remaining(taker), Remaining(m))
        m2    == Consumed(m, cross, m.status)
        gone  == m2.filled >= m2.size
    IN  /\ m.user = taker.user
        /\ taker' = [taker EXCEPT !.size = taker.size - cross]
        /\ resting' = BookAfter(m, m2)
        /\ stp' = Append(stp, [id |-> m.id, user |-> m.user,
                               status |-> IF gone THEN "Cancelled" ELSE m.status,
                               filled |-> m2.filled, cross |-> cross])
        /\ UNCHANGED <<trades, recent, nextTradeId>>

FillStatus(m, n) == IF m.filled + n = m.size THEN "Filled" ELSE "PartiallyFilled"

PushRecent(t) ==
    LET r == Append(recent, t) IN IF Len(r) > MaxRecent THEN Tail(r) ELSE r

Fill(m) ==
    LET n == Lesser(Remaining(taker), Remaining(m))
        t == [id |-> nextTradeId, maker |-> m.id, taker |-> taker.id,
              makerUser |-> m.user, takerUser |-> taker.user,
              price |-> m.price, size |-> n, takerSide |-> taker.side]
    IN  /\ m.user # taker.user
        /\ taker' = [taker EXCEPT !.filled = taker.filled + n]
        /\ resting' = BookAfter(m, Consumed(m, n, FillStatus(m, n)))
        /\ nextTradeId' = nextTradeId + 1
        /\ trades' = Append(trades, t)
        /\ recent' = PushRecent(t)
        /\ UNCHANGED stp

\* One iteration of the matching loop, on the best maker left.
MatchStep ==
    /\ phase = "matching"
    /\ Remaining(taker) > 0
    /\ \E m \in resting :
        /\ IsNextMaker(taker, m)
        /\ SelfCross(m) \/ Fill(m)
    /\ UNCHANGED <<pushes, nextOrderId, stpHits, now, attestedMs, phase>>

Rests(o) ==
    o.size # 0 /\ o.type = "Limit" /\ o.tif = "Gtc" /\ Remaining(o) > 0 /\ o.status = "Open"

\* Mutant: an IOC or Market remainder keeps the status Open.
FinalStatusKept(o) ==
    IF o.size = 0 THEN "Cancelled"
    ELSE IF o.filled = o.size THEN "Filled" ELSE o.status

\* Status of the returned order: a Market or IOC remainder is cancelled.
FinalStatus(o) ==
    IF o.size = 0 THEN "Cancelled"
    ELSE IF o.filled = o.size THEN "Filled"
    ELSE IF o.type = "Limit" /\ o.tif # "Ioc" THEN o.status
    ELSE IF o.filled > 0 THEN "PartiallyFilled" ELSE "Cancelled"

Finish ==
    /\ phase = "matching"
    /\ Remaining(taker) = 0 \/ Crossing(taker) = {}
    /\ phase' = "idle"
    /\ stpHits' = IF stp = <<>> THEN stpHits
                  ELSE [stpHits EXCEPT ![taker.user] = Record(taker.user)]
    /\ \/ /\ Rests(taker)
          /\ resting' = resting \cup {[taker EXCEPT !.arr = pushes]}
          /\ pushes' = pushes + 1
       \/ /\ ~Rests(taker)
          /\ UNCHANGED <<resting, pushes>>
    /\ taker' = [taker EXCEPT !.status = FinalStatus(taker)]
    /\ UNCHANGED <<nextOrderId, nextTradeId, recent, now, attestedMs, trades, stp>>

----------------------------------------------------------------------------
(* The other operations that take the book lock. *)

CancelOrder(o) ==
    /\ phase = "idle"
    /\ resting' = resting \ {o}
    /\ UNCHANGED <<pushes, nextOrderId, nextTradeId, recent, stpHits, now,
                   attestedMs, phase, taker, trades, stp>>

CancelAll(u) ==
    /\ phase = "idle"
    /\ resting' = {o \in resting : o.user # u}
    /\ UNCHANGED <<pushes, nextOrderId, nextTradeId, recent, stpHits, now,
                   attestedMs, phase, taker, trades, stp>>

\* set_attested_ms, from the enclave's clock (1 stands for any close time).
SetAttestedMs(ms) ==
    /\ phase = "idle"
    /\ attestedMs' = ms
    /\ UNCHANGED <<resting, pushes, nextOrderId, nextTradeId, recent, stpHits,
                   now, phase, taker, trades, stp>>

\* Wall-clock time passes between operations.
Tick ==
    /\ phase = "idle"
    /\ now < MaxNow
    /\ now' = now + 1
    /\ UNCHANGED <<resting, pushes, nextOrderId, nextTradeId, recent, stpHits,
                   attestedMs, phase, taker, trades, stp>>

BookInit ==
    /\ resting = {} /\ pushes = 0
    /\ nextOrderId = 1 /\ nextTradeId = 1
    /\ recent = <<>>
    /\ stpHits = [u \in Users |-> <<>>]
    /\ now = 0 /\ attestedMs = 0
    /\ phase = "idle" /\ taker = NoOrder /\ trades = <<>> /\ stp = <<>>

BookNext ==
    \/ \E r \in Requests : KillFok(r) \/ Submit(r)
    \/ MatchStep
    \/ Finish
    \/ \E o \in resting : CancelOrder(o)
    \/ \E u \in Users : CancelAll(u)
    \/ \E ms \in {0, 1} : SetAttestedMs(ms)
    \/ Tick

\* A submission that entered the matching loop runs on: the lock holder is
\* never descheduled for good (the section has no await).
BookSpec == BookInit /\ [][BookNext]_bookVars /\ WF_bookVars(MatchStep \/ Finish)
----------------------------------------------------------------------------
(* Properties. *)

\* Every variable keeps its type (the structs Order, Trade and OrderBook).
TypeOK ==
    /\ resting \subseteq Order
    /\ pushes \in Nat
    /\ nextOrderId \in Nat \ {0} /\ nextTradeId \in Nat \ {0}
    /\ recent \in Seq(Trade) /\ trades \in Seq(Trade)
    /\ stpHits \in [Users -> Seq(Nat)]
    /\ now \in Nat /\ attestedMs \in {0, 1}
    /\ phase \in {"idle", "matching"}
    /\ taker \in Order \cup {NoOrder}
    /\ phase = "matching" => taker \in Order
    /\ stp \in Seq(StpEntry)

\* Only live GTC limit orders rest: a consumed maker never stays behind, so
\* the `cross <= 0' and zero-size-fill cases of match_order cannot arise.
RestingLive ==
    \A o \in resting :
        /\ o.type = "Limit" /\ o.tif = "Gtc"
        /\ o.price > 0
        /\ o.filled < o.size

\* Ids in the book are distinct and already issued, and queue position
\* agrees with age: of two resting orders the older has the earlier ticket.
QueueInIdOrder ==
    /\ \A o \in resting : o.id < nextOrderId /\ o.arr < pushes
    /\ \A o, k \in resting : o.id < k.id <=> o.arr < k.arr
    /\ \A o, k \in resting : o.id = k.id => o = k

BookWellFormed == RestingLive /\ QueueInIdOrder

\* Between submissions the best bid is strictly below the best ask: whatever
\* mix of fills, self-cross decrements and cancels came before, no
\* submission leaves two orders resting that should have met.
NotCrossed ==
    phase = "idle" =>
        \A b \in OnSide("Long"), a \in OnSide("Short") : b.price < a.price

\* No account has more than StpCap self-trade events inside one window, the
\* bound the limiter's peek-then-record pattern promises (O-M4).
StpBudget == \A u \in Users : Live(stpHits[u], now) <= StpCap

\* Every trade takes the best-priced resting order of the other side and,
\* among those, the oldest: no order that could have traded is jumped.
PriceTimePriority ==
    [][Len(trades') > Len(trades) =>
        LET t == trades'[Len(trades')] IN
        \E m \in OnSide(Opposite(taker.side)) :
            /\ m.id = t.maker /\ m.price = t.price
            /\ Crosses(taker, m.price)
            /\ \A k \in OnSide(Opposite(taker.side)) :
                 /\ taker.side = "Long" => m.price <= k.price
                 /\ taker.side = "Short" => m.price >= k.price
                 /\ m.price = k.price => m.id <= k.id]_bookVars

Depth(side) == MapThenSumSet(Remaining, OnSide(side))

\* Each matching step takes exactly as much off the opposite side as off the
\* taker, by a trade or by a self-cross, and leaves the taker's side alone.
MatchingConserves ==
    [][phase = "matching" /\ phase' = "matching" =>
        /\ Remaining(taker) - Remaining(taker')
             = Depth(Opposite(taker.side)) - Depth(Opposite(taker.side))'
        /\ Remaining(taker') < Remaining(taker)
        /\ OnSide(taker.side)' = OnSide(taker.side)]_bookVars

\* A submission is reported Open exactly when it is left on the book with
\* what it reports: api.rs decides from that status whether to persist it.
ReportedOpenIffResting ==
    [][phase = "matching" /\ phase' = "idle" =>
        (taker'.status = "Open" <=>
            \E o \in resting' : o.id = taker'.id /\ o.filled = taker'.filled
                                                 /\ o.size = taker'.size)]_bookVars

\* A FOK order that passed the pre-check leaves no unfilled remainder, even
\* when its own resting orders are met on the way.
FokLeavesNoRemainder ==
    [][phase = "matching" /\ phase' = "idle" /\ taker.tif = "Fok" =>
        Remaining(taker') = 0]_bookVars

\* The matching loop ends and the book lock is released.
SubmissionEnds == phase = "matching" ~> phase = "idle"

\* A FOK order is killed only when the book could not have filled it: the
\* liquidity of other users inside its limit is short of its size.
FokKilledOnlyIfShort ==
    [][phase = "idle" /\ nextOrderId' > nextOrderId /\ phase' = "idle" =>
        MapThenSumSet(Remaining, {m \in Crossing(taker') : m.user # taker'.user})
            < taker'.size]_bookVars
============================================================================
