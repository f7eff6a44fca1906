--------------------------- MODULE OrderBookProofs ---------------------------
(***************************************************************************)
(* Proofs about OrderBook for every set of users and requests and every    *)
(* bound: the book stays well formed, is never left crossed, trades in     *)
(* price-time priority and conserves quantity, a fill-or-kill order that   *)
(* is let in is filled, the reported status tells what rests, and no       *)
(* account outruns the self-trade budget.                                  *)
(***************************************************************************)
EXTENDS OrderBook, FiniteSetTheorems, SequenceTheorems, WellFoundedInduction, TLAPS

\* The inductive invariant: types, the shape of the book, the shape of the
\* order being matched, and the uncrossed book.  NotCrossed is about idle
\* states; what carries it through the loop is that matching only removes or
\* shrinks resting orders, so `Uncrossed' holds in every phase.
Uncrossed ==
    \A b \in OnSide("Long"), a \in OnSide("Short") : b.price < a.price

\* The order in the loop is the newest one and is still Open.
TakerFresh ==
    phase = "matching" =>
        /\ taker.id = nextOrderId - 1
        /\ taker.status = "Open"
        /\ taker.filled <= taker.size
        /\ taker.type = "Limit" => taker.price > 0
        /\ \A o \in resting : o.id # taker.id

\* What holds of any book, one reloaded from PostgreSQL included; Uncrossed is
\* kept by every operation, but a reload need not establish it.
ShapeInv == TypeOK /\ BookWellFormed /\ TakerFresh

IndInv == ShapeInv /\ Uncrossed

----------------------------------------------------------------------------
(* The rate limiter. *)

\* The number of live hits of a queue is between zero and its length.
LEMMA LiveType ==
    ASSUME NEW q \in Seq(Nat), NEW t \in Nat
    PROVE  Live(q, t) \in 0..Len(q)
<1> DEFINE S == {i \in DOMAIN q : t - q[i] < StpWindow}
<1>1. DOMAIN q = 1..Len(q) /\ Len(q) \in Nat
  BY LenProperties
<1>2. IsFiniteSet(1..Len(q)) /\ Cardinality(1..Len(q)) = Len(q)
  <2>1. 1 \in Int /\ Len(q) \in Int
    BY <1>1
  <2>2. /\ IsFiniteSet(1..Len(q))
        /\ Cardinality(1..Len(q)) = IF 1 > Len(q) THEN 0 ELSE Len(q) - 1 + 1
    BY <2>1, FS_Interval, Zenon
  <2> QED
    BY <1>1, <2>2
<1>3. S \subseteq 1..Len(q)
  BY <1>1
<1>4. IsFiniteSet(S) /\ Cardinality(S) <= Cardinality(1..Len(q))
  BY <1>2, <1>3, FS_Subset
<1>5. Cardinality(S) \in Nat
  BY <1>4, FS_CardinalityType
<1> QED
  BY <1>1, <1>2, <1>4, <1>5 DEF Live

\* Recording an event yields a queue of times.
LEMMA RecordType ==
    ASSUME TypeOK, NEW u \in Users
    PROVE  Record(u) \in Seq(Nat)
<1> DEFINE q == stpHits[u]
<1>1. q \in Seq(Nat) /\ now \in Nat
  BY DEF TypeOK
<1>2. Live(q, now) \in 0..Len(q) /\ Len(q) \in Nat
  BY <1>1, LiveType, LenProperties
<1>3. Prune(q, now) \in Seq(Nat)
  BY <1>1, <1>2, SubSeqProperties DEF Prune
<1> QED
  BY <1>1, <1>3, AppendProperties DEF Record

----------------------------------------------------------------------------
(* Initial states and the invariant's preservation. *)

\* An empty book satisfies the invariant (OrderBook::new).
LEMMA InitInd == BookInit => IndInv
<1> SUFFICES ASSUME BookInit PROVE IndInv
  OBVIOUS
<1>1. TypeOK
  BY BookAssumption, EmptySeq DEF BookInit, TypeOK
<1> QED
  BY <1>1 DEF BookInit, IndInv, ShapeInv, BookWellFormed, RestingLive,
              QueueInIdOrder, TakerFresh, Uncrossed, OnSide

\* A request becomes a well-typed fresh order.
LEMMA NewOrderType ==
    ASSUME TypeOK, NEW r \in OrderRequest
    PROVE  /\ NewOrder(r) \in Order
           /\ NewOrder(r).id = nextOrderId /\ NewOrder(r).status = "Open"
           /\ NewOrder(r).filled = 0 /\ NewOrder(r).size = r.size
           /\ NewOrder(r).type = r.type /\ NewOrder(r).price = r.price
           /\ [NewOrder(r) EXCEPT !.status = "Cancelled"] \in Order
<1>1. nextOrderId \in Nat \ {0}
  BY DEF TypeOK
<1> QED
  BY <1>1 DEF NewOrder, Order, OrderRequest, Statuses

\* A killed FOK order keeps the invariant.
LEMMA KillFokInd ==
    ASSUME ShapeInv, NEW r \in OrderRequest, KillFok(r)
    PROVE  ShapeInv' /\ (Uncrossed => Uncrossed')
<1> USE DEF ShapeInv
<1>1. TypeOK'
  BY NewOrderType, EmptySeq DEF KillFok, Accepts, TypeOK
<1>2. BookWellFormed'
  BY DEF KillFok, BookWellFormed, RestingLive, QueueInIdOrder, TypeOK, Order
<1>3. TakerFresh' /\ (Uncrossed => Uncrossed')
  BY DEF KillFok, Accepts, TakerFresh, Uncrossed, OnSide
<1> QED
  BY <1>1, <1>2, <1>3

\* Accepting an order keeps the invariant: the taker is fresh.
LEMMA SubmitInd ==
    ASSUME ShapeInv, NEW r \in OrderRequest, Submit(r)
    PROVE  ShapeInv' /\ (Uncrossed => Uncrossed')
<1> USE DEF ShapeInv
<1>0. /\ taker' \in Order /\ taker'.id = nextOrderId /\ taker'.status = "Open"
      /\ taker'.filled = 0 /\ taker'.size = r.size /\ taker'.type = r.type
      /\ taker'.price = r.price /\ r.size > 0 /\ (r.type = "Limit" => r.price > 0)
  BY NewOrderType DEF Submit, Accepts
<1>u. /\ nextOrderId' = nextOrderId + 1 /\ phase' = "matching"
      /\ trades' = <<>> /\ stp' = <<>>
      /\ UNCHANGED <<resting, pushes, nextTradeId, recent, stpHits, now, attestedMs>>
  BY DEF Submit
<1>1. TypeOK'
  BY <1>0, <1>u DEF TypeOK
<1>2. BookWellFormed'
  BY <1>u DEF BookWellFormed, RestingLive, QueueInIdOrder, TypeOK, Order
<1>3. TakerFresh'
  <2>1. \A o \in resting : o.id < nextOrderId /\ o.id \in Nat
    BY DEF BookWellFormed, QueueInIdOrder, TypeOK, Order
  <2>2. nextOrderId \in Nat /\ r.size \in Nat
    BY DEF TypeOK, OrderRequest
  <2> QED
    BY <1>0, <1>u, <2>1, <2>2 DEF TakerFresh
<1>4. Uncrossed => Uncrossed'
  BY <1>u DEF Uncrossed, OnSide
<1> QED
  BY <1>1, <1>2, <1>3, <1>4

----------------------------------------------------------------------------
(* The matching loop. *)

\* How a matching step reports the maker it met: by a trade that names it, or
\* by a self-cross entry that carries it as it is left.
MakerReported(m, m2) ==
    \/ /\ stp' = stp
       /\ \E t \in Trade : t.maker = m.id /\ trades' = Append(trades, t)
    \/ /\ trades' = trades
       /\ \E e \in StpEntry :
            /\ e.id = m.id /\ e.filled = m2.filled
            /\ e.status = IF m2.filled >= m2.size THEN "Cancelled" ELSE m.status
            /\ stp' = Append(stp, e)

\* What one matching step does to the maker it meets, whether it trades with
\* it or self-crosses it: some positive amount n, no more than either has.
MakerStep(m, m2, n) ==
    /\ m \in resting /\ IsNextMaker(taker, m)
    /\ n \in Nat /\ n > 0 /\ n <= Remaining(m) /\ n <= Remaining(taker)
    /\ m2 \in Order
    /\ m2.id = m.id /\ m2.side = m.side /\ m2.price = m.price /\ m2.arr = m.arr
    /\ m2.type = m.type /\ m2.tif = m.tif /\ m2.size = m.size
    /\ m2.user = m.user /\ m2.lev = m.lev /\ m2.reduceOnly = m.reduceOnly
    /\ m2.filled = m.filled + n
    /\ m2.status \in {m.status, "Filled", "PartiallyFilled"}
    /\ MakerReported(m, m2)
    /\ resting' = BookAfter(m, m2)
    /\ taker' \in Order /\ taker'.id = taker.id /\ taker'.status = taker.status
    /\ taker'.type = taker.type /\ taker'.price = taker.price
    /\ taker'.user = taker.user /\ taker'.side = taker.side /\ taker'.tif = taker.tif
    /\ taker'.filled <= taker'.size /\ Remaining(taker') = Remaining(taker) - n

\* What one iteration of match_order may change: the maker shrinks or goes,
\* the taker keeps its identity, and nothing else moves.
LEMMA MatchShape ==
    ASSUME ShapeInv, MatchStep
    PROVE  /\ \E m, m2, n : MakerStep(m, m2, n)
           /\ nextTradeId' \in Nat \ {0}
           /\ trades' \in Seq(Trade) /\ recent' \in Seq(Trade) /\ stp' \in Seq(StpEntry)
<1> USE DEF ShapeInv
<1>1. PICK m \in resting : IsNextMaker(taker, m) /\ (SelfCross(m) \/ Fill(m))
  BY DEF MatchStep
<1> DEFINE n == Lesser(Remaining(taker), Remaining(m))
<1>2. /\ phase = "matching" /\ taker \in Order /\ m \in Order
      /\ m.filled < m.size /\ taker.filled <= taker.size /\ Remaining(taker) > 0
  BY DEF MatchStep, TypeOK, TakerFresh, BookWellFormed, RestingLive
<1>3. /\ n \in Nat /\ n > 0 /\ n <= Remaining(m) /\ n <= Remaining(taker)
      /\ m.filled + n \in Nat /\ taker.filled + n \in Nat /\ taker.size - n \in Nat
      /\ taker.filled + n <= taker.size /\ taker.filled <= taker.size - n
  BY <1>2 DEF Lesser, Remaining, Order
<1> HIDE DEF n
<1>4. ASSUME NEW st \in Statuses
      PROVE  LET m2 == Consumed(m, n, st) IN
             /\ m2 \in Order /\ m2.id = m.id /\ m2.side = m.side
             /\ m2.price = m.price /\ m2.arr = m.arr /\ m2.type = m.type
             /\ m2.tif = m.tif /\ m2.size = m.size /\ m2.filled = m.filled + n
             /\ m2.user = m.user /\ m2.lev = m.lev /\ m2.reduceOnly = m.reduceOnly
             /\ m2.status = st
  BY <1>2, <1>3 DEF Consumed, Order
<1>5. CASE SelfCross(m)
  <2> DEFINE m2 == Consumed(m, n, m.status)
             e == [id |-> m.id, user |-> m.user,
                   status |-> IF m2.filled >= m2.size THEN "Cancelled" ELSE m.status,
                   filled |-> m2.filled, cross |-> n]
  <2>1. /\ taker' = [taker EXCEPT !.size = taker.size - n]
        /\ resting' = BookAfter(m, m2)
        /\ stp' = Append(stp, e)
        /\ UNCHANGED <<trades, recent, nextTradeId>>
    BY <1>5 DEF SelfCross, n
  <2>2. m.status \in Statuses
    BY <1>2 DEF Order
  <2>3. e \in StpEntry
    BY <1>2, <1>3, <1>4, <2>2 DEF StpEntry, Order, Statuses
  <2>4. /\ taker' \in Order /\ taker'.id = taker.id /\ taker'.status = taker.status
        /\ taker'.type = taker.type /\ taker'.price = taker.price
        /\ taker'.user = taker.user /\ taker'.side = taker.side /\ taker'.tif = taker.tif
        /\ taker'.filled <= taker'.size
        /\ taker'.filled = taker.filled /\ taker'.size = taker.size - n
    BY <1>2, <1>3, <2>1 DEF Order
  <2>q. Remaining(taker') = Remaining(taker) - n
    BY <1>2, <1>3, <2>4 DEF Order, Remaining
  <2>r. MakerReported(m, m2)
    BY <1>2, <2>1, <2>3 DEF MakerReported
  <2>5. MakerStep(m, m2, n)
    BY <1>1, <1>3, <1>4, <2>1, <2>2, <2>4, <2>q, <2>r DEF MakerStep
  <2>6. stp' \in Seq(StpEntry)
    BY <2>1, <2>3, AppendProperties DEF TypeOK
  <2> QED
    BY <2>1, <2>5, <2>6 DEF TypeOK
<1>6. CASE Fill(m)
  <2> DEFINE m2 == Consumed(m, n, FillStatus(m, n))
             t == [id |-> nextTradeId, maker |-> m.id, taker |-> taker.id,
                   makerUser |-> m.user, takerUser |-> taker.user,
                   price |-> m.price, size |-> n, takerSide |-> taker.side]
  <2>1. /\ taker' = [taker EXCEPT !.filled = taker.filled + n]
        /\ resting' = BookAfter(m, m2)
        /\ nextTradeId' = nextTradeId + 1
        /\ trades' = Append(trades, t)
        /\ recent' = PushRecent(t)
        /\ UNCHANGED stp
    BY <1>6 DEF Fill, n
  <2>2. FillStatus(m, n) \in Statuses
    BY DEF FillStatus, Statuses
  <2>3. t \in Trade
    BY <1>2, <1>3 DEF Trade, Order, TypeOK
  <2>4. /\ taker' \in Order /\ taker'.id = taker.id /\ taker'.status = taker.status
        /\ taker'.type = taker.type /\ taker'.price = taker.price
        /\ taker'.user = taker.user /\ taker'.side = taker.side /\ taker'.tif = taker.tif
        /\ taker'.filled <= taker'.size
        /\ taker'.filled = taker.filled + n /\ taker'.size = taker.size
    BY <1>2, <1>3, <2>1 DEF Order
  <2>q. Remaining(taker') = Remaining(taker) - n
    BY <1>2, <1>3, <2>4 DEF Order, Remaining
  <2>r. MakerReported(m, m2)
    BY <2>1, <2>3 DEF MakerReported
  <2>5. MakerStep(m, m2, n)
    BY <1>1, <1>3, <1>4, <2>1, <2>2, <2>4, <2>q, <2>r DEF MakerStep, FillStatus
  <2>6. trades' \in Seq(Trade)
    BY <2>1, <2>3, AppendProperties DEF TypeOK
  <2>7. recent' \in Seq(Trade)
    <3> DEFINE r == Append(recent, t)
    <3>1. r \in Seq(Trade) /\ r # <<>>
      BY <2>3, AppendProperties DEF TypeOK
    <3>2. Tail(r) \in Seq(Trade)
      BY <3>1, HeadTailProperties
    <3> QED
      BY <2>1, <3>1, <3>2 DEF PushRecent
  <2> QED
    BY <2>1, <2>5, <2>6, <2>7 DEF TypeOK
<1> QED
  BY <1>1, <1>5, <1>6

\* An iteration of match_order keeps the invariant.
LEMMA MatchInd ==
    ASSUME ShapeInv, MatchStep
    PROVE  ShapeInv' /\ (Uncrossed => Uncrossed')
<1> USE DEF ShapeInv
<1>1. PICK m, m2, n : MakerStep(m, m2, n)
  BY MatchShape
<1>2. /\ nextTradeId' \in Nat \ {0} /\ trades' \in Seq(Trade)
      /\ recent' \in Seq(Trade) /\ stp' \in Seq(StpEntry)
  BY MatchShape
<1>3. /\ UNCHANGED <<pushes, nextOrderId, stpHits, now, attestedMs, phase>>
      /\ phase = "matching"
  BY DEF MatchStep
<1>4. resting \subseteq Order /\ m \in resting /\ m2 \in Order
  BY <1>1 DEF MakerStep, TypeOK
<1>5. \A o \in resting' : o \in resting \/ (o = m2 /\ m2.filled < m2.size)
  BY <1>1, <1>4 DEF MakerStep, BookAfter, Remaining, Order
<1>6. \A o \in resting' : o = m2 \/ (o \in resting /\ o # m)
  BY <1>1 DEF MakerStep, BookAfter
<1>7. TypeOK'
  BY <1>1, <1>2, <1>3, <1>4, <1>5 DEF MakerStep, TypeOK
<1>8. RestingLive'
  BY <1>1, <1>4, <1>5 DEF MakerStep, RestingLive, BookWellFormed
<1>9. QueueInIdOrder'
  <2>1. \A o \in resting' : \E k \in resting : o.id = k.id /\ o.arr = k.arr
    BY <1>1, <1>4, <1>5 DEF MakerStep
  <2>2. \A o \in resting' : o.id < nextOrderId' /\ o.arr < pushes'
    BY <1>3, <2>1 DEF BookWellFormed, QueueInIdOrder
  <2>3. \A o, k \in resting' : o.id < k.id <=> o.arr < k.arr
    BY <2>1 DEF BookWellFormed, QueueInIdOrder
  <2>4. \A o, k \in resting' : o.id = k.id => o = k
    BY <1>1, <1>4, <1>6 DEF MakerStep, BookWellFormed, QueueInIdOrder
  <2> QED
    BY <2>2, <2>3, <2>4 DEF QueueInIdOrder
<1>10. TakerFresh'
  BY <1>1, <1>3, <1>4, <1>5 DEF MakerStep, TakerFresh
<1>11. Uncrossed => Uncrossed'
  BY <1>1, <1>4, <1>5 DEF MakerStep, Uncrossed, OnSide
<1> QED
  BY <1>7, <1>8, <1>9, <1>10, <1>11 DEF BookWellFormed

----------------------------------------------------------------------------
(* The end of a submission, and the operations outside it. *)

\* The final status is a status, and Open only for an order that rests.
LEMMA FinalStatusType ==
    ASSUME NEW o \in Order, o.filled <= o.size, o.status = "Open"
    PROVE  /\ FinalStatus(o) \in Statuses
           /\ Rests(o) => FinalStatus(o) = "Open"
  BY DEF FinalStatus, Rests, Remaining, Order, Statuses

\* The end of submit_order keeps the invariant: a remainder that rests does
\* not cross, since the loop ended only when nothing crossed it.
LEMMA FinishInd ==
    ASSUME ShapeInv, Finish
    PROVE  ShapeInv' /\ (Uncrossed => Uncrossed')
<1> USE DEF ShapeInv
<1>1. /\ phase = "matching" /\ taker \in Order /\ taker.status = "Open"
      /\ taker.filled <= taker.size /\ taker.id = nextOrderId - 1
      /\ (taker.type = "Limit" => taker.price > 0)
      /\ \A o \in resting : o.id # taker.id
  BY DEF Finish, TypeOK, TakerFresh
<1>2. /\ phase' = "idle"
      /\ taker' = [taker EXCEPT !.status = FinalStatus(taker)]
      /\ UNCHANGED <<nextOrderId, nextTradeId, recent, now, attestedMs, trades, stp>>
  BY DEF Finish
<1>3. taker' \in Order
  BY <1>1, <1>2, FinalStatusType DEF Order
<1>4. stpHits' \in [Users -> Seq(Nat)]
  <2>1. taker.user \in Users
    BY <1>1 DEF Order
  <2>2. Record(taker.user) \in Seq(Nat)
    BY <2>1, RecordType
  <2> QED
    BY <2>1, <2>2 DEF Finish, TypeOK
<1>5. TakerFresh'
  BY <1>2 DEF TakerFresh
<1>6. CASE ~Rests(taker)
  <2>1. UNCHANGED <<resting, pushes>>
    BY <1>6 DEF Finish
  <2>2. TypeOK'
    BY <1>2, <1>3, <1>4, <2>1 DEF TypeOK
  <2>3. BookWellFormed' /\ (Uncrossed => Uncrossed')
    BY <1>2, <2>1 DEF BookWellFormed, RestingLive, QueueInIdOrder, Uncrossed, OnSide
  <2> QED
    BY <1>5, <2>2, <2>3
<1>7. CASE Rests(taker)
  <2> DEFINE n == [taker EXCEPT !.arr = pushes]
  <2>1. resting' = resting \cup {n} /\ pushes' = pushes + 1
    BY <1>7 DEF Finish
  <2>2. /\ n \in Order /\ n.arr = pushes /\ n.id = taker.id /\ n.side = taker.side
        /\ n.price = taker.price /\ n.type = "Limit" /\ n.tif = "Gtc"
        /\ n.filled < n.size
    <3>1. pushes \in Nat
      BY DEF TypeOK
    <3>2. taker.type = "Limit" /\ taker.tif = "Gtc" /\ taker.size - taker.filled > 0
      BY <1>7 DEF Rests, Remaining
    <3>3. taker.size \in Nat /\ taker.filled \in Nat
      BY <1>1 DEF Order
    <3>4. taker.filled < taker.size
      BY <3>2, <3>3
    <3>5. n \in Order
      BY <1>1, <3>1 DEF Order
    <3> QED
      BY <1>1, <3>2, <3>4, <3>5 DEF Order
  <2> HIDE DEF n
  <2>3. TypeOK'
    <3>1. resting' \subseteq Order /\ pushes' \in Nat
      BY <2>1, <2>2 DEF TypeOK
    <3> QED
      BY <1>2, <1>3, <1>4, <3>1 DEF TypeOK
  <2>4. RestingLive'
    BY <1>1, <1>7, <2>1, <2>2 DEF BookWellFormed, RestingLive, Rests
  <2>5. QueueInIdOrder'
    <3>1. /\ \A o \in resting : /\ o.id \in Nat /\ o.arr \in Nat
                                /\ o.id < nextOrderId /\ o.arr < pushes
                                /\ o.id # taker.id
          /\ nextOrderId \in Nat /\ pushes \in Nat
      BY <1>1 DEF BookWellFormed, QueueInIdOrder, TypeOK, Order
    <3>2. \A o \in resting : o.id < n.id /\ o.arr < n.arr
      BY <1>1, <2>2, <3>1
    <3>3. n.id < nextOrderId' /\ n.arr < pushes'
      BY <1>1, <1>2, <2>1, <2>2, <3>1
    <3>4. \A o \in resting' : o.id < nextOrderId' /\ o.arr < pushes'
      BY <1>2, <2>1, <3>1, <3>3
    <3>5. \A o, k \in resting' : o.id < k.id <=> o.arr < k.arr
      <4> SUFFICES ASSUME NEW o \in resting', NEW k \in resting'
                   PROVE  o.id < k.id <=> o.arr < k.arr
        OBVIOUS
      <4>1. CASE o \in resting /\ k \in resting
        BY <4>1 DEF BookWellFormed, QueueInIdOrder
      <4>2. CASE o = n /\ k = n
        BY <4>2, <1>1, <2>2, <3>1
      <4>3. CASE o \in resting /\ k = n
        BY <4>3, <3>2
      <4>4. CASE o = n /\ k \in resting
        BY <4>4, <1>1, <2>2, <3>1, <3>2
      <4> QED
        BY <2>1, <4>1, <4>2, <4>3, <4>4
    <3>6. \A o, k \in resting' : o.id = k.id => o = k
      BY <1>1, <2>1, <2>2 DEF BookWellFormed, QueueInIdOrder
    <3> QED
      BY <3>4, <3>5, <3>6 DEF QueueInIdOrder
  <2>6. Uncrossed => Uncrossed'
    <3>1. Crossing(taker) = {}
      BY <1>1, <1>7 DEF Finish, Rests
    <3>2. \A o \in resting : o.side = Opposite(taker.side) => ~Crosses(taker, o.price)
      BY <3>1 DEF Crossing, OnSide
    <3>3. \A o \in resting : o.price \in Nat /\ o.side \in Sides
      BY DEF TypeOK, Order
    <3>4. taker.price \in Nat /\ taker.side \in Sides /\ taker.type = "Limit"
      BY <1>1, <1>7 DEF Order, Rests
    <3>5. \A o \in resting : /\ taker.side = "Long" /\ o.side = "Short" => taker.price < o.price
                             /\ taker.side = "Short" /\ o.side = "Long" => o.price < taker.price
      BY <3>2, <3>3, <3>4 DEF Crosses, Opposite, Sides
    <3> QED
      BY <2>1, <2>2, <3>5 DEF Uncrossed, OnSide
  <2> QED
    BY <1>5, <2>3, <2>4, <2>5, <2>6 DEF BookWellFormed
<1> QED
  BY <1>6, <1>7

\* Operations that only take orders out of an idle book.
LEMMA ShrinkInd ==
    ASSUME ShapeInv, resting' \subseteq resting, phase = "idle",
           UNCHANGED <<pushes, nextOrderId, nextTradeId, recent, stpHits, phase,
                       taker, trades, stp>>,
           now' \in Nat, attestedMs' \in {0, 1}
    PROVE  ShapeInv' /\ (Uncrossed => Uncrossed')
<1> USE DEF ShapeInv
<1>1. TypeOK'
  BY DEF TypeOK
<1>2. BookWellFormed'
  BY DEF BookWellFormed, RestingLive, QueueInIdOrder
<1>3. TakerFresh' /\ (Uncrossed => Uncrossed')
  BY DEF TakerFresh, Uncrossed, OnSide
<1> QED
  BY <1>1, <1>2, <1>3

\* Every step keeps the invariant.
LEMMA NextInd ==
    ASSUME IndInv, [BookNext]_bookVars
    PROVE  IndInv'
<1> USE DEF IndInv
<1>0. Requests \subseteq OrderRequest
  BY BookAssumption
<1>1. ASSUME NEW r \in Requests, KillFok(r) PROVE IndInv'
  BY <1>0, <1>1, KillFokInd
<1>2. ASSUME NEW r \in Requests, Submit(r) PROVE IndInv'
  BY <1>0, <1>2, SubmitInd
<1>3. CASE MatchStep
  BY <1>3, MatchInd
<1>4. CASE Finish
  BY <1>4, FinishInd
<1>5. ASSUME NEW o \in resting, CancelOrder(o) PROVE IndInv'
  BY <1>5, ShrinkInd DEF CancelOrder, ShapeInv, TypeOK
<1>6. ASSUME NEW u \in Users, CancelAll(u) PROVE IndInv'
  BY <1>6, ShrinkInd DEF CancelAll, ShapeInv, TypeOK
<1>7. ASSUME NEW ms \in {0, 1}, SetAttestedMs(ms) PROVE IndInv'
  BY <1>7, ShrinkInd DEF SetAttestedMs, ShapeInv, TypeOK
<1>8. CASE Tick
  BY <1>8, ShrinkInd DEF Tick, ShapeInv, TypeOK
<1>9. CASE UNCHANGED bookVars
  BY <1>9 DEF bookVars, ShapeInv, TypeOK, BookWellFormed, RestingLive,
              QueueInIdOrder, TakerFresh, Uncrossed, OnSide
<1> QED
  BY <1>1, <1>2, <1>3, <1>4, <1>5, <1>6, <1>7, <1>8, <1>9 DEF BookNext

----------------------------------------------------------------------------
(* The theorems. *)

\* The inductive invariant holds of every behaviour of the book.
THEOREM BookInvariant == BookSpec => []IndInv
<1>1. BookInit => IndInv
  BY InitInd
<1>2. IndInv /\ [BookNext]_bookVars => IndInv'
  BY NextInd
<1> QED
  BY <1>1, <1>2, PTL DEF BookSpec

\* The state of orderbook.rs keeps its types.
THEOREM BookTypeCorrect == BookSpec => []TypeOK
<1>1. IndInv => TypeOK
  BY DEF IndInv, ShapeInv
<1> QED
  BY <1>1, BookInvariant, PTL

\* match_order and cancel_order never leave a consumed order in a level, and
\* a level's queue order is always order-id order.
THEOREM BookStaysWellFormed == BookSpec => []BookWellFormed
<1>1. IndInv => BookWellFormed
  BY DEF IndInv, ShapeInv
<1> QED
  BY <1>1, BookInvariant, PTL

\* No submission leaves the book crossed.
THEOREM BookNeverCrossed == BookSpec => []NotCrossed
<1>1. IndInv => NotCrossed
  BY DEF IndInv, Uncrossed, NotCrossed
<1> QED
  BY <1>1, BookInvariant, PTL

\* A step that trades is a matching step, and it trades with its next maker.
LEMMA TradeStep ==
    ASSUME IndInv, [BookNext]_bookVars, Len(trades') > Len(trades)
    PROVE  /\ MatchStep
           /\ \E m \in resting :
                /\ IsNextMaker(taker, m)
                /\ trades'[Len(trades')].maker = m.id
                /\ trades'[Len(trades')].price = m.price
<1>0. trades \in Seq(Trade) /\ Len(trades) \in Nat /\ Len(<<>>) = 0
  BY LenProperties DEF IndInv, ShapeInv, TypeOK
<1>1. MatchStep
  BY <1>0 DEF BookNext, bookVars, KillFok, Submit, Finish, CancelOrder, CancelAll,
              SetAttestedMs, Tick
<1>2. PICK m \in resting : IsNextMaker(taker, m) /\ (SelfCross(m) \/ Fill(m))
  BY <1>1 DEF MatchStep
<1>3. Fill(m)
  BY <1>0, <1>2 DEF SelfCross
<1> DEFINE t == [id |-> nextTradeId, maker |-> m.id, taker |-> taker.id,
                 makerUser |-> m.user, takerUser |-> taker.user,
                 price |-> m.price,
                 size |-> Lesser(Remaining(taker), Remaining(m)),
                 takerSide |-> taker.side]
<1>4. trades' = Append(trades, t)
  BY <1>3 DEF Fill
<1>5. trades'[Len(trades')] = t
  BY <1>0, <1>4
<1>6. t.maker = m.id /\ t.price = m.price
  OBVIOUS
<1> QED
  BY <1>1, <1>2, <1>5, <1>6

\* Every trade of match_order is with the best-priced and, at that price,
\* oldest order of the other side.  The code compares queue positions, never
\* ids: that the two agree is QueueInIdOrder, hence the inductive invariant.
THEOREM BookTradesInPriority == BookSpec => PriceTimePriority
<1>1. ASSUME IndInv, [BookNext]_bookVars, Len(trades') > Len(trades)
      PROVE  LET t == trades'[Len(trades')] IN
             \E m \in OnSide(Opposite(taker.side)) :
                /\ m.id = t.maker /\ m.price = t.price
                /\ Crosses(taker, m.price)
                /\ \A k \in OnSide(Opposite(taker.side)) :
                     /\ taker.side = "Long" => m.price <= k.price
                     /\ taker.side = "Short" => m.price >= k.price
                     /\ m.price = k.price => m.id <= k.id
  <2>1. MatchStep
    BY <1>1, TradeStep
  <2>2. PICK m \in resting : /\ IsNextMaker(taker, m)
                             /\ trades'[Len(trades')].maker = m.id
                             /\ trades'[Len(trades')].price = m.price
    BY <1>1, TradeStep
  <2>3. /\ taker \in Order /\ taker.side \in Sides /\ taker.price \in Nat
        /\ \A o \in resting : o.id \in Nat /\ o.arr \in Nat /\ o.price \in Nat
    BY <1>1, <2>1 DEF MatchStep, IndInv, ShapeInv, TypeOK, Order
  <2>4. m \in OnSide(Opposite(taker.side)) /\ Crosses(taker, m.price)
    BY <2>2 DEF IsNextMaker, Crossing
  <2>5. ASSUME NEW k \in OnSide(Opposite(taker.side))
        PROVE  /\ taker.side = "Long" => m.price <= k.price
               /\ taker.side = "Short" => m.price >= k.price
               /\ m.price = k.price => m.id <= k.id
    <3>1. k \in resting
      BY DEF OnSide
    <3>2. CASE k \in Crossing(taker)
      <4>1. Before(taker.side, m, k)
        BY <2>2, <3>2 DEF IsNextMaker
      <4>2. m.price = k.price => m.id <= k.id
        <5>1. k.id < m.id <=> k.arr < m.arr
          BY <1>1, <3>1 DEF IndInv, ShapeInv, BookWellFormed, QueueInIdOrder
        <5> QED
          BY <2>3, <3>1, <4>1, <5>1 DEF Before
      <4> QED
        BY <2>3, <3>1, <4>1, <4>2 DEF Before, Sides
    <3>3. CASE k \notin Crossing(taker)
      <4>1. ~Crosses(taker, k.price)
        BY <3>3 DEF Crossing
      <4> QED
        BY <2>3, <2>4, <3>1, <4>1 DEF Crosses, Sides
    <3> QED
      BY <3>2, <3>3
  <2> QED
    BY <2>2, <2>4, <2>5
<1> QED
  BY <1>1, BookInvariant, PTL DEF BookSpec, PriceTimePriority

----------------------------------------------------------------------------
(* The self-trade budget. *)

\* The budget holds, and while an order is matched its owner still has room
\* for the one event that Finish may record: stp_rate.peek is asked before the
\* loop, stp_rate.record runs after it, and the clock does not move in between.
StpInv ==
    /\ StpBudget
    /\ phase = "matching" => Live(stpHits[taker.user], now) < StpCap

\* Recording an event leaves at most one more live hit than there were.
LEMMA RecordAddsOne ==
    ASSUME TypeOK, NEW u \in Users
    PROVE  Live(Record(u), now) <= Live(stpHits[u], now) + 1
<1> DEFINE q == stpHits[u]
           k == Live(q, now)
<1>1. q \in Seq(Nat) /\ now \in Nat
  BY DEF TypeOK
<1>2. k \in 0..Len(q) /\ Len(q) \in Nat
  BY <1>1, LiveType, LenProperties
<1>3. Prune(q, now) \in Seq(Nat) /\ Len(Prune(q, now)) = k
  <2>1. Len(q) - k + 1 \in 1 .. (Len(q) + 1) /\ Len(q) \in (Len(q) - k) .. Len(q)
    BY <1>2
  <2> HIDE DEF k
  <2> QED
    BY <1>1, <1>2, <2>1, SubSeqProperties DEF Prune, k
<1>4. Len(Record(u)) = k + 1 /\ Record(u) \in Seq(Nat)
  BY <1>1, <1>3, AppendProperties DEF Record
<1>5. Live(Record(u), now) \in 0..Len(Record(u))
  BY <1>1, <1>4, LiveType
<1> QED
  BY <1>2, <1>4, <1>5

\* As time passes hits only leave the window.
LEMMA LiveShrinks ==
    ASSUME NEW q \in Seq(Nat), NEW t \in Nat
    PROVE  Live(q, t + 1) <= Live(q, t)
<1> DEFINE S(x) == {i \in DOMAIN q : x - q[i] < StpWindow}
<1>1. DOMAIN q = 1..Len(q) /\ Len(q) \in Nat /\ \A i \in DOMAIN q : q[i] \in Nat
  BY LenProperties, ElementOfSeq
<1>2. IsFiniteSet(S(t))
  <2>1. IsFiniteSet(1..Len(q))
    BY <1>1, FS_Interval
  <2>2. S(t) \subseteq 1..Len(q)
    BY <1>1
  <2> QED
    BY <2>1, <2>2, FS_Subset
<1>3. S(t + 1) \subseteq S(t)
  BY <1>1, BookAssumption
<1>4. Cardinality(S(t + 1)) <= Cardinality(S(t))
  BY <1>2, <1>3, FS_Subset
<1> QED
  BY <1>4 DEF Live

\* Every operation of the book keeps the budget.
LEMMA StpNext ==
    ASSUME ShapeInv, StpInv, [BookNext]_bookVars
    PROVE  StpInv'
<1> USE DEF ShapeInv, StpInv, StpBudget
<1>0. /\ Requests \subseteq OrderRequest /\ StpCap \in Nat \ {0}
      /\ \A r \in OrderRequest : r.user \in Users
      /\ stpHits \in [Users -> Seq(Nat)] /\ now \in Nat
      /\ \A u \in Users : Live(stpHits[u], now) \in Nat
  BY BookAssumption, LiveType, LenProperties DEF OrderRequest, TypeOK
<1>1. ASSUME NEW r \in Requests, KillFok(r) PROVE StpInv'
  BY <1>1 DEF KillFok, Accepts
<1>2. ASSUME NEW r \in Requests, Submit(r) PROVE StpInv'
  <2>1. Peek(r.user) /\ taker'.user = r.user /\ stpHits' = stpHits /\ now' = now
    BY <1>2 DEF Submit, Accepts, NewOrder
  <2> QED
    BY <2>1 DEF Peek
<1>3. CASE MatchStep
  <2>1. taker'.user = taker.user /\ stpHits' = stpHits /\ now' = now /\ phase' = phase
    BY <1>3, MatchShape DEF MatchStep, MakerStep
  <2> QED
    BY <2>1
<1>4. CASE Finish
  <2>1. phase' = "idle" /\ now' = now /\ phase = "matching" /\ taker.user \in Users
    BY <1>4 DEF Finish, TypeOK, Order
  <2>2. SUFFICES ASSUME NEW u \in Users PROVE Live(stpHits'[u], now) <= StpCap
    BY <2>1
  <2>3. CASE stpHits'[u] = stpHits[u]
    BY <2>3
  <2>4. CASE u = taker.user /\ stpHits'[u] = Record(u)
    <3>1. Live(Record(u), now) <= Live(stpHits[u], now) + 1
      BY RecordAddsOne
    <3>2. Live(stpHits[u], now) < StpCap
      BY <2>1, <2>4
    <3>3. Live(Record(u), now) \in Nat
      BY <1>0, RecordType, LiveType, LenProperties
    <3> QED
      BY <1>0, <2>4, <3>1, <3>2, <3>3
  <2> QED
    BY <1>0, <1>4, <2>1, <2>3, <2>4 DEF Finish
<1>5. ASSUME NEW o \in resting, CancelOrder(o) PROVE StpInv'
  BY <1>5 DEF CancelOrder
<1>6. ASSUME NEW u \in Users, CancelAll(u) PROVE StpInv'
  BY <1>6 DEF CancelAll
<1>7. ASSUME NEW ms \in {0, 1}, SetAttestedMs(ms) PROVE StpInv'
  BY <1>7 DEF SetAttestedMs
<1>8. CASE Tick
  <2>1. stpHits' = stpHits /\ now' = now + 1 /\ phase' = "idle"
    BY <1>8 DEF Tick
  <2>2. ASSUME NEW u \in Users PROVE Live(stpHits[u], now + 1) <= StpCap
    <3>1. Live(stpHits[u], now + 1) <= Live(stpHits[u], now)
      BY <1>0, LiveShrinks
    <3>2. Live(stpHits[u], now + 1) \in Nat
      <4>1. stpHits[u] \in Seq(Nat) /\ now + 1 \in Nat
        BY <1>0
      <4>2. Live(stpHits[u], now + 1) \in 0..Len(stpHits[u])
        BY <4>1, LiveType
      <4> QED
        BY <4>2
    <3> QED
      BY <1>0, <3>1, <3>2
  <2> QED
    BY <2>1, <2>2
<1>9. CASE UNCHANGED bookVars
  BY <1>9 DEF bookVars
<1> QED
  BY <1>1, <1>2, <1>3, <1>4, <1>5, <1>6, <1>7, <1>8, <1>9 DEF BookNext

\* The limiter of orderbook.rs never lets an account have more than StpCap
\* self-trade events inside one window, whatever orders it sends.
THEOREM BudgetKept == BookSpec => []StpBudget
<1>1. BookInit => StpInv
  <2> SUFFICES ASSUME BookInit PROVE StpInv
    OBVIOUS
  <2>1. \A u \in Users : Live(stpHits[u], now) \in 0..0
    BY LiveType, EmptySeq DEF BookInit
  <2> QED
    BY <2>1, BookAssumption DEF BookInit, StpInv, StpBudget
<1>2. IndInv => ShapeInv
  BY DEF IndInv
<1>3. ShapeInv /\ StpInv /\ [BookNext]_bookVars => StpInv'
  BY StpNext
<1>4. StpInv => StpBudget
  BY DEF StpInv
<1> QED
  BY <1>1, <1>2, <1>3, <1>4, BookInvariant, PTL DEF BookSpec

----------------------------------------------------------------------------
(* Sums over the book.  MapThenSumSet picks the orders of a set one by one; *)
(* the lemmas show that the total does not depend on how they are picked.   *)
(* Each induction over finite sets looks at a counterexample of least size. *)

Pick(s) == CHOOSE x \in s : TRUE

Total(S) == MapThenSumSet(Remaining, S)

\* f is the table MapThenSumSet computes over the subsets of S, or those in D.
TotalsOn(f, D) ==
    f = [s \in D |-> IF s = {} THEN 0 ELSE Remaining(Pick(s)) + f[s \ {Pick(s)}]]

LEMMA LeastNatural ==
    ASSUME NEW T \in SUBSET Nat, T # {}
    PROVE  \E n \in T : \A m \in T : n <= m
<1>1. PICK n \in T : \A m \in T : ~(<<m, n>> \in OpToRel(<, Nat))
  BY NatLessThanWellFounded, WFMin
<1>2. \A m \in T : ~(m < n)
  BY <1>1 DEF OpToRel
<1>3. \A m \in T : m \in Nat
  OBVIOUS
<1>4. ASSUME NEW m \in T PROVE n <= m
  <2>1. m \in Nat /\ n \in Nat /\ ~(m < n)
    BY <1>2, <1>3
  <2> QED
    BY <2>1
<1> QED
  BY <1>4

\* The element picked is an element, and the rest is smaller.
LEMMA PickShrinks ==
    ASSUME NEW s, s # {}, IsFiniteSet(s)
    PROVE  /\ Pick(s) \in s /\ IsFiniteSet(s \ {Pick(s)})
           /\ Cardinality(s) \in Nat \ {0}
           /\ Cardinality(s \ {Pick(s)}) = Cardinality(s) - 1
<1>1. Pick(s) \in s
  BY DEF Pick
<1>2. Cardinality(s) \in Nat /\ Cardinality(s) # 0
  BY FS_CardinalityType, FS_EmptySet
<1>3. /\ IsFiniteSet(s \ {Pick(s)})
      /\ Cardinality(s \ {Pick(s)}) = Cardinality(s) - 1
  BY <1>1, FS_RemoveElement
<1> QED
  BY <1>1, <1>2, <1>3

\* The recursion of MapThenSumSet has a solution on every finite set.
LEMMA TotalsExist ==
    ASSUME NEW S, IsFiniteSet(S)
    PROVE  \E f : TotalsOn(f, SUBSET S)
<1> DEFINE D(n) == {t \in SUBSET S : Cardinality(t) <= n}
           Bad == {n \in Nat : ~\E f : TotalsOn(f, D(n))}
<1>0. \A t \in SUBSET S : IsFiniteSet(t) /\ Cardinality(t) \in Nat
                            /\ Cardinality(t) <= Cardinality(S)
  BY FS_Subset, FS_CardinalityType
<1>1. Bad = {}
  <2> SUFFICES ASSUME Bad # {} PROVE FALSE
    OBVIOUS
  <2>1. PICK n \in Bad : \A m \in Bad : n <= m
    <3> HIDE DEF Bad
    <3>1. Bad \in SUBSET Nat
      BY DEF Bad
    <3> QED
      BY <3>1, LeastNatural
  <2>2. CASE n = 0
    <3> DEFINE f == [s \in D(0) |-> 0]
    <3>1. \A s \in D(0) : s = {}
      BY <1>0, FS_EmptySet
    <3>2. TotalsOn(f, D(0))
      BY <3>1 DEF TotalsOn
    <3> QED
      BY <2>1, <2>2, <3>2
  <2>3. CASE n # 0
    <3>1. n \in Nat /\ n - 1 \in Nat
      BY <2>1, <2>3
    <3>2. PICK g : TotalsOn(g, D(n - 1))
      BY <2>1, <3>1
    <3> DEFINE f == [s \in D(n) |->
                      IF s = {} THEN 0 ELSE Remaining(Pick(s)) + g[s \ {Pick(s)}]]
    <3>3. ASSUME NEW s \in D(n), s # {}
          PROVE  f[s \ {Pick(s)}] = g[s \ {Pick(s)}]
      <4> DEFINE t == s \ {Pick(s)}
      <4>1. t \in D(n - 1) /\ t \in D(n)
        <5>1. Cardinality(t) = Cardinality(s) - 1 /\ Cardinality(s) \in Nat
          BY <1>0, <3>3, PickShrinks
        <5>2. t \in SUBSET S
          OBVIOUS
        <5> HIDE DEF t
        <5> QED
          BY <3>1, <5>1, <5>2
      <4> HIDE DEF t
      <4>2. g[t] = IF t = {} THEN 0 ELSE Remaining(Pick(t)) + g[t \ {Pick(t)}]
        BY <3>2, <4>1 DEF TotalsOn
      <4>3. f[t] = IF t = {} THEN 0 ELSE Remaining(Pick(t)) + g[t \ {Pick(t)}]
        BY <4>1
      <4> QED
        BY <4>2, <4>3 DEF t
    <3>4. TotalsOn(f, D(n))
      BY <3>3, Zenon DEF TotalsOn
    <3> QED
      BY <2>1, <3>4
  <2> QED
    BY <2>2, <2>3
<1>2. SUBSET S = D(Cardinality(S)) /\ Cardinality(S) \in Nat
  BY <1>0, FS_CardinalityType
<1>3. \E f : TotalsOn(f, D(Cardinality(S)))
  BY <1>1, <1>2
<1> QED
  BY <1>2, <1>3

\* The total of a set, and of each subset of it, is what one table says.
LEMMA TotalsTable ==
    ASSUME NEW S, IsFiniteSet(S)
    PROVE  \E f : TotalsOn(f, SUBSET S) /\ \A T \in SUBSET S : Total(T) = f[T]
<1>1. ASSUME NEW T, IsFiniteSet(T)
      PROVE  \E g : TotalsOn(g, SUBSET T) /\ Total(T) = g[T]
  <2> DEFINE G == CHOOSE f : TotalsOn(f, SUBSET T)
  <2>1. Total(T) = G[T]
    BY Zenon DEF Total, MapThenSumSet, MapThenFoldSet, TotalsOn, Pick
  <2>2. TotalsOn(G, SUBSET T)
    BY <1>1, TotalsExist, Zenon
  <2> QED
    BY <2>1, <2>2
<1>2. PICK f : TotalsOn(f, SUBSET S)
  BY TotalsExist
<1>3. ASSUME NEW T \in SUBSET S PROVE Total(T) = f[T]
  <2>0. \A t \in SUBSET T : IsFiniteSet(t) /\ Cardinality(t) \in Nat /\ t \in SUBSET S
    BY FS_Subset, FS_CardinalityType
  <2>1. PICK g : TotalsOn(g, SUBSET T) /\ Total(T) = g[T]
    BY <1>1, <2>0
  <2> DEFINE Bad == {Cardinality(t) : t \in {x \in SUBSET T : f[x] # g[x]}}
  <2>2. Bad = {}
    <3> SUFFICES ASSUME Bad # {} PROVE FALSE
      OBVIOUS
    <3>1. Bad \in SUBSET Nat
      BY <2>0
    <3>2. PICK n \in Bad : \A m \in Bad : n <= m
      <4> HIDE DEF Bad
      <4> QED
        BY <3>1, LeastNatural
    <3>3. PICK t \in SUBSET T : f[t] # g[t] /\ n = Cardinality(t)
      BY <3>2
    <3>4. t # {}
      BY <1>2, <2>0, <2>1, <3>3 DEF TotalsOn
    <3> DEFINE u == t \ {Pick(t)}
    <3>5. u \in SUBSET T /\ Cardinality(u) \in Nat /\ Cardinality(u) < n
      BY <2>0, <3>3, <3>4, PickShrinks
    <3>6. f[u] = g[u]
      <4>1. Cardinality(u) \notin Bad
        <5> HIDE DEF Bad, u
        <5> QED
          BY <3>1, <3>2, <3>5
      <4> QED
        BY <3>5, <4>1
    <3>7. f[t] = Remaining(Pick(t)) + f[u] /\ g[t] = Remaining(Pick(t)) + g[u]
      <4>1. t \in SUBSET S
        OBVIOUS
      <4> QED
        BY <1>2, <2>1, <3>4, <4>1 DEF TotalsOn
    <3> QED
      BY <3>3, <3>6, <3>7
  <2>3. f[T] = g[T]
    BY <2>2
  <2> QED
    BY <2>1, <2>3
<1> QED
  BY <1>2, <1>3

\* The total of naturals is a natural; any element can be taken out first.
LEMMA TotalSplit ==
    ASSUME NEW S, IsFiniteSet(S), \A o \in S : Remaining(o) \in Nat
    PROVE  /\ Total({}) = 0 /\ Total(S) \in Nat
           /\ \A x \in S : Total(S) = Remaining(x) + Total(S \ {x})
<1> DEFINE R(x) == Remaining(x)
<1> HIDE DEF R
<1>r. \A o \in S : R(o) \in Nat
  BY DEF R
<1>0. \A t \in SUBSET S : IsFiniteSet(t) /\ Cardinality(t) \in Nat
  BY FS_Subset, FS_CardinalityType
<1>1. /\ Total({}) = 0
      /\ \A s \in SUBSET S : s # {} => /\ Pick(s) \in s /\ s \ {Pick(s)} \in SUBSET S
                                       /\ Total(s) = R(Pick(s)) + Total(s \ {Pick(s)})
  <2>1. PICK f : TotalsOn(f, SUBSET S) /\ \A T \in SUBSET S : Total(T) = f[T]
    BY TotalsTable
  <2>2. Total({}) = 0
    <3>1. {} \in SUBSET S /\ f[{}] = 0
      BY <2>1 DEF TotalsOn
    <3> QED
      BY <2>1, <3>1
  <2>3. ASSUME NEW s \in SUBSET S, s # {}
        PROVE  /\ Pick(s) \in s /\ s \ {Pick(s)} \in SUBSET S
               /\ Total(s) = R(Pick(s)) + Total(s \ {Pick(s)})
    <3>1. f[s] = Remaining(Pick(s)) + f[s \ {Pick(s)}]
      BY <2>1, <2>3 DEF TotalsOn
    <3>2. Pick(s) \in s /\ s \ {Pick(s)} \in SUBSET S
      BY <1>0, <2>3, PickShrinks
    <3> QED
      BY <2>1, <3>1, <3>2 DEF R
  <2> QED
    BY <2>2, <2>3
<1>2. \A s \in SUBSET S : Total(s) \in Nat
  <2> DEFINE Bad == {Cardinality(t) : t \in {x \in SUBSET S : Total(x) \notin Nat}}
  <2> SUFFICES ASSUME Bad # {} PROVE FALSE
    OBVIOUS
  <2>1. Bad \in SUBSET Nat
    BY <1>0
  <2>2. PICK n \in Bad : \A m \in Bad : n <= m
    <3> HIDE DEF Bad
    <3> QED
      BY <2>1, LeastNatural
  <2>3. PICK t \in SUBSET S : Total(t) \notin Nat /\ n = Cardinality(t)
    BY <2>2
  <2>4. t # {}
    BY <1>1, <2>3
  <2> DEFINE u == t \ {Pick(t)}
  <2>5. u \in SUBSET S /\ Cardinality(u) \in Nat /\ Cardinality(u) < n /\ Pick(t) \in S
    BY <1>0, <2>3, <2>4, PickShrinks
  <2>6. Total(u) \in Nat
    <3>1. Cardinality(u) \notin Bad
      <4> HIDE DEF Bad, u
      <4> QED
        BY <2>1, <2>2, <2>5
    <3> QED
      BY <2>5, <3>1
  <2>7. Total(t) = R(Pick(t)) + Total(u)
    BY <1>1, <2>4
  <2> QED
    BY <1>r, <2>3, <2>5, <2>6, <2>7
<1>3. \A s \in SUBSET S : \A x \in s : Total(s) = R(x) + Total(s \ {x})
  <2> DEFINE Odd(s) == \E x \in s : Total(s) # R(x) + Total(s \ {x})
             Bad == {Cardinality(t) : t \in {y \in SUBSET S : Odd(y)}}
  <2> SUFFICES ASSUME Bad # {} PROVE FALSE
    OBVIOUS
  <2>1. Bad \in SUBSET Nat
    BY <1>0
  <2>2. PICK n \in Bad : \A m \in Bad : n <= m
    <3> HIDE DEF Bad
    <3> QED
      BY <2>1, LeastNatural
  <2>3. PICK t \in SUBSET S : Odd(t) /\ n = Cardinality(t)
    BY <2>2
  <2>4. PICK x \in t : Total(t) # R(x) + Total(t \ {x})
    BY <2>3
  <2> DEFINE c == Pick(t)
             u == t \ {c}
             v == t \ {x}
             w == u \ {x}
  <2>5. c \in t /\ u \in SUBSET S /\ v \in SUBSET S /\ w \in SUBSET S /\ w = v \ {c}
    BY <1>1, <2>4
  <2>6. x # c /\ Total(t) = R(c) + Total(u)
    BY <1>1, <2>4
  <2>7. x \in u /\ c \in v
    BY <2>5, <2>6
  <2>8. Cardinality(u) < n /\ Cardinality(v) < n /\ Cardinality(u) \in Nat /\ Cardinality(v) \in Nat
    <3>1. IsFiniteSet(t) /\ n \in Nat
      BY <1>0, <2>3
    <3>2. Cardinality(u) = n - 1 /\ Cardinality(v) = n - 1
      BY <2>3, <2>4, <2>5, <3>1, FS_RemoveElement
    <3>3. Cardinality(u) \in Nat /\ Cardinality(v) \in Nat
      BY <1>0, <2>5
    <3> QED
      BY <3>1, <3>2, <3>3
  <2> HIDE DEF c, u, v, w
  <2>9. ~Odd(u) /\ ~Odd(v)
    <3>1. Cardinality(u) \notin Bad /\ Cardinality(v) \notin Bad
      <4> HIDE DEF Bad
      <4> QED
        BY <2>1, <2>2, <2>8
    <3> QED
      BY <2>5, <3>1
  <2>10. Total(u) = R(x) + Total(w) /\ Total(v) = R(c) + Total(w)
    BY <2>5, <2>7, <2>9 DEF w
  <2>11. R(x) \in Nat /\ R(c) \in Nat /\ Total(w) \in Nat
    BY <1>r, <1>2, <2>4, <2>5
  <2> QED
    BY <2>4, <2>6, <2>10, <2>11 DEF v
<1> QED
  BY <1>1, <1>2, <1>3 DEF R

\* A smaller set has no larger total.
LEMMA TotalMonotone ==
    ASSUME NEW S, IsFiniteSet(S), \A o \in S : Remaining(o) \in Nat, NEW T \in SUBSET S
    PROVE  Total(T) <= Total(S)
<1> DEFINE Bad == {Cardinality(t) : t \in {y \in SUBSET S : ~(Total(S \ y) <= Total(S))}}
<1>0. \A t \in SUBSET S : /\ IsFiniteSet(t) /\ Cardinality(t) \in Nat
                          /\ \A o \in t : Remaining(o) \in Nat
  BY FS_Subset, FS_CardinalityType
<1>n. \A t \in SUBSET S : Total(t) \in Nat
  BY <1>0, TotalSplit
<1>1. Bad = {}
  <2> SUFFICES ASSUME Bad # {} PROVE FALSE
    OBVIOUS
  <2>1. Bad \in SUBSET Nat
    BY <1>0
  <2>2. PICK n \in Bad : \A m \in Bad : n <= m
    <3> HIDE DEF Bad
    <3> QED
      BY <2>1, LeastNatural
  <2>3. PICK t \in SUBSET S : ~(Total(S \ t) <= Total(S)) /\ n = Cardinality(t)
    BY <2>2
  <2>4. t # {}
    <3> SUFFICES ASSUME t = {} PROVE FALSE
      OBVIOUS
    <3>1. S \ t = S /\ Total(S) \in Nat
      BY <1>n
    <3> QED
      BY <2>3, <3>1
  <2> DEFINE x == Pick(t)
             u == t \ {x}
  <2>5. x \in t /\ u \in SUBSET S /\ Cardinality(u) \in Nat /\ Cardinality(u) < n
    BY <1>0, <2>3, <2>4, PickShrinks
  <2> HIDE DEF x
  <2>6. Total(S \ u) <= Total(S)
    <3>1. Cardinality(u) \notin Bad
      <4> HIDE DEF Bad, u
      <4> QED
        BY <2>1, <2>2, <2>5
    <3> QED
      BY <2>5, <3>1
  <2>7. S \ t = (S \ u) \ {x} /\ x \in S \ u /\ S \ u \in SUBSET S /\ S \ t \in SUBSET S
    BY <2>5
  <2>8. Total(S \ u) = Remaining(x) + Total(S \ t) /\ Remaining(x) \in Nat
    <3>1. Total(S \ u) = Remaining(x) + Total((S \ u) \ {x})
      <4> HIDE DEF u
      <4> QED
        BY <1>0, <2>7, TotalSplit
    <3> QED
      BY <1>0, <2>7, <3>1
  <2> HIDE DEF u
  <2> QED
    BY <1>n, <2>3, <2>6, <2>7, <2>8
<1>2. S \ T \in SUBSET S /\ S \ (S \ T) = T
  OBVIOUS
<1>3. Total(S \ (S \ T)) <= Total(S)
  BY <1>1, <1>2
<1> QED
  BY <1>2, <1>3

----------------------------------------------------------------------------
(* Quantities: what matching takes, and what a fill-or-kill order gets. *)

\* The book is finite, and a fill-or-kill order in the loop still finds as much
\* of other users inside its limit as it has left.
FokInv ==
    /\ IsFiniteSet(resting)
    /\ phase = "matching" /\ taker.tif = "Fok" => Remaining(taker) <= AvailableLiquidity(taker)

\* What the orders of a well-formed book have left is natural.
LEMMA RestingRemains ==
    ASSUME ShapeInv
    PROVE  \A o \in resting : Remaining(o) \in Nat
BY DEF ShapeInv, TypeOK, BookWellFormed, RestingLive, Remaining, Order

\* A step of the loop takes n off any set of resting orders that holds the maker,
\* when the maker as it is left replaces it.
LEMMA MakerLosesN ==
    ASSUME ShapeInv, IsFiniteSet(resting), NEW m, NEW m2, NEW n, MakerStep(m, m2, n),
           NEW V \in SUBSET resting, m \in V
    PROVE  LET W == (V \ {m}) \cup (IF Remaining(m2) > 0 THEN {m2} ELSE {})
           IN  /\ Total(W) = Total(V) - n
               /\ IsFiniteSet(W) /\ \A o \in W : Remaining(o) \in Nat
<1> DEFINE K == V \ {m}
<1>0. \A o \in V : Remaining(o) \in Nat
  BY RestingRemains
<1>1. IsFiniteSet(V) /\ IsFiniteSet(K)
  BY FS_Subset
<1>2. Total(V) = Remaining(m) + Total(K) /\ Total(K) \in Nat /\ Remaining(m) \in Nat
  <2>1. Total(V) = Remaining(m) + Total(V \ {m})
    BY <1>0, <1>1, TotalSplit
  <2>2. Total(K) \in Nat
    <3>1. \A o \in K : Remaining(o) \in Nat
      BY <1>0
    <3> HIDE DEF K
    <3> QED
      BY <1>1, <3>1, TotalSplit
  <2> QED
    BY <1>0, <2>1, <2>2
<1>3. n \in Nat /\ n > 0 /\ n <= Remaining(m) /\ Remaining(m2) = Remaining(m) - n
  <2>1. m \in Order /\ m2.size = m.size /\ m2.filled = m.filled + n /\ n \in Nat
    BY DEF MakerStep, ShapeInv, TypeOK
  <2> QED
    BY <2>1 DEF MakerStep, Remaining, Order
<1>4. m2 \notin K
  <2>1. m2.id = m.id /\ m2 # m
    BY <1>2, <1>3
       DEF MakerStep
  <2>2. \A o \in K : o \in resting /\ o # m
    OBVIOUS
  <2> QED
    BY <2>1, <2>2 DEF ShapeInv, BookWellFormed, QueueInIdOrder, MakerStep
<1>5. CASE Remaining(m2) > 0
  <2> DEFINE W == K \cup {m2}
  <2>1. IsFiniteSet(W) /\ \A o \in W : Remaining(o) \in Nat
    BY <1>0, <1>1, <1>2, <1>3, FS_AddElement
  <2>2. Total(W) = Remaining(m2) + Total(W \ {m2})
    <3>1. m2 \in W
      OBVIOUS
    <3> HIDE DEF W
    <3> QED
      BY <2>1, <3>1, TotalSplit
  <2>3. W \ {m2} = K
    BY <1>4
  <2>4. Total(W) = Total(V) - n
    <3>1. Total(W) = Remaining(m2) + Total(K)
      BY <2>2, <2>3
    <3> HIDE DEF W, K
    <3> QED
      BY <1>2, <1>3, <3>1
  <2> QED
    BY <1>5, <2>1, <2>4
<1>6. CASE ~(Remaining(m2) > 0)
  <2>1. Total(K) = Total(V) - n
    BY <1>2, <1>3, <1>6
  <2> QED
    BY <1>0, <1>1, <1>6, <2>1
<1> QED
  BY <1>5, <1>6

\* The levels a fill-or-kill order counts stay countable as the book shrinks.
LEMMA LiquidityStep ==
    ASSUME ShapeInv, IsFiniteSet(resting), NEW m, NEW m2, NEW n, MakerStep(m, m2, n),
           IsFiniteSet(resting'), ShapeInv', taker \in Order,
           Remaining(taker) <= AvailableLiquidity(taker)
    PROVE  Remaining(taker') <= AvailableLiquidity(taker)'
<1> DEFINE V == {k \in Visited(taker) : k.user # taker.user}
           U == {k \in Visited(taker)' : k.user # taker'.user}
           W == (V \ {m}) \cup (IF Remaining(m2) > 0 THEN {m2} ELSE {})
<1>0. /\ resting \subseteq Order /\ resting' \subseteq Order
      /\ m \in resting /\ m2 \in Order /\ taker' \in Order
      /\ m2.price = m.price /\ m2.side = m.side /\ m2.user = m.user
      /\ taker'.side = taker.side /\ taker'.type = taker.type
      /\ taker'.price = taker.price /\ taker'.user = taker.user
      /\ Remaining(taker') = Remaining(taker) - n /\ n \in Nat
      /\ n <= Remaining(taker) /\ Remaining(taker) \in Int
      /\ resting' = (resting \ {m}) \cup (IF Remaining(m2) > 0 THEN {m2} ELSE {})
  <2>1. Remaining(taker) \in Int
    BY DEF Remaining, Order
  <2> QED
    BY <2>1 DEF MakerStep, BookAfter, ShapeInv, TypeOK
<1>1. AvailableLiquidity(taker) = Total(V) /\ AvailableLiquidity(taker)' = Total(U)
  BY DEF AvailableLiquidity, Total
<1>2. V \subseteq resting /\ U \subseteq resting'
  BY DEF Visited, OnSide
<1>3. /\ IsFiniteSet(V) /\ IsFiniteSet(U)
      /\ \A o \in V : Remaining(o) \in Nat
      /\ \A o \in U : Remaining(o) \in Nat
  <2>1. \A o \in resting' : Remaining(o) \in Nat
    <3>1. \A o \in resting' : o \in Order /\ o.filled < o.size
      BY <1>0 DEF ShapeInv, BookWellFormed, RestingLive
    <3> QED
      BY <3>1 DEF Remaining, Order
  <2> HIDE DEF V, U
  <2> QED
    BY <1>2, <2>1, RestingRemains, FS_Subset
<1>4. \A o \in resting' : \E k \in resting : o.price = k.price /\ o.side = k.side
  BY <1>0
<1>5. ASSUME NEW k \in V, NEW k2 \in resting', k2.price = k.price, k2.side = k.side,
             k2.user = k.user
      PROVE  k2 \in U
  <2>1. \A o : Crosses(taker', o) <=> Crosses(taker, o)
    BY <1>0 DEF Crosses
  <2>2. Opposite(taker'.side) = Opposite(taker.side)
    BY <1>0
  <2>3. k2.side = Opposite(taker.side) /\ k2.user # taker'.user
    BY <1>0, <1>5 DEF Visited, OnSide
  <2>4. ASSUME NEW o \in resting', o.side = Opposite(taker.side), o.price <= k2.price
        PROVE  Crosses(taker', o.price)
    <3>1. PICK j \in resting : o.price = j.price /\ o.side = j.side
      BY <1>4
    <3>2. j \in OnSide(Opposite(taker.side)) /\ j.price <= k.price
      BY <1>5, <2>4, <3>1 DEF OnSide
    <3>3. Crosses(taker, j.price)
      BY <3>2 DEF Visited
    <3> QED
      BY <2>1, <3>1, <3>3
  <2> QED
    BY <2>2, <2>3, <2>4 DEF Visited, OnSide
<1> HIDE DEF V, U
<1>6. Total(U) \in Nat /\ Total(V) \in Nat
  BY <1>3, TotalSplit
<1>7. CASE m \notin V
  <2>1. V \subseteq U
    BY <1>0, <1>2, <1>5, <1>7
  <2>2. Total(V) <= Total(U)
    BY <1>3, <2>1, TotalMonotone
  <2> QED
    BY <1>0, <1>1, <1>6, <2>2
<1>8. CASE m \in V
  <2>1. Total(W) = Total(V) - n
    BY <1>2, <1>8, MakerLosesN
  <2>2. W \subseteq U
    BY <1>0, <1>2, <1>5, <1>8
  <2>3. Total(W) <= Total(U)
    <3> HIDE DEF W
    <3> QED
      BY <1>3, <2>2, TotalMonotone
  <2> QED
    BY <1>0, <1>1, <1>6, <2>1, <2>3
<1> QED
  BY <1>7, <1>8

\* The book stays finite, and the pre-check of submit_order stays true.
LEMMA FokNext ==
    ASSUME IndInv, FokInv, [BookNext]_bookVars
    PROVE  FokInv'
<1> USE DEF IndInv, FokInv
<1>0. Requests \subseteq OrderRequest /\ ShapeInv'
  BY NextInd, BookAssumption
<1>1. ASSUME NEW r \in Requests, KillFok(r) PROVE FokInv'
  BY <1>1 DEF KillFok, Accepts
<1>2. ASSUME NEW r \in Requests, Submit(r) PROVE FokInv'
  <2>1. /\ taker' = NewOrder(r) /\ resting' = resting /\ ~FokShort(r)
        /\ NewOrder(r).tif = r.tif /\ Remaining(NewOrder(r)) = r.size /\ r.size \in Nat
    BY <1>0, <1>2 DEF Submit, NewOrder, Remaining, OrderRequest
  <2>2. AvailableLiquidity(taker)' = AvailableLiquidity(NewOrder(r))
    BY <2>1 DEF AvailableLiquidity, Visited, OnSide, Crosses, Total
  <2>3. AvailableLiquidity(NewOrder(r)) \in Nat
    <3> DEFINE V == {m \in Visited(NewOrder(r)) : m.user # NewOrder(r).user}
    <3>1. V \subseteq resting
      BY DEF Visited, OnSide
    <3>2. AvailableLiquidity(NewOrder(r)) = Total(V)
      BY DEF AvailableLiquidity, Total
    <3> HIDE DEF V
    <3>3. IsFiniteSet(V) /\ \A o \in V : Remaining(o) \in Nat
      BY <3>1, RestingRemains, FS_Subset
    <3> QED
      BY <3>2, <3>3, TotalSplit
  <2> QED
    BY <2>1, <2>2, <2>3 DEF FokShort
<1>3. CASE MatchStep
  <2>1. PICK m, m2, n : MakerStep(m, m2, n)
    BY <1>3, MatchShape
  <2>2. IsFiniteSet(resting')
    <3>1. resting' \subseteq resting \cup {m2}
      BY <2>1 DEF MakerStep, BookAfter
    <3>2. IsFiniteSet(resting \cup {m2})
      BY FS_AddElement
    <3> QED
      BY <3>1, <3>2, FS_Subset
  <2>3. taker'.tif = taker.tif /\ phase' = phase
    BY <1>3, <2>1 DEF MatchStep, MakerStep
  <2> QED
    BY <1>0, <1>3, <2>1, <2>2, <2>3, LiquidityStep DEF ShapeInv, TypeOK, MatchStep
<1>4. CASE Finish
  <2>1. phase' = "idle"
    BY <1>4 DEF Finish
  <2>2. IsFiniteSet(resting')
    BY <1>4, FS_AddElement DEF Finish
  <2> QED
    BY <2>1, <2>2
<1>5. ASSUME NEW o \in resting, CancelOrder(o) PROVE FokInv'
  BY <1>5, FS_RemoveElement DEF CancelOrder
<1>6. ASSUME NEW u \in Users, CancelAll(u) PROVE FokInv'
  <2>1. resting' \subseteq resting /\ phase' = "idle"
    BY <1>6 DEF CancelAll
  <2> QED
    BY <2>1, FS_Subset
<1>7. ASSUME NEW ms \in {0, 1}, SetAttestedMs(ms) PROVE FokInv'
  BY <1>7 DEF SetAttestedMs
<1>8. CASE Tick
  BY <1>8 DEF Tick
<1>9. CASE UNCHANGED bookVars
  BY <1>9 DEF bookVars, AvailableLiquidity, Visited, OnSide, Crosses
<1> QED
  BY <1>1, <1>2, <1>3, <1>4, <1>5, <1>6, <1>7, <1>8, <1>9 DEF BookNext

\* A fill-or-kill order has as much left on the book as it still wants.
LEMMA FokHolds == BookSpec => []FokInv
<1>1. BookInit => FokInv
  BY FS_EmptySet DEF BookInit, FokInv
<1>2. IndInv /\ FokInv /\ [BookNext]_bookVars => FokInv'
  BY FokNext
<1> QED
  BY <1>1, <1>2, BookInvariant, PTL DEF BookSpec

\* The loop ends only when nothing is left to trade or nothing crosses; the second
\* leaves a fill-or-kill order nothing to want.
LEMMA FokEndsFilled ==
    ASSUME IndInv, FokInv, Finish, taker.tif = "Fok"
    PROVE  Remaining(taker) = 0
<1>0. taker \in Order /\ Remaining(taker) \in Nat
  BY DEF IndInv, ShapeInv, TypeOK, TakerFresh, Finish, Remaining, Order
<1>1. SUFFICES ASSUME Crossing(taker) = {} PROVE Remaining(taker) = 0
  BY DEF Finish
<1>2. Visited(taker) \subseteq Crossing(taker)
  BY DEF Visited, Crossing, OnSide, IndInv, ShapeInv, TypeOK, Order
<1>3. AvailableLiquidity(taker) = Total({})
  <2>1. {m \in Visited(taker) : m.user # taker.user} = {}
    BY <1>1, <1>2
  <2> QED
    BY <2>1 DEF AvailableLiquidity, Total
<1>4. Total({}) = 0
  BY FS_EmptySet, TotalSplit
<1> QED
  BY <1>0, <1>3, <1>4 DEF FokInv, Finish

\* Only the end of the loop leaves it.
LEMMA LoopEnds ==
    ASSUME [BookNext]_bookVars, phase = "matching", phase' = "idle"
    PROVE  Finish
BY DEF BookNext, bookVars, KillFok, Submit, Accepts, MatchStep, CancelOrder, CancelAll,
       SetAttestedMs, Tick

\* A fill-or-kill order that passed the pre-check of submit_order is filled to its
\* last unit, own resting orders on the way or not: available_liquidity leaves them
\* out, and each matching step takes no more of the rest than the order itself loses.
THEOREM FokIsFilled == BookSpec => FokLeavesNoRemainder
<1>1. ASSUME IndInv, FokInv, [BookNext]_bookVars,
             phase = "matching", phase' = "idle", taker.tif = "Fok"
      PROVE  Remaining(taker') = 0
  <2>1. Finish
    BY <1>1, LoopEnds
  <2>2. taker'.size = taker.size /\ taker'.filled = taker.filled
    <3>1. taker \in Order
      BY <1>1 DEF IndInv, ShapeInv, TypeOK
    <3> QED
      BY <2>1, <3>1 DEF Finish, Order
  <2>3. Remaining(taker) = 0
    BY <1>1, <2>1, FokEndsFilled
  <2> QED
    BY <2>2, <2>3 DEF Remaining
<1> QED
  BY <1>1, BookInvariant, FokHolds, PTL DEF BookSpec, FokLeavesNoRemainder

\* The status submit_order returns is Open exactly when the order was left on the
\* book as reported.  It rests on FokIsFilled: the status of a fill-or-kill order
\* with a remainder would be Open although the order does not rest.
THEOREM StatusTellsResting == BookSpec => ReportedOpenIffResting
<1>1. ASSUME IndInv, FokInv, [BookNext]_bookVars, phase = "matching", phase' = "idle"
      PROVE  taker'.status = "Open" <=>
                \E o \in resting' : o.id = taker'.id /\ o.filled = taker'.filled
                                                     /\ o.size = taker'.size
  <2>1. Finish
    BY <1>1, LoopEnds
  <2>2. /\ taker \in Order /\ taker.status = "Open" /\ taker.filled <= taker.size
        /\ \A o \in resting : o.id # taker.id
    BY <1>1 DEF IndInv, ShapeInv, TypeOK, TakerFresh
  <2>3. /\ taker'.status = FinalStatus(taker) /\ taker'.id = taker.id
        /\ taker'.size = taker.size /\ taker'.filled = taker.filled
    BY <2>1, <2>2 DEF Finish, Order
  <2>4. Remaining(taker) > 0 <=> taker.filled # taker.size
    BY <2>2 DEF Remaining, Order
  <2>5. taker.tif = "Fok" => taker.filled = taker.size
    <3>1. taker.tif = "Fok" => Remaining(taker) = 0
      BY <1>1, <2>1, FokEndsFilled
    <3> QED
      BY <2>2, <3>1 DEF Remaining, Order
  <2>6. FinalStatus(taker) = "Open" <=> Rests(taker)
    BY <2>2, <2>4, <2>5 DEF FinalStatus, Rests, Order, TimesInForce
  <2>7. CASE Rests(taker)
    <3> DEFINE o == [taker EXCEPT !.arr = pushes]
    <3>1. o \in resting'
      BY <2>1, <2>7 DEF Finish
    <3>2. o.id = taker.id /\ o.filled = taker.filled /\ o.size = taker.size
      BY <2>2 DEF Order
    <3> QED
      BY <2>3, <2>6, <2>7, <3>1, <3>2
  <2>8. CASE ~Rests(taker)
    <3>1. resting' = resting
      BY <2>1, <2>8 DEF Finish
    <3> QED
      BY <2>2, <2>3, <2>6, <2>8, <3>1
  <2> QED
    BY <2>7, <2>8
<1> QED
  BY <1>1, BookInvariant, FokHolds, PTL DEF BookSpec, ReportedOpenIffResting

\* Every iteration of match_order takes exactly as much off the opposite side as
\* off the taker, makes progress, and leaves the taker's own side alone.
THEOREM MatchingIsConservative == BookSpec => MatchingConserves
<1>1. ASSUME IndInv, FokInv, [BookNext]_bookVars, bookVars' # bookVars,
             phase = "matching", phase' = "matching"
      PROVE  /\ Remaining(taker) - Remaining(taker')
                  = Depth(Opposite(taker.side)) - Depth(Opposite(taker.side))'
             /\ Remaining(taker') < Remaining(taker)
             /\ OnSide(taker.side)' = OnSide(taker.side)
  <2>1. MatchStep
    BY <1>1 DEF BookNext, KillFok, Submit, Accepts, Finish, CancelOrder, CancelAll,
                SetAttestedMs, Tick
  <2>2. PICK m, m2, n : MakerStep(m, m2, n)
    BY <1>1, <2>1, MatchShape DEF IndInv
  <2>3. /\ taker \in Order /\ taker.filled <= taker.size /\ Remaining(taker) \in Nat
    BY <1>1 DEF IndInv, ShapeInv, TypeOK, TakerFresh, Remaining, Order
  <2>4. /\ taker'.side = taker.side /\ m2.side = m.side /\ n \in Nat /\ n > 0
        /\ Remaining(taker') = Remaining(taker) - n
        /\ m \in resting /\ m.side = Opposite(taker.side)
        /\ resting' = (resting \ {m}) \cup (IF Remaining(m2) > 0 THEN {m2} ELSE {})
    BY <2>2 DEF MakerStep, BookAfter, IsNextMaker, Crossing, OnSide
  <2>5. taker.side # Opposite(taker.side)
    BY <2>3 DEF Opposite
  <2> DEFINE V == OnSide(Opposite(taker.side))
             W == (V \ {m}) \cup (IF Remaining(m2) > 0 THEN {m2} ELSE {})
  <2>6. OnSide(taker.side)' = OnSide(taker.side)
    BY <2>4, <2>5 DEF OnSide
  <2>7. OnSide(Opposite(taker.side))' = W
    BY <2>4 DEF OnSide
  <2>8. V \subseteq resting /\ m \in V
    BY <2>4 DEF OnSide
  <2>9. Total(W) = Total(V) - n
    <3> HIDE DEF V
    <3> QED
      BY <1>1, <2>2, <2>8, MakerLosesN DEF IndInv, FokInv
  <2>10. Total(V) \in Nat
    <3> HIDE DEF V
    <3> QED
      BY <1>1, <2>8, RestingRemains, TotalSplit, FS_Subset DEF IndInv, FokInv
  <2>11. Depth(Opposite(taker.side)) = Total(V) /\ Depth(Opposite(taker.side))' = Total(W)
    BY <2>7, Zenon DEF Depth, Total
  <2> QED
    BY <2>3, <2>4, <2>6, <2>9, <2>10, <2>11
<1> DEFINE A == phase = "matching" /\ phase' = "matching" =>
                  /\ Remaining(taker) - Remaining(taker')
                       = Depth(Opposite(taker.side)) - Depth(Opposite(taker.side))'
                  /\ Remaining(taker') < Remaining(taker)
                  /\ OnSide(taker.side)' = OnSide(taker.side)
<1>2. IndInv /\ FokInv /\ [BookNext]_bookVars => [A]_bookVars
  BY <1>1
<1>3. BookSpec => [][A]_bookVars
  BY <1>2, BookInvariant, FokHolds, PTL DEF BookSpec
<1> QED
  BY <1>3 DEF MatchingConserves
============================================================================
