--------------------------- MODULE TradingProofs ---------------------------
(***************************************************************************)
(* Proofs about Trading for every set of users, requests and handlers and  *)
(* every bound: whatever the handlers' steps and the restarts interleave,  *)
(* no resting order loses a row it had, no row runs ahead of the book, and *)
(* no trade is recorded that was not published.                            *)
(***************************************************************************)
EXTENDS Trading, OrderBookProofs, WellFoundedInduction

\* A handler that carries an order whose row it has not yet written.
Carrying(l) == l.at \in {"settle", "send", "record", "rest"}

\* The copies of orders outside the book: the rows, and what the handlers on
\* their way to write one carry.
Copies == rows \cup {local[h].order : h \in {g \in Handlers : Carrying(local[g])}}

\* Two records of one order: all that an order keeps for life is equal.
Same(c, o) ==
    /\ c.user = o.user /\ c.side = o.side /\ c.price = o.price
    /\ c.size = o.size /\ c.lev = o.lev /\ c.reduceOnly = o.reduceOnly

\* An issued id whose order is not the one in the matching loop: no order
\* can enter the book under it any more.
Settled(id) == id < nextOrderId /\ (phase = "matching" => id # taker.id)

\* An id that no order of the book has or will have.
Dead(id) == Settled(id) /\ \A o \in resting : o.id # id

\* "Order id was filled up to f when I looked": true for ever after, and less
\* than the whole order.
Claim(id, f) ==
    /\ Settled(id)
    /\ \A o \in resting : o.id = id => f <= o.filled
    /\ \A c \in Copies : c.id = id => f < c.size

\* A copy differs from its order in the book only by lagging behind it.
CopyOK(c) ==
    /\ Settled(c.id)
    /\ \A o \in resting : o.id = c.id => Same(c, o) /\ c.filled <= o.filled

\* The row deletions and the row updates that self-cross entries, and a
\* handler's locals, still call for.
StpDeletes(s, id) == \E i \in DOMAIN s : s[i].status = "Cancelled" /\ s[i].id = id
StpSets(s, id, f) ==
    \E i \in DOMAIN s : s[i].status # "Cancelled" /\ s[i].id = id /\ s[i].filled = f

WillDelete(l, id) ==
    \/ id \in l.gone
    \/ l.at = "write" /\ ~l.job.keep /\ l.job.id = id
    \/ StpDeletes(l.stp, id)
WillSet(l, id, f) ==
    \/ l.at = "write" /\ l.job.keep /\ l.job.id = id /\ l.job.filled = f
    \/ StpSets(l.stp, id, f)

----------------------------------------------------------------------------
(* The inductive invariant. *)

\* Where a handler is determines which of its locals are set.
HandlerShape(l) ==
    /\ l \in Local
    /\ l.at = "idle" => l = NoRequest
    /\ l.at \in {"quoted", "locked"} =>
        l.req \in OrderRequest /\ (l.close => l.req.type = "Market")
    /\ l.at \notin {"record", "makers", "write", "stp"} => l.k = 1
    /\ l.at \in {"settle", "send", "record", "makers", "write"} => l.k <= Len(l.trades)
    /\ l.at = "stp" => l.k <= Len(l.stp)
    /\ Carrying(l) => l.order \in Order
    /\ l.at = "send" => l.seq # 0

ShapesInv ==
    /\ local \in [Handlers -> Local]
    /\ \A h \in Handlers : HandlerShape(local[h])

TablesInv ==
    /\ holder \in Handlers \cup {Nobody}
    /\ rows \subseteq Order /\ tradeRows \subseteq Trade
    /\ seqNum \in Nat \ {0} /\ sent \in Seq(Batch)
    /\ crashes \in 0 .. MaxCrashes

\* The batch of a handler in its insert_trade loop has been sent.
SentInv ==
    \A h \in Handlers :
        local[h].at = "record" => \E i \in DOMAIN sent : sent[i].fills = local[h].trades

\* One handler holds the book lock, and a close does not rest.
LockInv ==
    \A h \in Handlers :
        local[h].at = "locked" =>
            holder = h /\ (phase = "matching" /\ local[h].close => taker.type = "Market")

\* What a handler read from the book still holds when it comes to write it.
WritesInv ==
    \A h \in Handlers, id \in Nat :
        /\ WillDelete(local[h], id) => Dead(id)
        /\ \A f \in Nat : WillSet(local[h], id, f) => Claim(id, f)

MakersInv ==
    \A h \in Handlers : \A i \in DOMAIN local[h].trades :
        local[h].trades[i].maker < nextOrderId

\* An order that rests is reported Open, to a handler that will persist it;
\* one reported Open has a price.
Returned(l) ==
    /\ \A o \in resting : o.id = l.order.id => l.order.status = "Open" /\ ~l.close
    /\ l.order.status = "Open" /\ Remaining(l.order) > 0 => l.order.price > 0

\* The order a handler carries is its own and has no row yet.
CarriedInv ==
    \A h \in Handlers : Carrying(local[h]) =>
        /\ Returned(local[h])
        /\ \A r \in rows : r.id # local[h].order.id
        /\ \A g \in Handlers :
            Carrying(local[g]) /\ local[g].order.id = local[h].order.id => g = h

\* The table holds open GTC limit orders with something left to fill.
RowsInv ==
    /\ IsFiniteSet(rows)
    /\ \A r \in rows : /\ r.type = "Limit" /\ r.tif = "Gtc" /\ r.status = "Open"
                       /\ r.arr = 0 /\ r.price > 0 /\ r.filled < r.size
    /\ \A r, q \in rows : r.id = q.id => r = q

CopiesInv == \A c \in Copies : CopyOK(c)

\* What the submission in progress, or the last one, reports is true.
ReportInv ==
    /\ \A i \in DOMAIN trades : trades[i].maker < nextOrderId
    /\ \A id \in Nat : /\ StpDeletes(stp, id) => Dead(id)
                       /\ \A f \in Nat : StpSets(stp, id, f) => Claim(id, f)

LiveInv == \A o \in resting : o.status # "Cancelled"

\* How the book, the rows and the handlers' locals are related.
CoreInv ==
    /\ ShapeInv /\ ShapesInv /\ WritesInv /\ MakersInv /\ CarriedInv
    /\ RowsInv /\ CopiesInv /\ ReportInv /\ LiveInv /\ NoRestingOrderLost

TradingInv == CoreInv /\ TablesInv /\ LockInv /\ SentInv /\ RecordedTradesPublished

----------------------------------------------------------------------------
(* What a step of the book may do, and what survives it. *)

\* Issued ids stay issued, no order enters the book under a settled id, and
\* the orders of the book are only filled further.
BookMoves ==
    /\ nextOrderId <= nextOrderId'
    /\ \A id \in Nat : Settled(id) => Settled(id)'
    /\ \A o \in resting' : Settled(o.id) =>
        \E p \in resting : p.id = o.id /\ Same(p, o) /\ p.filled <= o.filled

\* No copy appears under a settled id that had none, and none changes size.
CopiesMove ==
    \A c \in Copies' : Settled(c.id) => \E d \in Copies : d.id = c.id /\ d.size = c.size

\* A dead id stays dead.
LEMMA DeadStays ==
    ASSUME BookMoves, TypeOK', NEW id \in Nat, Dead(id)
    PROVE  Dead(id)'
<1>1. Settled(id) /\ Settled(id)'
  BY DEF Dead, BookMoves
<1>2. \A o \in resting' : o.id # id
  BY <1>1 DEF Dead, BookMoves
<1> QED
  BY <1>1, <1>2 DEF Dead

\* A claim stays true.
LEMMA ClaimStays ==
    ASSUME BookMoves, CopiesMove, TypeOK, TypeOK',
           NEW id \in Nat, NEW f \in Nat, Claim(id, f)
    PROVE  Claim(id, f)'
<1>1. Settled(id) /\ Settled(id)'
  BY DEF Claim, BookMoves
<1>2. ASSUME NEW o \in resting', o.id = id
      PROVE  f <= o.filled
  <2>1. PICK p \in resting : p.id = o.id /\ p.filled <= o.filled
    BY <1>1, <1>2 DEF BookMoves
  <2>2. f <= p.filled /\ p.filled \in Nat /\ o.filled \in Nat
    BY <1>2, <2>1 DEF Claim, TypeOK, Order
  <2> QED
    BY <2>1, <2>2
<1>3. ASSUME NEW c \in Copies', c.id = id
      PROVE  f < c.size
  BY <1>1, <1>3 DEF CopiesMove, Claim
<1> QED
  BY <1>1, <1>2, <1>3 DEF Claim

\* A copy goes on lagging behind its order.
LEMMA CopyStays ==
    ASSUME BookMoves, TypeOK, TypeOK', NEW c \in Order, CopyOK(c)
    PROVE  CopyOK(c)'
<1>1. Settled(c.id) /\ Settled(c.id)'
  BY DEF CopyOK, BookMoves, Order
<1>2. ASSUME NEW o \in resting', o.id = c.id
      PROVE  Same(c, o) /\ c.filled <= o.filled
  <2>1. PICK p \in resting : p.id = o.id /\ Same(p, o) /\ p.filled <= o.filled
    BY <1>1, <1>2 DEF BookMoves
  <2>2. Same(c, p) /\ c.filled <= p.filled
    BY <1>2, <2>1 DEF CopyOK
  <2>3. c.filled \in Nat /\ p.filled \in Nat /\ o.filled \in Nat
    BY DEF TypeOK, Order
  <2> QED
    BY <2>1, <2>2, <2>3 DEF Same
<1> QED
  BY <1>1, <1>2 DEF CopyOK

----------------------------------------------------------------------------
(* One step of handler h, which leaves it with locals l. *)

\* Its rows: each was there, or is a true copy of an order that had a copy;
\* only the order it carries gets a new row, no resting order loses its, and
\* what PostgreSQL refused stays on record.
RowsMove(h, l) ==
    /\ rows' \subseteq Order
    /\ \A r \in rows' :
        r \in rows \/ (CopyOK(r)' /\ \E c \in Copies : c.id = r.id /\ c.size = r.size)
    /\ \A r \in rows' :
        \/ \E q \in rows : q.id = r.id
        \/ Carrying(local[h]) /\ ~Carrying(l) /\ r.id = local[h].order.id
    /\ \A o \in resting' : HasRow(o.id) => \E r \in rows' : r.id = o.id
    /\ unsaved \subseteq unsaved'

\* The order it carries: the one it carried, or the one just returned to it.
\* It is not dropped while it rests unwritten, and an order that enters the
\* book is carried.
CarryMove(h, l) ==
    /\ Carrying(l) =>
        \/ Carrying(local[h]) /\ l.order = local[h].order /\ l.close = local[h].close
        \/ ~Settled(l.order.id) /\ CopyOK(l.order)' /\ Returned(l)'
    /\ \A o \in resting' : Carrying(local[h]) /\ o.id = local[h].order.id =>
            \/ Carrying(l) /\ l.order = local[h].order
            \/ o.id \in unsaved'
            \/ \E r \in rows' : r.id = o.id
    /\ \A o \in resting' : ~Settled(o.id) => Carrying(l) /\ l.order.id = o.id

\* The writes it has yet to make: those it had, or true ones.
WritesMove(h, l) ==
    /\ \A id \in Nat : WillDelete(l, id) => WillDelete(local[h], id) \/ Dead(id)'
    /\ \A id, f \in Nat : WillSet(l, id, f) => WillSet(local[h], id, f) \/ Claim(id, f)'
    /\ \A i \in DOMAIN l.trades : l.trades[i].maker < nextOrderId'

\* A step of one handler that moves the book, the rows and its locals so keeps
\* the handlers' part of the invariant, for every handler.
LEMMA HandlerStep ==
    ASSUME TradingInv, ShapeInv', BookMoves, NEW h \in Handlers, NEW l,
           local' = [local EXCEPT ![h] = l], HandlerShape(l),
           RowsMove(h, l), CarryMove(h, l), WritesMove(h, l)
    PROVE  /\ ShapesInv' /\ WritesInv' /\ MakersInv' /\ CarriedInv' /\ CopiesInv'
           /\ NoRestingOrderLost'
           /\ UNCHANGED <<trades, stp>> => ReportInv'
<1>t. TypeOK /\ TypeOK' /\ rows \subseteq Order /\ local \in [Handlers -> Local]
  BY DEF TradingInv, CoreInv, ShapeInv, TablesInv, ShapesInv
<1>l. local'[h] = l /\ \A g \in Handlers : g # h => local'[g] = local[g]
  BY <1>t
<1>1. ShapesInv'
  BY <1>t, <1>l DEF TradingInv, CoreInv, ShapesInv, HandlerShape
<1>2. \A g \in Handlers : /\ Carrying(local[g]) => local[g].order \in Order
                          /\ Carrying(local'[g]) => local'[g].order \in Order
  BY <1>1 DEF TradingInv, CoreInv, ShapesInv, HandlerShape
<1>3. Copies \subseteq Order
  BY <1>t, <1>2 DEF Copies
<1>4. ASSUME NEW c \in Copies'
      PROVE  /\ c \in Order
             /\ \/ c \in Copies
                \/ CopyOK(c)' /\ \E d \in Copies : d.id = c.id /\ d.size = c.size
                \/ CopyOK(c)' /\ ~Settled(c.id)
  <2>1. CASE c \in rows'
    BY <2>1 DEF RowsMove, Copies
  <2>2. CASE c \notin rows'
    <3>1. PICK g \in Handlers : Carrying(local'[g]) /\ c = local'[g].order
      BY <2>2 DEF Copies
    <3>2. c \in Order
      BY <1>2, <3>1
    <3>3. CASE g # h
      BY <1>l, <3>1, <3>2, <3>3 DEF Copies
    <3>4. CASE g = h
      <4>1. Carrying(l) /\ c = l.order
        BY <1>l, <3>1, <3>4
      <4>2. CASE Carrying(local[h]) /\ l.order = local[h].order
        BY <3>2, <4>1, <4>2 DEF Copies
      <4>3. CASE ~Settled(l.order.id) /\ CopyOK(l.order)'
        BY <3>2, <4>1, <4>3
      <4> QED
        BY <4>1, <4>2, <4>3 DEF CarryMove
    <3> QED
      BY <3>3, <3>4
  <2> QED
    BY <2>1, <2>2
<1>5. CopiesMove
  BY <1>4 DEF CopiesMove
<1>6. CopiesInv'
  <2> SUFFICES ASSUME NEW c \in Copies' PROVE CopyOK(c)'
    BY DEF CopiesInv
  <2>1. CASE c \in Copies
    <3>1. c \in Order /\ CopyOK(c)
      BY <1>4, <2>1 DEF TradingInv, CoreInv, CopiesInv
    <3> QED
      BY <1>t, <3>1, CopyStays
  <2> QED
    BY <1>4, <2>1
<1>7. \A id \in Nat : Dead(id) => Dead(id)'
  BY <1>t, DeadStays
<1>8. \A id, f \in Nat : Claim(id, f) => Claim(id, f)'
  BY <1>t, <1>5, ClaimStays
<1>9. WritesInv'
  <2> SUFFICES ASSUME NEW g \in Handlers, NEW id \in Nat
               PROVE  /\ WillDelete(local'[g], id) => Dead(id)'
                      /\ \A f \in Nat : WillSet(local'[g], id, f) => Claim(id, f)'
    BY DEF WritesInv
  <2>1. /\ WillDelete(local[g], id) => Dead(id)
        /\ \A f \in Nat : WillSet(local[g], id, f) => Claim(id, f)
    BY DEF TradingInv, CoreInv, WritesInv
  <2>2. CASE g # h
    BY <1>l, <1>7, <1>8, <2>1, <2>2
  <2>3. CASE g = h
    BY <1>l, <1>7, <1>8, <2>1, <2>3 DEF WritesMove
  <2> QED
    BY <2>2, <2>3
<1>10. MakersInv'
  <2> SUFFICES ASSUME NEW g \in Handlers, NEW i \in DOMAIN local'[g].trades
               PROVE  local'[g].trades[i].maker < nextOrderId'
    BY DEF MakersInv
  <2>1. CASE g # h
    <3>1. local'[g].trades = local[g].trades /\ local[g].trades \in Seq(Trade)
      BY <1>l, <1>t, <2>1 DEF Local
    <3>2. local[g].trades[i] \in Trade /\ local[g].trades[i].maker < nextOrderId
      BY <3>1 DEF TradingInv, CoreInv, MakersInv
    <3>3. local[g].trades[i].maker \in Nat /\ nextOrderId \in Nat /\ nextOrderId' \in Nat
      BY <1>t, <3>2 DEF Trade, TypeOK
    <3> QED
      BY <3>1, <3>2, <3>3 DEF BookMoves
  <2>2. CASE g = h
    BY <1>l, <2>2 DEF WritesMove
  <2> QED
    BY <2>1, <2>2
<1>11. CarriedInv'
  <2>1. \A g \in Handlers : Carrying(local[g]) => Settled(local[g].order.id)
    BY DEF TradingInv, CoreInv, CopiesInv, CopyOK, Copies
  <2>2. ASSUME NEW g \in Handlers, Carrying(local'[g])
        PROVE  \/ /\ Carrying(local[g]) /\ local'[g].order = local[g].order
                  /\ local'[g].close = local[g].close
               \/ g = h /\ ~Settled(local'[g].order.id) /\ Returned(l)'
    BY <1>l, <2>2 DEF CarryMove
  <2> SUFFICES ASSUME NEW g \in Handlers, Carrying(local'[g])
               PROVE  /\ Returned(local[g])'
                      /\ \A r \in rows' : r.id # local'[g].order.id
                      /\ \A f \in Handlers : Carrying(local'[f])
                            /\ local'[f].order.id = local'[g].order.id => f = g
    BY Zenon DEF CarriedInv
  <2>3. Returned(local[g])'
    <3>1. CASE /\ Carrying(local[g]) /\ local'[g].order = local[g].order
               /\ local'[g].close = local[g].close
      <4>1. Settled(local[g].order.id)
        BY <2>1, <3>1
      <4>2. Returned(local[g])
        BY <3>1 DEF TradingInv, CoreInv, CarriedInv
      <4> QED
        BY <3>1, <4>1, <4>2 DEF Returned, BookMoves
    <3>2. CASE g = h /\ Returned(l)'
      BY <1>l, <3>2 DEF Returned
    <3> QED
      BY <2>2, <3>1, <3>2
  <2>4. \A r \in rows' : r.id # local'[g].order.id
    <3> SUFFICES ASSUME NEW r \in rows' PROVE r.id # local'[g].order.id
      OBVIOUS
    <3>1. CASE \E q \in rows : q.id = r.id
      <4>1. PICK q \in rows : q.id = r.id
        BY <3>1
      <4>2. Settled(q.id)
        BY DEF TradingInv, CoreInv, CopiesInv, CopyOK, Copies
      <4>3. Carrying(local[g]) => q.id # local[g].order.id
        BY DEF TradingInv, CoreInv, CarriedInv
      <4> QED
        BY <2>2, <4>1, <4>2, <4>3
    <3>2. CASE Carrying(local[h]) /\ ~Carrying(l) /\ r.id = local[h].order.id
      <4>1. g # h
        BY <1>l, <3>2
      <4>2. Carrying(local[g]) /\ local'[g].order = local[g].order
        BY <2>2, <4>1
      <4>3. local[g].order.id # local[h].order.id
        BY <3>2, <4>1, <4>2 DEF TradingInv, CoreInv, CarriedInv
      <4> QED
        BY <3>2, <4>2, <4>3
    <3> QED
      BY <3>1, <3>2 DEF RowsMove
  <2>5. ASSUME NEW f \in Handlers, Carrying(local'[f]),
               local'[f].order.id = local'[g].order.id
        PROVE  f = g
    <3>1. CASE Carrying(local[f]) /\ local'[f].order = local[f].order
      <4>1. Settled(local'[g].order.id)
        BY <2>1, <2>5, <3>1
      <4>2. Carrying(local[g]) /\ local'[g].order = local[g].order
        BY <2>2, <4>1
      <4> QED
        BY <2>5, <3>1, <4>2 DEF TradingInv, CoreInv, CarriedInv
    <3>2. CASE f = h /\ ~Settled(local'[f].order.id)
      BY <2>1, <2>2, <2>5, <3>2
    <3> QED
      BY <2>2, <2>5, <3>1, <3>2
  <2> QED
    BY <2>3, <2>4, <2>5
<1>12. NoRestingOrderLost'
  <2> SUFFICES ASSUME NEW o \in resting'
               PROVE  \/ \E r \in rows' : r.id = o.id
                      \/ o.id \in unsaved'
                      \/ \E g \in Handlers : Carrying(local'[g]) /\ local'[g].order.id = o.id
    BY DEF NoRestingOrderLost, HasRow, Unpersisted, Carrying, At
  <2>1. CASE ~Settled(o.id)
    BY <1>l, <2>1 DEF CarryMove
  <2>2. CASE Settled(o.id)
    <3>1. PICK p \in resting : p.id = o.id
      BY <2>2 DEF BookMoves
    <3>2. \/ HasRow(o.id) \/ o.id \in unsaved
          \/ \E g \in Handlers : Carrying(local[g]) /\ local[g].order.id = o.id
      BY <3>1 DEF TradingInv, CoreInv, NoRestingOrderLost, HasRow, Unpersisted, Carrying, At
    <3>3. CASE HasRow(o.id) \/ o.id \in unsaved
      BY <3>3 DEF RowsMove
    <3>4. ASSUME NEW g \in Handlers, Carrying(local[g]), local[g].order.id = o.id, g # h
          PROVE  Carrying(local'[g]) /\ local'[g].order.id = o.id
      BY <1>l, <3>4
    <3>5. CASE Carrying(local[h]) /\ local[h].order.id = o.id
      BY <1>l, <3>5 DEF CarryMove
    <3> QED
      BY <3>2, <3>3, <3>4, <3>5
  <2> QED
    BY <2>1, <2>2
<1>13. ASSUME UNCHANGED <<trades, stp>> PROVE ReportInv'
  <2>1. ASSUME NEW i \in DOMAIN trades
        PROVE  trades[i].maker < nextOrderId'
    <3>1. trades[i] \in Trade /\ trades[i].maker < nextOrderId
      BY <1>t DEF TradingInv, CoreInv, ReportInv, TypeOK
    <3>2. trades[i].maker \in Nat /\ nextOrderId \in Nat /\ nextOrderId' \in Nat
      BY <1>t, <3>1 DEF Trade, TypeOK
    <3> QED
      BY <3>1, <3>2 DEF BookMoves
  <2> QED
    BY <1>7, <1>8, <1>13, <2>1 DEF TradingInv, CoreInv, ReportInv
<1> QED
  BY <1>1, <1>6, <1>9, <1>10, <1>11, <1>12, <1>13

----------------------------------------------------------------------------
(* Steps that leave the book's orders alone. *)

BookStill ==
    /\ UNCHANGED <<resting, pushes, nextOrderId, nextTradeId, recent, stpHits, now,
                   phase, taker, trades, stp>>
    /\ attestedMs' \in {0, 1}

\* Nothing said about the orders of the book changes.
LEMMA StillKeeps ==
    ASSUME TradingInv, BookStill
    PROVE  /\ ShapeInv' /\ BookMoves /\ LiveInv'
           /\ \A id : (Settled(id)' <=> Settled(id)) /\ (Dead(id)' <=> Dead(id))
           /\ \A c : CopyOK(c)' <=> CopyOK(c)
<1>1. ShapeInv'
  BY DEF TradingInv, CoreInv, BookStill, ShapeInv, TypeOK, BookWellFormed,
         RestingLive, QueueInIdOrder, TakerFresh
<1>2. LiveInv'
  BY DEF TradingInv, CoreInv, BookStill, LiveInv
<1>3. /\ \A id : (Settled(id)' <=> Settled(id)) /\ (Dead(id)' <=> Dead(id))
      /\ \A c : CopyOK(c)' <=> CopyOK(c)
  BY DEF BookStill, Settled, Dead, CopyOK
<1>4. BookMoves
  <2>1. nextOrderId \in Nat /\ \A o \in resting : o.filled \in Nat
    BY DEF TradingInv, CoreInv, ShapeInv, TypeOK, Order
  <2>2. nextOrderId <= nextOrderId' /\ resting' = resting
    BY <2>1 DEF BookStill
  <2>3. \A o \in resting : o.id = o.id /\ Same(o, o) /\ o.filled <= o.filled
    BY <2>1 DEF Same
  <2> QED
    BY <1>3, <2>2, <2>3 DEF BookMoves
<1> QED
  BY <1>1, <1>2, <1>3, <1>4

\* A handler's step that leaves the book alone and writes rows, or does not.
LEMMA RowsStep ==
    ASSUME TradingInv, BookStill, NEW h \in Handlers, NEW l,
           local' = [local EXCEPT ![h] = l], HandlerShape(l),
           RowsMove(h, l), RowsInv', WritesMove(h, l),
           Carrying(l) =>
            Carrying(local[h]) /\ l.order = local[h].order /\ l.close = local[h].close,
           \A o \in resting :
            Carrying(local[h]) /\ ~Carrying(l) /\ o.id = local[h].order.id =>
                o.id \in unsaved' \/ \E r \in rows' : r.id = o.id
    PROVE  CoreInv'
<1>1. ShapeInv' /\ BookMoves /\ LiveInv'
  BY StillKeeps
<1>2. CarryMove(h, l)
  <2>1. resting' = resting
    BY DEF BookStill
  <2>2. ASSUME NEW o \in resting PROVE Settled(o.id)
    BY DEF TradingInv, CoreInv, ShapeInv, BookWellFormed, QueueInIdOrder, TakerFresh, Settled
  <2> QED
    BY <2>1, <2>2 DEF CarryMove
<1> QED
  BY <1>1, <1>2, HandlerStep DEF CoreInv, BookStill

\* A handler's step that leaves the book and the rows alone.
LEMMA LocalStep ==
    ASSUME TradingInv, BookStill, UNCHANGED <<rows, unsaved>>, NEW h \in Handlers, NEW l,
           local' = [local EXCEPT ![h] = l], HandlerShape(l),
           Carrying(l) =>
            Carrying(local[h]) /\ l.order = local[h].order /\ l.close = local[h].close,
           \A o \in resting :
            Carrying(local[h]) /\ ~Carrying(l) => o.id # local[h].order.id,
           \A id \in Nat : WillDelete(l, id) => WillDelete(local[h], id) \/ Dead(id),
           \A id, f \in Nat : WillSet(l, id, f) => WillSet(local[h], id, f) \/ Claim(id, f),
           \A i \in DOMAIN l.trades : l.trades[i].maker < nextOrderId
    PROVE  CoreInv'
<1>1. /\ BookMoves /\ ShapeInv' /\ ShapeInv
      /\ \A id : Dead(id)' <=> Dead(id)
  BY StillKeeps DEF TradingInv, CoreInv
<1>2. RowsMove(h, l)
  BY DEF RowsMove, HasRow, BookStill, TradingInv, TablesInv
<1>3. RowsInv'
  BY DEF RowsInv, TradingInv, CoreInv
<1>4. CopiesMove
  <2>1. local \in [Handlers -> Local]
    BY DEF TradingInv, CoreInv, ShapesInv
  <2>2. \A g \in Handlers : local'[g] = IF g = h THEN l ELSE local[g]
    BY <2>1
  <2>3. Copies' \subseteq Copies
    BY <2>2 DEF Copies
  <2> QED
    BY <2>3 DEF CopiesMove
<1>5. \A id, f \in Nat : Claim(id, f) => Claim(id, f)'
  BY <1>1, <1>4, ClaimStays DEF ShapeInv
<1>6. WritesMove(h, l)
  BY <1>1, <1>5 DEF WritesMove, BookStill
<1> QED
  BY <1>2, <1>3, <1>6, RowsStep

\* The locals of an idle handler carry nothing and call for no writes.
LEMMA NoRequestShape ==
    /\ HandlerShape(NoRequest) /\ ~Carrying(NoRequest) /\ NoRequest \in Local
    /\ NoRequest.at = "idle" /\ NoRequest.k = 1
    /\ NoRequest.stp = <<>> /\ NoRequest.trades = <<>>
    /\ NoRequest.gone = {} /\ ~NoRequest.close
    /\ \A id : ~WillDelete(NoRequest, id)
    /\ \A id, f : ~WillSet(NoRequest, id, f)
<1>1. <<>> \in Seq(Trade) /\ <<>> \in Seq(StpEntry) /\ DOMAIN <<>> = {}
  OBVIOUS
<1>2. NoJob \in [id : Nat, filled : Nat, keep : BOOLEAN]
  BY DEF NoJob
<1>3. NoRequest \in Local
  BY <1>1, <1>2 DEF NoRequest, Local, Labels
<1>4. HandlerShape(NoRequest) /\ ~Carrying(NoRequest)
  BY <1>3 DEF NoRequest, HandlerShape, Carrying
<1>5. \A id, f : ~WillDelete(NoRequest, id) /\ ~WillSet(NoRequest, id, f)
  BY <1>1 DEF NoRequest, WillDelete, WillSet, StpDeletes, StpSets
<1> QED
  BY <1>3, <1>4, <1>5 DEF NoRequest

\* A handler that answers keeps the invariant, if the order it carried is not
\* left in the book without a row.
LEMMA RespondStep ==
    ASSUME TradingInv, BookStill, UNCHANGED <<rows, unsaved>>, NEW h \in Handlers, Respond(h),
           \A o \in resting : Carrying(local[h]) => o.id # local[h].order.id
    PROVE  CoreInv'
<1>1. local' = [local EXCEPT ![h] = NoRequest]
  BY DEF Respond, Update
<1>2. DOMAIN NoRequest.trades = {}
  BY NoRequestShape
<1> QED
  BY <1>1, <1>2, LocalStep, NoRequestShape

\* The lock, the batches and the trades table, at a step that neither takes
\* the lock, nor sends a batch, nor records a trade.
LEMMA QuietStep ==
    ASSUME TradingInv, NEW h \in Handlers, NEW l, local' = [local EXCEPT ![h] = l],
           l.at \notin {"record", "locked"},
           phase' = "matching" => UNCHANGED <<phase, taker>>,
           holder' = holder \/ (holder' = Nobody /\ local[h].at = "locked"),
           rows' \subseteq Order, seqNum' \in Nat \ {0},
           UNCHANGED <<tradeRows, sent, crashes>>
    PROVE  TablesInv' /\ LockInv' /\ SentInv' /\ RecordedTradesPublished'
<1>1. local \in [Handlers -> Local]
  BY DEF TradingInv, CoreInv, ShapesInv
<1>2. local'[h] = l /\ \A g \in Handlers : g # h => local'[g] = local[g]
  BY <1>1
<1>3. TablesInv'
  BY DEF TradingInv, TablesInv
<1>4. LockInv'
  <2> SUFFICES ASSUME NEW g \in Handlers, local'[g].at = "locked"
               PROVE  holder' = g /\ (phase' = "matching" /\ local'[g].close
                                        => taker'.type = "Market")
    BY DEF LockInv
  <2>1. g # h /\ local'[g] = local[g]
    BY <1>2
  <2>2. holder = g /\ (phase = "matching" /\ local[g].close => taker.type = "Market")
    BY <2>1 DEF TradingInv, LockInv
  <2>3. local[h].at # "locked"
    BY <2>1, <2>2 DEF TradingInv, LockInv
  <2> QED
    BY <2>1, <2>2, <2>3
<1>5. SentInv'
  <2> SUFFICES ASSUME NEW g \in Handlers, local'[g].at = "record"
               PROVE  \E i \in DOMAIN sent : sent[i].fills = local'[g].trades
    BY DEF SentInv
  <2>1. local'[g] = local[g]
    BY <1>2
  <2> QED
    BY <2>1 DEF TradingInv, SentInv
<1>6. RecordedTradesPublished'
  BY DEF TradingInv, RecordedTradesPublished
<1> QED
  BY <1>3, <1>4, <1>5, <1>6

\* A request arrives: the handler reads the balance, or begins a close.
LEMMA QuoteInv ==
    ASSUME TradingInv, NEW h \in Handlers,
           \/ \E r \in Requests, a \in Margins : Quote(h, r, a)
           \/ \E r \in Closes : BeginClose(h, r)
    PROVE  TradingInv'
<1>1. local[h].at = "idle" /\ local[h] = NoRequest
  BY DEF Quote, BeginClose, At, TradingInv, CoreInv, ShapesInv, HandlerShape
<1>2. UNCHANGED <<bookVars, holder, pgVars, p2pVars, crashes>>
  BY DEF Quote, BeginClose
<1>3. BookStill /\ UNCHANGED <<rows, unsaved, tradeRows, seqNum, sent, crashes, holder,
                              phase, taker>>
  BY <1>2 DEF BookStill, bookVars, pgVars, p2pVars, TradingInv, CoreInv, ShapeInv, TypeOK
<1>4. PICK l : /\ local' = [local EXCEPT ![h] = l] /\ HandlerShape(l)
               /\ l.at = "quoted" /\ l.stp = <<>> /\ l.trades = <<>> /\ l.gone = {}
  <2>1. ASSUME NEW r \in Requests, NEW a \in Margins, Quote(h, r, a)
        PROVE  \E l : /\ local' = [local EXCEPT ![h] = l] /\ HandlerShape(l)
                      /\ l.at = "quoted" /\ l.stp = <<>> /\ l.trades = <<>> /\ l.gone = {}
    <3>1. PICK l : l = [NoRequest EXCEPT !.at = "quoted", !.req = r, !.avail = a]
      OBVIOUS
    <3>2. r \in OrderRequest /\ a \in Nat
      BY BookAssumption, TradingAssumption
    <3>3. /\ l \in Local /\ l.at = "quoted" /\ l.req = r /\ l.close = FALSE
          /\ l.stp = <<>> /\ l.trades = <<>> /\ l.gone = {} /\ l.k = 1
      BY <3>1, <3>2, NoRequestShape DEF Local, Labels
    <3>4. local' = [local EXCEPT ![h] = l]
      BY <1>1, <2>1, <3>1 DEF Quote, Update
    <3> QED
      BY <3>2, <3>3, <3>4 DEF HandlerShape, Carrying
  <2>2. ASSUME NEW r \in Closes, BeginClose(h, r)
        PROVE  \E l : /\ local' = [local EXCEPT ![h] = l] /\ HandlerShape(l)
                      /\ l.at = "quoted" /\ l.stp = <<>> /\ l.trades = <<>> /\ l.gone = {}
    <3>1. PICK l : l = [NoRequest EXCEPT !.at = "quoted", !.req = r, !.close = TRUE]
      OBVIOUS
    <3>2. r \in OrderRequest /\ r.type = "Market"
      BY TradingAssumption
    <3>3. /\ l \in Local /\ l.at = "quoted" /\ l.req = r
          /\ l.stp = <<>> /\ l.trades = <<>> /\ l.gone = {} /\ l.k = 1
      BY <3>1, <3>2, NoRequestShape DEF Local, Labels
    <3>4. local' = [local EXCEPT ![h] = l]
      BY <1>1, <2>2, <3>1 DEF BeginClose, Update
    <3> QED
      BY <3>2, <3>3, <3>4 DEF HandlerShape, Carrying
  <2> QED
    BY <2>1, <2>2
<1>5. CoreInv'
  <2>1. ~Carrying(l) /\ ~Carrying(local[h]) /\ DOMAIN l.trades = {} /\ DOMAIN l.stp = {}
    BY <1>1, <1>4 DEF Carrying
  <2>2. \A id, f : ~WillDelete(l, id) /\ ~WillSet(l, id, f)
    BY <1>4, <2>1 DEF WillDelete, WillSet, StpDeletes, StpSets
  <2> QED
    BY <1>3, <1>4, <2>1, <2>2, LocalStep
<1>6. TablesInv' /\ LockInv' /\ SentInv' /\ RecordedTradesPublished'
  <2>1. rows' \subseteq Order /\ seqNum' \in Nat \ {0}
    BY <1>3 DEF TradingInv, TablesInv
  <2> QED
    BY <1>3, <1>4, <2>1, QuietStep
<1> QED
  BY <1>5, <1>6 DEF TradingInv

\* The lock is taken: set_attested_ms and the reservation check passed.
LEMMA TakeLockInv ==
    ASSUME TradingInv, NEW h \in Handlers, TakeLock(h)
    PROVE  TradingInv'
<1>1. /\ local[h].at = "quoted" /\ holder = Nobody /\ phase = "idle" /\ holder' = h
      /\ BookStill /\ phase' = "idle"
      /\ UNCHANGED <<rows, unsaved, tradeRows, seqNum, sent, crashes>>
      /\ local' = [local EXCEPT ![h] = [local[h] EXCEPT !.at = "locked"]]
  BY DEF TakeLock, At, LockFree, SetAttestedMs, BookStill, Goto, Update, pgVars, p2pVars
<1>2. PICK l : l = [local[h] EXCEPT !.at = "locked"]
  OBVIOUS
<1>3. local \in [Handlers -> Local] /\ local[h] \in Local /\ HandlerShape(local[h])
  BY DEF TradingInv, CoreInv, ShapesInv
<1>4. /\ l \in Local /\ l.at = "locked" /\ l.req = local[h].req /\ l.close = local[h].close
      /\ l.k = local[h].k /\ l.trades = local[h].trades /\ l.stp = local[h].stp
      /\ l.gone = local[h].gone
  BY <1>2, <1>3 DEF Local, Labels
<1>5. HandlerShape(l)
  BY <1>1, <1>3, <1>4 DEF HandlerShape, Carrying
<1>6. local' = [local EXCEPT ![h] = l]
  BY <1>1, <1>2
<1>7. CoreInv'
  <2>1. ~Carrying(l) /\ ~Carrying(local[h])
    BY <1>1, <1>4 DEF Carrying
  <2>2. \A id, f \in Nat : /\ WillDelete(l, id) => WillDelete(local[h], id)
                           /\ WillSet(l, id, f) => WillSet(local[h], id, f)
    BY <1>4 DEF WillDelete, WillSet
  <2>3. \A i \in DOMAIN l.trades : l.trades[i].maker < nextOrderId
    BY <1>4 DEF TradingInv, CoreInv, MakersInv
  <2> QED
    BY <1>1, <1>5, <1>6, <2>1, <2>2, <2>3, LocalStep
<1>8. local'[h] = l /\ \A g \in Handlers : g # h => local'[g] = local[g]
  BY <1>3, <1>6
<1>9. LockInv'
  <2>1. \A g \in Handlers : local[g].at # "locked"
    BY <1>1, TradingAssumption DEF TradingInv, LockInv
  <2> QED
    BY <1>1, <1>8, <2>1 DEF LockInv
<1>10. SentInv' /\ RecordedTradesPublished'
  BY <1>1, <1>4, <1>8 DEF TradingInv, SentInv, RecordedTradesPublished
<1>11. TablesInv'
  BY <1>1 DEF TradingInv, TablesInv
<1> QED
  BY <1>7, <1>9, <1>10, <1>11 DEF TradingInv

\* A request is turned down, for margin or by the book.
LEMMA RejectInv ==
    ASSUME TradingInv, NEW h \in Handlers, RejectMargin(h) \/ RejectedByBook(h)
    PROVE  TradingInv'
<1>1. /\ local[h].at \in {"quoted", "locked"} /\ phase' = "idle" /\ BookStill
      /\ UNCHANGED <<rows, unsaved, tradeRows, seqNum, sent, crashes>> /\ Respond(h)
      /\ holder' = holder \/ (holder' = Nobody /\ local[h].at = "locked")
  BY DEF RejectMargin, RejectedByBook, At, LockFree, SetAttestedMs, BookStill, bookVars,
         pgVars, p2pVars, TradingInv, CoreInv, ShapeInv, TypeOK
<1>2. CoreInv'
  BY <1>1, RespondStep DEF Carrying
<1>3. local' = [local EXCEPT ![h] = NoRequest]
  BY <1>1 DEF Respond, Update
<1>4. rows' \subseteq Order /\ seqNum' \in Nat \ {0}
  BY <1>1 DEF TradingInv, TablesInv
<1>5. NoRequest.at \notin {"record", "locked"}
  BY NoRequestShape
<1>6. TablesInv' /\ LockInv' /\ SentInv' /\ RecordedTradesPublished'
  BY <1>1, <1>3, <1>4, <1>5, QuietStep
<1> QED
  BY <1>2, <1>6 DEF TradingInv

\* The batch takes its number.
LEMMA NumberBatchInv ==
    ASSUME TradingInv, NEW h \in Handlers, NumberBatch(h)
    PROVE  TradingInv'
<1>1. /\ local[h].at = "settle" /\ seqNum' = seqNum + 1 /\ BookStill
      /\ UNCHANGED <<rows, unsaved, tradeRows, sent, crashes, holder, phase, taker>>
      /\ local' = [local EXCEPT ![h] = [local[h] EXCEPT !.at = "send", !.seq = seqNum]]
  BY DEF NumberBatch, At, BookStill, Update, pgVars, bookVars,
         TradingInv, CoreInv, ShapeInv, TypeOK
<1>2. PICK l : l = [local[h] EXCEPT !.at = "send", !.seq = seqNum]
  OBVIOUS
<1>3. /\ local \in [Handlers -> Local] /\ local[h] \in Local /\ HandlerShape(local[h])
      /\ seqNum \in Nat \ {0} /\ rows \subseteq Order
  BY DEF TradingInv, CoreInv, ShapesInv, TablesInv
<1>4. /\ l \in Local /\ l.at = "send" /\ l.seq = seqNum
      /\ l.order = local[h].order /\ l.close = local[h].close
      /\ l.k = local[h].k /\ l.trades = local[h].trades /\ l.stp = local[h].stp
      /\ l.gone = local[h].gone
  BY <1>2, <1>3 DEF Local, Labels
<1>5. HandlerShape(l)
  BY <1>1, <1>3, <1>4 DEF HandlerShape, Carrying
<1>6. local' = [local EXCEPT ![h] = l]
  BY <1>1, <1>2
<1>7. CoreInv'
  <2>1. Carrying(l) /\ Carrying(local[h])
    BY <1>1, <1>4 DEF Carrying
  <2>2. \A id, f \in Nat : /\ WillDelete(l, id) => WillDelete(local[h], id)
                           /\ WillSet(l, id, f) => WillSet(local[h], id, f)
    BY <1>4 DEF WillDelete, WillSet
  <2>3. \A i \in DOMAIN l.trades : l.trades[i].maker < nextOrderId
    BY <1>4 DEF TradingInv, CoreInv, MakersInv
  <2> QED
    BY <1>1, <1>4, <1>5, <1>6, <2>1, <2>2, <2>3, LocalStep
<1>8. TablesInv' /\ LockInv' /\ SentInv' /\ RecordedTradesPublished'
  <2>1. rows' \subseteq Order /\ seqNum' \in Nat \ {0}
    BY <1>1, <1>3
  <2> QED
    BY <1>1, <1>4, <1>6, <2>1, QuietStep
<1> QED
  BY <1>7, <1>8 DEF TradingInv

\* The batch is sent, and from then on it is among the batches sent.
LEMMA SendBatchInv ==
    ASSUME TradingInv, NEW h \in Handlers, SendBatch(h)
    PROVE  TradingInv'
<1> DEFINE b == [seq |-> local[h].seq, fills |-> local[h].trades]
<1>1. /\ local[h].at = "send" /\ sent' = Append(sent, b) /\ BookStill
      /\ UNCHANGED <<rows, unsaved, tradeRows, seqNum, crashes, holder, phase, taker>>
      /\ local' = [local EXCEPT ![h] = [local[h] EXCEPT !.at = "record"]]
  BY DEF SendBatch, At, BookStill, Goto, Update, pgVars, bookVars,
         TradingInv, CoreInv, ShapeInv, TypeOK
<1>2. PICK l : l = [local[h] EXCEPT !.at = "record"]
  OBVIOUS
<1>3. /\ local \in [Handlers -> Local] /\ local[h] \in Local /\ HandlerShape(local[h])
      /\ sent \in Seq(Batch)
  BY DEF TradingInv, CoreInv, ShapesInv, TablesInv
<1>4. /\ l \in Local /\ l.at = "record" /\ l.order = local[h].order
      /\ l.close = local[h].close
      /\ l.k = local[h].k /\ l.trades = local[h].trades /\ l.stp = local[h].stp
      /\ l.gone = local[h].gone
  BY <1>2, <1>3 DEF Local, Labels
<1>5. HandlerShape(l)
  BY <1>1, <1>3, <1>4 DEF HandlerShape, Carrying
<1>6. local' = [local EXCEPT ![h] = l]
  BY <1>1, <1>2
<1>7. CoreInv'
  <2>1. Carrying(l) /\ Carrying(local[h])
    BY <1>1, <1>4 DEF Carrying
  <2>2. \A id, f \in Nat : /\ WillDelete(l, id) => WillDelete(local[h], id)
                           /\ WillSet(l, id, f) => WillSet(local[h], id, f)
    BY <1>4 DEF WillDelete, WillSet
  <2>3. \A i \in DOMAIN l.trades : l.trades[i].maker < nextOrderId
    BY <1>4 DEF TradingInv, CoreInv, MakersInv
  <2> QED
    BY <1>1, <1>4, <1>5, <1>6, <2>1, <2>2, <2>3, LocalStep
<1>8. local'[h] = l /\ \A g \in Handlers : g # h => local'[g] = local[g]
  BY <1>3, <1>6
<1>9. LockInv'
  BY <1>1, <1>4, <1>8 DEF TradingInv, LockInv
<1>10. /\ DOMAIN sent \subseteq DOMAIN sent' /\ \A i \in DOMAIN sent : sent'[i] = sent[i]
       /\ Len(sent') \in DOMAIN sent' /\ sent'[Len(sent')].fills = l.trades
  BY <1>1, <1>3, <1>4
<1>11. SentInv'
  BY <1>8, <1>10 DEF TradingInv, SentInv
<1>12. RecordedTradesPublished'
  BY <1>1, <1>10 DEF TradingInv, RecordedTradesPublished
<1>13. TablesInv'
  <2>1. b \in Batch
    BY <1>1, <1>3 DEF Batch, Local, HandlerShape
  <2> QED
    BY <1>1, <1>3, <2>1 DEF TradingInv, TablesInv
<1> QED
  BY <1>7, <1>9, <1>11, <1>12, <1>13 DEF TradingInv

\* A trade goes into the trades table, from a batch that was sent.  A close
\* that is then answered leaves nothing in the book.
LEMMA RecordTradeInv ==
    ASSUME TradingInv, NEW h \in Handlers, RecordTrade(h)
    PROVE  TradingInv'
<1> DEFINE t == local[h].trades[local[h].k]
<1>1. /\ local[h].at = "record" /\ BookStill
      /\ tradeRows' = InsertTrade(t) \/ tradeRows' = tradeRows
      /\ UNCHANGED <<rows, unsaved, seqNum, sent, crashes, holder, phase, taker>>
  BY DEF RecordTrade, WriteTrades, At, BookStill, p2pVars, bookVars, TradingInv, CoreInv, ShapeInv, TypeOK
<1>3. /\ local \in [Handlers -> Local] /\ local[h] \in Local /\ HandlerShape(local[h])
      /\ sent \in Seq(Batch) /\ Carrying(local[h])
  BY <1>1 DEF TradingInv, CoreInv, ShapesInv, TablesInv, Carrying
<1>m. PICK m : m = local[h] /\ m \in Local /\ m.at = "record"
  BY <1>1, <1>3
<1>k. /\ local[h].trades \in Seq(Trade) /\ local[h].k \in Nat \ {0}
      /\ local[h].k \in DOMAIN local[h].trades /\ t \in Trade
  BY <1>1, <1>3 DEF HandlerShape, Local
<1>4. PICK l : /\ local' = [local EXCEPT ![h] = l] /\ HandlerShape(l)
               /\ l.at \in {"idle", "record", "rest"}
               /\ l.at = "record" => l.trades = local[h].trades
               /\ CoreInv'
  <2>1. CASE MoreTrades(h) /\ Update(h, [local[h] EXCEPT !.k = @ + 1])
    <3>1. PICK l : l = [m EXCEPT !.k = m.k + 1]
      OBVIOUS
    <3>2. /\ l \in Local /\ l.at = "record" /\ l.order = local[h].order
          /\ l.close = local[h].close /\ l.k = local[h].k + 1
          /\ l.trades = local[h].trades /\ l.stp = local[h].stp /\ l.gone = local[h].gone
      <4>1. m.k + 1 \in Nat \ {0}
        BY <1>k, <1>m
      <4>2. /\ l \in Local /\ l.at = "record" /\ l.order = m.order
            /\ l.close = m.close /\ l.k = m.k + 1
            /\ l.trades = m.trades /\ l.stp = m.stp /\ l.gone = m.gone
        BY <1>m, <3>1, <4>1 DEF Local
      <4> QED
        BY <1>m, <4>2
    <3>3. HandlerShape(l)
      <4>1. l.k <= Len(l.trades)
        BY <1>k, <2>1, <3>2 DEF MoreTrades
      <4> QED
        BY <1>3, <3>2, <4>1 DEF HandlerShape, Carrying
    <3>4. local' = [local EXCEPT ![h] = l]
      BY <1>m, <2>1, <3>1 DEF Update
    <3>5. Carrying(l) /\ \A i \in DOMAIN l.trades : l.trades[i].maker < nextOrderId
      BY <3>2 DEF Carrying, TradingInv, CoreInv, MakersInv
    <3>6. \A id, f \in Nat : /\ WillDelete(l, id) => WillDelete(local[h], id)
                             /\ WillSet(l, id, f) => WillSet(local[h], id, f)
      BY <3>2 DEF WillDelete, WillSet
    <3>7. CoreInv'
      BY <1>1, <1>3, <3>2, <3>3, <3>4, <3>5, <3>6, LocalStep
    <3> QED
      BY <3>2, <3>3, <3>4, <3>7
  <2>2. CASE local[h].close /\ Respond(h)
    <3>1. \A o \in resting : o.id # local[h].order.id
      BY <1>3, <2>2 DEF TradingInv, CoreInv, CarriedInv, Returned
    <3>2. CoreInv'
      BY <1>1, <2>2, <3>1, RespondStep
    <3> QED
      BY <2>2, <3>2, NoRequestShape DEF Respond, Update
  <2>3. CASE Update(h, [local[h] EXCEPT !.at = "rest", !.k = 1])
    <3>1. PICK l : l = [m EXCEPT !.at = "rest", !.k = 1]
      OBVIOUS
    <3>2. /\ l \in Local /\ l.at = "rest" /\ l.order = local[h].order
          /\ l.close = local[h].close /\ l.k = 1
          /\ l.trades = local[h].trades /\ l.stp = local[h].stp /\ l.gone = local[h].gone
      <4>1. /\ l \in Local /\ l.at = "rest" /\ l.order = m.order
            /\ l.close = m.close /\ l.k = 1
            /\ l.trades = m.trades /\ l.stp = m.stp /\ l.gone = m.gone
        <5>1. "rest" \in Labels /\ 1 \in Nat \ {0}
          BY DEF Labels
        <5>2. l \in Local
          BY <1>m, <3>1, <5>1 DEF Local
        <5> QED
          BY <1>m, <3>1, <5>2 DEF Local
      <4> QED
        BY <1>m, <4>1
    <3>3. HandlerShape(l)
      BY <1>3, <3>2 DEF HandlerShape, Carrying
    <3>4. local' = [local EXCEPT ![h] = l]
      BY <1>m, <2>3, <3>1 DEF Update
    <3>5. Carrying(l) /\ \A i \in DOMAIN l.trades : l.trades[i].maker < nextOrderId
      BY <3>2 DEF Carrying, TradingInv, CoreInv, MakersInv
    <3>6. \A id, f \in Nat : /\ WillDelete(l, id) => WillDelete(local[h], id)
                             /\ WillSet(l, id, f) => WillSet(local[h], id, f)
      BY <3>2 DEF WillDelete, WillSet
    <3>7. CoreInv'
      BY <1>1, <1>3, <3>2, <3>3, <3>4, <3>5, <3>6, LocalStep
    <3> QED
      BY <3>2, <3>3, <3>4, <3>7
  <2> QED
    BY <2>1, <2>2, <2>3 DEF RecordTrade
<1>8. local'[h] = l /\ \A g \in Handlers : g # h => local'[g] = local[g]
  BY <1>3, <1>4
<1>9. LockInv'
  BY <1>1, <1>4, <1>8 DEF TradingInv, LockInv
<1>10. PICK i \in DOMAIN sent : sent[i].fills = local[h].trades
  BY <1>1 DEF TradingInv, SentInv
<1>11. SentInv'
  BY <1>1, <1>4, <1>8, <1>10 DEF TradingInv, SentInv
<1>12. RecordedTradesPublished'
  <2>1. t \in Range(sent[i].fills)
    BY <1>k, <1>10 DEF Range
  <2>2. tradeRows' \subseteq tradeRows \cup {t}
    BY <1>1 DEF InsertTrade
  <2> QED
    BY <1>1, <2>1, <2>2 DEF TradingInv, RecordedTradesPublished
<1>13. TablesInv'
  BY <1>1, <1>k DEF TradingInv, TablesInv, InsertTrade
<1> QED
  BY <1>4, <1>9, <1>11, <1>12, <1>13 DEF TradingInv

\* A maker is read under the lock: what is decided from it stays true until
\* it is written, however late.
LEMMA ReadMakerInv ==
    ASSUME TradingInv, NEW h \in Handlers, ReadMaker(h)
    PROVE  TradingInv'
<1> DEFINE id == local[h].trades[local[h].k].maker
<1>1. /\ local[h].at = "makers" /\ phase = "idle" /\ BookStill
      /\ UNCHANGED <<rows, unsaved, tradeRows, seqNum, sent, crashes, holder, phase, taker>>
  BY DEF ReadMaker, At, LockFree, BookStill, pgVars, p2pVars, bookVars,
         TradingInv, CoreInv, ShapeInv, TypeOK
<1>2. PICK j : /\ local' = [local EXCEPT ![h] = [local[h] EXCEPT !.at = "write", !.job = j]]
               /\ \/ \E o \in resting : o.id = id /\ j = [id |-> id, filled |-> o.filled,
                                                          keep |-> TRUE]
                  \/ /\ \A o \in resting : o.id # id
                     /\ j = [id |-> id, filled |-> 0, keep |-> FALSE]
  BY DEF ReadMaker, Update
<1>3. /\ local \in [Handlers -> Local] /\ local[h] \in Local /\ HandlerShape(local[h])
      /\ rows \subseteq Order /\ seqNum \in Nat \ {0} /\ TypeOK
  BY DEF TradingInv, CoreInv, ShapesInv, TablesInv, ShapeInv
<1>k. /\ local[h].k \in DOMAIN local[h].trades /\ local[h].trades[local[h].k] \in Trade
      /\ id \in Nat
  <2>1. local[h].trades \in Seq(Trade) /\ local[h].k \in Nat \ {0}
        /\ local[h].k <= Len(local[h].trades)
    BY <1>1, <1>3 DEF HandlerShape, Local
  <2>2. local[h].k \in DOMAIN local[h].trades
    BY <2>1
  <2>3. local[h].trades[local[h].k] \in Trade
    BY <2>1, <2>2
  <2> QED
    BY <2>2, <2>3 DEF Trade
<1>i. id < nextOrderId /\ Settled(id)
  BY <1>1, <1>k DEF TradingInv, CoreInv, MakersInv, Settled
<1> HIDE DEF id
<1>j. j \in [id : Nat, filled : Nat, keep : BOOLEAN] /\ j.id = id
  <2>1. \A o \in resting : o.filled \in Nat
    BY <1>3 DEF TypeOK, Order
  <2> QED
    <3>1. CASE \E o \in resting : o.id = id /\ j = [id |-> id, filled |-> o.filled,
                                                    keep |-> TRUE]
      BY <1>k, <2>1, <3>1
    <3>2. CASE j = [id |-> id, filled |-> 0, keep |-> FALSE]
      BY <1>k, <3>2
    <3> QED
      BY <1>2, <3>1, <3>2
<1>4. PICK l : l = [local[h] EXCEPT !.at = "write", !.job = j]
  OBVIOUS
<1>5. /\ l \in Local /\ l.at = "write" /\ l.k = local[h].k /\ l.trades = local[h].trades
      /\ l.stp = local[h].stp /\ l.gone = local[h].gone /\ l.job = j
  BY <1>3, <1>4, <1>j DEF Local, Labels
<1>6. HandlerShape(l)
  BY <1>1, <1>3, <1>5 DEF HandlerShape, Carrying
<1>7. local' = [local EXCEPT ![h] = l]
  BY <1>2, <1>4
<1>d. ~j.keep => Dead(id)
  BY <1>2, <1>i DEF Dead
<1>c. j.keep => Claim(id, j.filled)
  <2> SUFFICES ASSUME j.keep PROVE Claim(id, j.filled)
    OBVIOUS
  <2>1. PICK o \in resting : o.id = id /\ j.filled = o.filled
    BY <1>2
  <2>2. o \in Order /\ o.filled < o.size
    BY <1>3 DEF TypeOK, TradingInv, CoreInv, ShapeInv, BookWellFormed, RestingLive
  <2>3. \A p \in resting : p.id = id => j.filled <= p.filled
    <3>1. \A p \in resting : p.id = id => p = o
      BY <2>1 DEF TradingInv, CoreInv, ShapeInv, BookWellFormed, QueueInIdOrder
    <3>2. o.filled \in Nat
      BY <2>2 DEF Order
    <3> QED
      BY <2>1, <3>1, <3>2
  <2>4. \A c \in Copies : c.id = id => j.filled < c.size
    BY <2>1, <2>2 DEF TradingInv, CoreInv, CopiesInv, CopyOK, Same
  <2> QED
    BY <1>i, <2>3, <2>4 DEF Claim
<1>8. CoreInv'
  <2>1. ~Carrying(l) /\ ~Carrying(local[h])
    BY <1>1, <1>5 DEF Carrying
  <2>2. \A i \in Nat : WillDelete(l, i) => WillDelete(local[h], i) \/ Dead(i)
    BY <1>5, <1>d, <1>j DEF WillDelete
  <2>3. \A i, f \in Nat : WillSet(l, i, f) => WillSet(local[h], i, f) \/ Claim(i, f)
    BY <1>5, <1>c, <1>j DEF WillSet
  <2>4. \A i \in DOMAIN l.trades : l.trades[i].maker < nextOrderId
    BY <1>5 DEF TradingInv, CoreInv, MakersInv
  <2> QED
    BY <1>1, <1>6, <1>7, <2>1, <2>2, <2>3, <2>4, LocalStep
<1>9. TablesInv' /\ LockInv' /\ SentInv' /\ RecordedTradesPublished'
  <2>1. rows' \subseteq Order /\ seqNum' \in Nat \ {0}
    BY <1>1, <1>3
  <2> QED
    BY <1>1, <1>5, <1>7, <2>1, QuietStep
<1> QED
  BY <1>8, <1>9 DEF TradingInv

----------------------------------------------------------------------------
(* The steps that write resting_orders. *)

\* Handler h goes on with locals l, carrying no order and with no writes to
\* make that it did not already have.
Onward(h, l) ==
    /\ local' = [local EXCEPT ![h] = l] /\ HandlerShape(l) /\ ~Carrying(l)
    /\ l.at \notin {"record", "locked"}
    /\ \A id, f \in Nat : /\ WillDelete(l, id) => WillDelete(local[h], id)
                          /\ WillSet(l, id, f) => WillSet(local[h], id, f)
    /\ \A i \in DOMAIN l.trades : l.trades[i].maker < nextOrderId

\* Answering is going on so.
LEMMA RespondOnward ==
    ASSUME NEW h \in Handlers, Respond(h)
    PROVE  Onward(h, NoRequest)
<1>1. DOMAIN NoRequest.trades = {}
  BY NoRequestShape
<1> QED
  BY <1>1, NoRequestShape DEF Onward, Respond, Update

\* So is keeping one's trades and self-cross entries.
LEMMA KeepOnward ==
    ASSUME TradingInv, NEW h \in Handlers, NEW l, local' = [local EXCEPT ![h] = l],
           HandlerShape(l), l.at \in {"makers", "stp", "delete"},
           l.trades = local[h].trades, l.stp = local[h].stp, l.gone \subseteq local[h].gone
    PROVE  Onward(h, l)
<1>1. \A id, f \in Nat : /\ WillDelete(l, id) => WillDelete(local[h], id)
                         /\ WillSet(l, id, f) => WillSet(local[h], id, f)
  BY DEF WillDelete, WillSet
<1>2. \A i \in DOMAIN l.trades : l.trades[i].maker < nextOrderId
  BY DEF TradingInv, CoreInv, MakersInv
<1> QED
  BY <1>1, <1>2 DEF Onward, Carrying

\* After the makers come the self-cross entries, if there are any.
LEMMA AfterMakersOnward ==
    ASSUME TradingInv, NEW h \in Handlers, AfterMakers(h)
    PROVE  \E l : Onward(h, l)
<1>1. PICK m : m = local[h] /\ m \in Local
  BY DEF TradingInv, CoreInv, ShapesInv
<1>2. CASE m.stp = <<>>
  BY <1>1, <1>2, RespondOnward DEF AfterMakers
<1>3. CASE m.stp # <<>>
  <2>1. PICK l : l = [m EXCEPT !.at = "stp", !.k = 1, !.job = NoJob]
    OBVIOUS
  <2>2. /\ "stp" \in Labels /\ 1 \in Nat \ {0}
        /\ NoJob \in [id : Nat, filled : Nat, keep : BOOLEAN]
    BY DEF Labels, NoJob
  <2>3. l \in Local
    BY <1>1, <2>1, <2>2 DEF Local
  <2>4. /\ l.at = "stp" /\ l.k = 1 /\ l.trades = m.trades /\ l.stp = m.stp
        /\ l.gone = m.gone
    BY <1>1, <2>1, <2>3 DEF Local
  <2>5. 1 <= Len(l.stp)
    <3>1. m.stp \in Seq(StpEntry)
      BY <1>1 DEF Local
    <3> QED
      BY <1>3, <2>4, <3>1
  <2>6. HandlerShape(l)
    BY <2>3, <2>4, <2>5 DEF HandlerShape, Carrying
  <2>7. local' = [local EXCEPT ![h] = l]
    BY <1>1, <1>3, <2>1 DEF AfterMakers, Update
  <2> QED
    BY <1>1, <2>4, <2>6, <2>7, KeepOnward
<1> QED
  BY <1>2, <1>3

\* A handler that writes rows and goes on keeps the invariant.
LEMMA WriteStep ==
    ASSUME TradingInv, NEW h \in Handlers, NEW l, Onward(h, l),
           UNCHANGED <<bookVars, holder, tradeRows, p2pVars, crashes>>,
           RowsMove(h, l), RowsInv',
           \A o \in resting : Carrying(local[h]) /\ o.id = local[h].order.id =>
                o.id \in unsaved' \/ \E r \in rows' : r.id = o.id
    PROVE  TradingInv'
<1>1. BookStill /\ UNCHANGED <<seqNum, sent, phase, taker>>
  BY DEF BookStill, bookVars, p2pVars, TradingInv, CoreInv, ShapeInv, TypeOK
<1>2. WritesMove(h, l)
  BY <1>1 DEF Onward, WritesMove, BookStill
<1>3. CoreInv'
  BY <1>1, <1>2, RowsStep DEF Onward
<1>4. rows' \subseteq Order /\ seqNum' \in Nat \ {0}
  BY <1>1 DEF RowsMove, TradingInv, TablesInv
<1>5. TablesInv' /\ LockInv' /\ SentInv' /\ RecordedTradesPublished'
  BY <1>1, <1>4, QuietStep DEF Onward
<1> QED
  BY <1>3, <1>5 DEF TradingInv

\* A step that leaves the rows alone moves no row.
LEMMA SameRows ==
    ASSUME TradingInv, UNCHANGED <<rows, unsaved>>, NEW h, NEW l
    PROVE  RowsMove(h, l) /\ RowsInv'
<1>1. rows \subseteq Order
  BY DEF TradingInv, TablesInv
<1> QED
  BY <1>1 DEF RowsMove, HasRow, RowsInv, TradingInv, CoreInv

\* update_resting_order's filled, when the claim behind it is true.
LEMMA WithFilledMoves ==
    ASSUME TradingInv, UNCHANGED bookVars, NEW h, NEW l,
           NEW id \in Nat, NEW f \in Nat, Claim(id, f), rows' = WithFilled(id, f),
           UNCHANGED unsaved
    PROVE  RowsMove(h, l) /\ RowsInv'
<1> DEFINE New(r) == IF r.id = id THEN [r EXCEPT !.filled = f] ELSE r
<1>1. rows' = {New(r) : r \in rows} /\ rows \subseteq Order
  BY DEF WithFilled, TradingInv, TablesInv
<1>2. ASSUME NEW r \in rows
      PROVE  /\ New(r) \in Order /\ New(r).id = r.id /\ Same(New(r), r)
             /\ New(r).type = r.type /\ New(r).tif = r.tif /\ New(r).status = r.status
             /\ New(r).arr = r.arr
             /\ New(r).filled = IF r.id = id THEN f ELSE r.filled
  BY <1>1 DEF Order, Same
<1>3. \A r \in rows : r \in Copies /\ CopyOK(r)
  BY DEF Copies, TradingInv, CoreInv, CopiesInv
<1>4. BookStill
  BY DEF BookStill, bookVars, TradingInv, CoreInv, ShapeInv, TypeOK
<1>5. \A c : CopyOK(c)' <=> CopyOK(c)
  BY <1>4, StillKeeps
<1> HIDE DEF New
<1>6. ASSUME NEW q \in rows'
      PROVE  /\ q \in Order /\ \E r \in rows : r.id = q.id
             /\ CopyOK(q)' /\ \E c \in Copies : c.id = q.id /\ c.size = q.size
             /\ q.type = "Limit" /\ q.tif = "Gtc" /\ q.status = "Open" /\ q.arr = 0
             /\ q.price > 0 /\ q.filled < q.size
  <2>1. PICK r \in rows : q = New(r)
    BY <1>1
  <2>2. /\ r.type = "Limit" /\ r.tif = "Gtc" /\ r.status = "Open" /\ r.arr = 0
        /\ r.price > 0 /\ r.filled < r.size
    BY DEF TradingInv, CoreInv, RowsInv
  <2>3. CopyOK(q)
    BY <1>2, <1>3, <2>1 DEF CopyOK, Same, Claim
  <2>4. q.filled < q.size
    BY <1>2, <1>3, <2>1, <2>2 DEF Claim, Same
  <2> QED
    BY <1>2, <1>3, <1>5, <2>1, <2>2, <2>3, <2>4 DEF Same
<1>7. \A o : HasRow(o.id) => \E r \in rows' : r.id = o.id
  BY <1>1, <1>2 DEF HasRow
<1>8. RowsMove(h, l)
  BY <1>6, <1>7 DEF RowsMove
<1>9. IsFiniteSet(rows')
  <2>1. IsFiniteSet(rows)
    BY DEF TradingInv, CoreInv, RowsInv
  <2> DEFINE F == [r \in rows |-> New(r)]
  <2>2. F \in Surjection(rows, rows')
    BY <1>1 DEF Surjection
  <2> QED
    BY <2>1, <2>2, FS_Surjection
<1>10. \A p, q \in rows' : p.id = q.id => p = q
  BY <1>1, <1>2 DEF TradingInv, CoreInv, RowsInv
<1> QED
  BY <1>6, <1>8, <1>9, <1>10 DEF RowsInv

\* delete_resting_order, when the id is dead.
LEMMA DeleteMoves ==
    ASSUME TradingInv, UNCHANGED bookVars, NEW h, NEW l,
           NEW id \in Nat, Dead(id), rows' = DeleteRestingOrder(id), UNCHANGED unsaved
    PROVE  RowsMove(h, l) /\ RowsInv'
<1>1. rows' \subseteq rows /\ rows \subseteq Order /\ resting' = resting
  BY DEF DeleteRestingOrder, TradingInv, TablesInv, bookVars
<1>2. \A o \in resting : HasRow(o.id) => \E r \in rows' : r.id = o.id
  BY DEF HasRow, DeleteRestingOrder, Dead
<1>3. RowsMove(h, l)
  BY <1>1, <1>2 DEF RowsMove
<1>4. IsFiniteSet(rows')
  BY <1>1, FS_Subset DEF TradingInv, CoreInv, RowsInv
<1> QED
  BY <1>1, <1>3, <1>4 DEF TradingInv, CoreInv, RowsInv

\* The order a handler carries gets its row: a true copy, and if it rests it
\* is one that gets a row.
LEMMA PersistOrderInv ==
    ASSUME TradingInv, NEW h \in Handlers, PersistOrder(h)
    PROVE  TradingInv'
<1>1. PICK m : m = local[h] /\ m \in Local /\ HandlerShape(m) /\ m.at = "rest"
  BY DEF TradingInv, CoreInv, ShapesInv, PersistOrder, At
<1>2. PICK o : o = m.order /\ o \in Order
  BY <1>1 DEF HandlerShape, Carrying
<1> DEFINE Kept == o.status = "Open" /\ Remaining(o) > 0
<1>3. /\ \/ Kept /\ rows' = InsertRestingOrder(o) /\ unsaved' = unsaved
         \/ Kept /\ rows' = rows /\ unsaved' = unsaved \cup {o.id}
         \/ ~Kept /\ rows' = rows /\ unsaved' = unsaved
      /\ IF m.trades = <<>> THEN AfterMakers(h) ELSE Goto(h, "makers")
      /\ UNCHANGED <<bookVars, holder, tradeRows, p2pVars, crashes>>
  BY <1>1, <1>2 DEF PersistOrder, InsertRow, pgVars
<1>4. PICK l : Onward(h, l)
  <2>1. CASE m.trades = <<>>
    BY <1>3, <2>1, AfterMakersOnward
  <2>2. CASE m.trades # <<>>
    <3>1. PICK l : l = [m EXCEPT !.at = "makers"]
      OBVIOUS
    <3>2. l \in Local
      BY <1>1, <3>1 DEF Local, Labels
    <3>3. /\ l.at = "makers" /\ l.k = m.k /\ l.trades = m.trades /\ l.stp = m.stp
          /\ l.gone = m.gone
      BY <1>1, <3>1 DEF Local
    <3>4. l.k <= Len(l.trades)
      <4>1. m.k = 1 /\ m.trades \in Seq(Trade)
        BY <1>1 DEF HandlerShape, Local
      <4> QED
        BY <2>2, <3>3, <4>1
    <3>5. HandlerShape(l)
      BY <3>2, <3>3, <3>4 DEF HandlerShape, Carrying
    <3>6. local' = [local EXCEPT ![h] = l]
      BY <1>1, <1>3, <2>2, <3>1 DEF Goto, Update
    <3> QED
      BY <1>1, <3>3, <3>5, <3>6, KeepOnward
  <2> QED
    BY <2>1, <2>2
<1>5. /\ Carrying(local[h]) /\ local[h].order = o /\ o \in Copies /\ CopyOK(o)
      /\ Returned(local[h]) /\ \A r \in rows : r.id # o.id
  BY <1>1, <1>2 DEF Carrying, Copies, TradingInv, CoreInv, CopiesInv, CarriedInv
<1>6. rows \subseteq Order /\ resting \subseteq Order /\ resting' = resting
  BY <1>3 DEF TradingInv, CoreInv, TablesInv, ShapeInv, TypeOK, bookVars
<1>7. \A p \in resting : p.id = o.id => Kept
  <2> SUFFICES ASSUME NEW p \in resting, p.id = o.id PROVE Kept
    OBVIOUS
  <2>1. o.status = "Open" /\ o.size = p.size /\ o.filled <= p.filled /\ p.filled < p.size
    BY <1>5 DEF Returned, CopyOK, Same, TradingInv, CoreInv, ShapeInv, BookWellFormed,
                RestingLive
  <2>2. o.filled \in Nat /\ o.size \in Nat /\ p.filled \in Nat
    BY <1>2, <1>6 DEF Order
  <2> QED
    BY <2>1, <2>2 DEF Remaining
<1>8. /\ RowsMove(h, l) /\ RowsInv'
      /\ Kept => o.id \in unsaved' \/ \E r \in rows' : r.id = o.id
  <2>1. CASE rows' = rows
    <3>1. unsaved \subseteq unsaved' /\ (Kept => o.id \in unsaved')
      <4>1. (\E r \in rows' : r.id = o.id) => FALSE
        BY <1>5, <2>1
      <4>2. Kept => rows' # InsertRestingOrder(o)
        <5>1. AsRow(o) \in Order /\ AsRow(o).id = o.id
          BY <1>2 DEF AsRow, Order, OrderTypes, TimesInForce, Statuses
        <5> QED
          BY <1>5, <4>1, <5>1 DEF InsertRestingOrder, HasRow
      <4> QED
        BY <1>3, <4>2
    <3> QED
      BY <1>6, <2>1, <3>1 DEF RowsMove, HasRow, RowsInv, TradingInv, CoreInv
  <2>2. CASE Kept /\ rows' = InsertRestingOrder(o) /\ unsaved' = unsaved
    <3>1. PICK r : r = AsRow(o)
      OBVIOUS
    <3>2. /\ r \in Order /\ r.id = o.id /\ Same(r, o) /\ r.filled = o.filled
          /\ r.type = "Limit" /\ r.tif = "Gtc" /\ r.status = "Open" /\ r.arr = 0
      BY <1>2, <3>1 DEF AsRow, Order, Same, OrderTypes, TimesInForce, Statuses
    <3>3. rows' = rows \cup {r}
      BY <1>5, <2>2, <3>1 DEF InsertRestingOrder, HasRow
    <3>4. CopyOK(r)'
      <4>1. CopyOK(r)
        BY <1>5, <3>2 DEF CopyOK, Same
      <4>2. BookStill
        BY <1>3 DEF BookStill, bookVars, TradingInv, CoreInv, ShapeInv, TypeOK
      <4> QED
        BY <4>1, <4>2, StillKeeps
    <3>5. o.size = r.size
      BY <3>2 DEF Same
    <3>6. RowsMove(h, l)
      BY <1>4, <1>5, <1>6, <2>2, <3>2, <3>3, <3>4, <3>5 DEF RowsMove, HasRow, Onward
    <3>7. r.price > 0 /\ r.filled < r.size
      <4>1. o.price > 0
        BY <1>5, <2>2 DEF Returned
      <4>2. o.filled < o.size
        BY <1>2, <2>2 DEF Remaining, Order
      <4> QED
        BY <3>2, <4>1, <4>2 DEF Same
    <3>8. IsFiniteSet(rows')
      BY <3>3, FS_AddElement DEF TradingInv, CoreInv, RowsInv
    <3>9. RowsInv'
      BY <1>5, <3>2, <3>3, <3>7, <3>8 DEF RowsInv, TradingInv, CoreInv
    <3> QED
      BY <3>2, <3>3, <3>6, <3>9
  <2> QED
    BY <1>3, <2>1, <2>2
<1> QED
  BY <1>3, <1>4, <1>5, <1>7, <1>8, WriteStep

\* A maker's row is updated or deleted from what was read of it.
LEMMA WriteMakerInv ==
    ASSUME TradingInv, NEW h \in Handlers, WriteMaker(h)
    PROVE  TradingInv'
<1>1. PICK m : m = local[h] /\ m \in Local /\ HandlerShape(m) /\ m.at = "write"
  BY DEF TradingInv, CoreInv, ShapesInv, WriteMaker, At
<1>2. PICK j : j = m.job /\ j.id \in Nat /\ j.filled \in Nat
  BY <1>1 DEF Local
<1>3. /\ \/ rows' = rows
         \/ rows' = IF j.keep THEN WithFilled(j.id, j.filled) ELSE DeleteRestingOrder(j.id)
      /\ UNCHANGED <<bookVars, holder, tradeRows, unsaved, p2pVars, crashes>>
  BY <1>1, <1>2 DEF WriteMaker, WriteRows
<1>4. PICK l : Onward(h, l)
  <2>1. CASE ~MoreTrades(h)
    BY <2>1, AfterMakersOnward DEF WriteMaker
  <2>2. CASE MoreTrades(h)
    <3>1. PICK l : l = [m EXCEPT !.at = "makers", !.k = m.k + 1, !.job = NoJob]
      OBVIOUS
    <3>k. m.k \in Nat \ {0} /\ m.trades \in Seq(Trade)
      BY <1>1 DEF Local
    <3>2. /\ "makers" \in Labels /\ m.k + 1 \in Nat \ {0}
          /\ NoJob \in [id : Nat, filled : Nat, keep : BOOLEAN]
      BY <3>k DEF Labels, NoJob
    <3>3. l \in Local
      BY <1>1, <3>1, <3>2 DEF Local
    <3>4. /\ l.at = "makers" /\ l.k = m.k + 1 /\ l.trades = m.trades /\ l.stp = m.stp
          /\ l.gone = m.gone
      BY <1>1, <3>1, <3>3 DEF Local
    <3>5. l.k <= Len(l.trades)
      BY <1>1, <2>2, <3>4, <3>k DEF MoreTrades
    <3>6. HandlerShape(l)
      BY <3>3, <3>4, <3>5 DEF HandlerShape, Carrying
    <3>7. local' = [local EXCEPT ![h] = l]
      BY <1>1, <2>2, <3>1 DEF WriteMaker, Update
    <3> QED
      BY <1>1, <3>4, <3>6, <3>7, KeepOnward
  <2> QED
    BY <2>1, <2>2
<1>5. ~Carrying(local[h])
  BY <1>1 DEF Carrying
<1>6. CASE j.keep
  <2>1. Claim(j.id, j.filled)
    BY <1>1, <1>2, <1>6 DEF TradingInv, CoreInv, WritesInv, WillSet
  <2>2. RowsMove(h, l) /\ RowsInv'
    BY <1>2, <1>3, <1>6, <2>1, WithFilledMoves, SameRows
  <2> QED
    BY <1>3, <1>4, <1>5, <2>2, WriteStep
<1>7. CASE ~j.keep
  <2>1. Dead(j.id)
    BY <1>1, <1>2, <1>7 DEF TradingInv, CoreInv, WritesInv, WillDelete
  <2>2. RowsMove(h, l) /\ RowsInv'
    BY <1>2, <1>3, <1>7, <2>1, DeleteMoves, SameRows
  <2> QED
    BY <1>3, <1>4, <1>5, <2>2, WriteStep
<1> QED
  BY <1>6, <1>7

\* A self-crossed maker's row is updated or deleted from its entry.
LEMMA WriteStpInv ==
    ASSUME TradingInv, NEW h \in Handlers, WriteStp(h)
    PROVE  TradingInv'
<1>1. PICK m : m = local[h] /\ m \in Local /\ HandlerShape(m) /\ m.at = "stp"
  BY DEF TradingInv, CoreInv, ShapesInv, WriteStp, At
<1>k. /\ m.k \in Nat \ {0} /\ m.stp \in Seq(StpEntry) /\ m.k <= Len(m.stp)
      /\ m.k \in DOMAIN m.stp
  BY <1>1 DEF HandlerShape, Local
<1>2. PICK e : e = m.stp[m.k] /\ e.id \in Nat /\ e.filled \in Nat
  <2>1. m.stp[m.k] \in StpEntry
    BY <1>k
  <2> QED
    BY <2>1 DEF StpEntry
<1>3. /\ \/ rows' = rows
         \/ rows' = IF e.status = "Cancelled" THEN DeleteRestingOrder(e.id)
                                              ELSE WithFilled(e.id, e.filled)
      /\ IF m.k = Len(m.stp) THEN Respond(h)
         ELSE local' = [local EXCEPT ![h] = [m EXCEPT !.k = m.k + 1]]
      /\ UNCHANGED <<bookVars, holder, tradeRows, unsaved, p2pVars, crashes>>
  BY <1>1, <1>2 DEF WriteStp, WriteRows, Update
<1>4. PICK l : Onward(h, l)
  <2>1. CASE m.k = Len(m.stp)
    BY <1>3, <2>1, RespondOnward
  <2>2. CASE m.k # Len(m.stp)
    <3>1. PICK l : l = [m EXCEPT !.k = m.k + 1]
      OBVIOUS
    <3>2. m.k + 1 \in Nat \ {0} /\ m.k + 1 <= Len(m.stp)
      BY <1>k, <2>2
    <3>3. l \in Local
      BY <1>1, <3>1, <3>2 DEF Local
    <3>4. /\ l.at = "stp" /\ l.k = m.k + 1 /\ l.trades = m.trades /\ l.stp = m.stp
          /\ l.gone = m.gone
      BY <1>1, <3>1, <3>3 DEF Local
    <3>5. HandlerShape(l)
      BY <3>2, <3>3, <3>4 DEF HandlerShape, Carrying
    <3>6. local' = [local EXCEPT ![h] = l]
      BY <1>3, <2>2, <3>1
    <3> QED
      BY <1>1, <3>4, <3>5, <3>6, KeepOnward
  <2> QED
    BY <2>1, <2>2
<1>5. ~Carrying(local[h])
  BY <1>1 DEF Carrying
<1>6. CASE e.status # "Cancelled"
  <2>1. WillSet(local[h], e.id, e.filled)
    BY <1>1, <1>2, <1>6, <1>k DEF WillSet, StpSets
  <2>2. Claim(e.id, e.filled)
    BY <1>2, <2>1 DEF TradingInv, CoreInv, WritesInv
  <2>3. RowsMove(h, l) /\ RowsInv'
    BY <1>2, <1>3, <1>6, <2>2, WithFilledMoves, SameRows
  <2> QED
    BY <1>3, <1>4, <1>5, <2>3, WriteStep
<1>7. CASE e.status = "Cancelled"
  <2>1. WillDelete(local[h], e.id)
    BY <1>1, <1>2, <1>7, <1>k DEF WillDelete, StpDeletes
  <2>2. Dead(e.id)
    BY <1>2, <2>1 DEF TradingInv, CoreInv, WritesInv
  <2>3. RowsMove(h, l) /\ RowsInv'
    BY <1>2, <1>3, <1>7, <2>2, DeleteMoves, SameRows
  <2> QED
    BY <1>3, <1>4, <1>5, <2>3, WriteStep
<1> QED
  BY <1>6, <1>7

\* A cancelled order's row is deleted.
LEMMA DeleteRowInv ==
    ASSUME TradingInv, NEW h \in Handlers, DeleteRow(h)
    PROVE  TradingInv'
<1>1. PICK m : m = local[h] /\ m \in Local /\ HandlerShape(m) /\ m.at = "delete"
  BY DEF TradingInv, CoreInv, ShapesInv, DeleteRow, At
<1>2. PICK id \in m.gone :
        /\ rows' = DeleteRestingOrder(id) \/ rows' = rows
        /\ UNCHANGED <<tradeRows, unsaved>>
        /\ IF m.gone = {id} THEN Respond(h)
           ELSE local' = [local EXCEPT ![h] = [m EXCEPT !.gone = m.gone \ {id}]]
  BY <1>1 DEF DeleteRow, WriteRows, Update
<1>3. UNCHANGED <<bookVars, holder, tradeRows, p2pVars, crashes>> /\ id \in Nat
  BY <1>1, <1>2 DEF DeleteRow, Local
<1>4. PICK l : Onward(h, l)
  <2>1. CASE m.gone = {id}
    BY <1>2, <2>1, RespondOnward
  <2>2. CASE m.gone # {id}
    <3>1. PICK l : l = [m EXCEPT !.gone = m.gone \ {id}]
      OBVIOUS
    <3>2. m.gone \ {id} \in SUBSET Nat /\ m.gone \ {id} \subseteq m.gone
      BY <1>1 DEF Local
    <3>3. l \in Local
      BY <1>1, <3>1, <3>2 DEF Local
    <3>4. /\ l.at = "delete" /\ l.k = m.k /\ l.trades = m.trades /\ l.stp = m.stp
          /\ l.gone = m.gone \ {id}
      BY <1>1, <3>1, <3>3 DEF Local
    <3>5. HandlerShape(l)
      BY <1>1, <3>3, <3>4 DEF HandlerShape, Carrying
    <3>6. local' = [local EXCEPT ![h] = l]
      BY <1>2, <2>2, <3>1
    <3> QED
      BY <1>1, <3>2, <3>4, <3>5, <3>6, KeepOnward
  <2> QED
    BY <2>1, <2>2
<1>5. ~Carrying(local[h]) /\ WillDelete(local[h], id)
  BY <1>1, <1>2 DEF Carrying, WillDelete
<1>6. Dead(id)
  BY <1>3, <1>5 DEF TradingInv, CoreInv, WritesInv
<1>7. RowsMove(h, l) /\ RowsInv'
  BY <1>2, <1>3, <1>6, DeleteMoves, SameRows
<1> QED
  BY <1>3, <1>4, <1>5, <1>7, WriteStep

----------------------------------------------------------------------------
(* The steps that change the book. *)

\* Between steps of the matching loop every id in the book is settled.
LEMMA RestingSettled ==
    ASSUME ShapeInv, NEW o \in resting
    PROVE  Settled(o.id)
  BY DEF ShapeInv, BookWellFormed, QueueInIdOrder, TakerFresh, Settled

\* cancel_order and cancel_all_orders: what leaves an idle book is dead.
LEMMA CancelInv ==
    ASSUME TradingInv, NEW h \in Handlers,
           \/ \E o \in resting : CancelOne(h, o)
           \/ \E u \in Users : CancelEvery(h, u)
    PROVE  TradingInv'
<1>1. /\ local[h].at = "idle" /\ local[h] = NoRequest /\ phase = "idle"
      /\ UNCHANGED <<holder, rows, unsaved, tradeRows, seqNum, sent, crashes>>
      /\ UNCHANGED <<pushes, nextOrderId, nextTradeId, recent, stpHits, now, attestedMs,
                     phase, taker, trades, stp>>
      /\ resting' \subseteq resting
  BY DEF CancelOne, CancelEvery, LockFree, CancelOrder, CancelAll, At, pgVars, p2pVars,
         TradingInv, CoreInv, ShapesInv, HandlerShape
<1>2. PICK ids : /\ local' = [local EXCEPT ![h] =
                                [local[h] EXCEPT !.at = "delete", !.gone = ids]]
                 /\ \A id \in ids : \E o \in resting : o.id = id /\ o \notin resting'
  <2> DEFINE Gone(ids) ==
        /\ local' = [local EXCEPT ![h] = [local[h] EXCEPT !.at = "delete", !.gone = ids]]
        /\ \A id \in ids : \E o \in resting : o.id = id /\ o \notin resting'
  <2>1. ASSUME NEW o \in resting, CancelOne(h, o)
        PROVE  \E ids : Gone(ids)
    <3>1. Gone({o.id})
      BY <2>1 DEF CancelOne, CancelOrder, Cancelled, Update
    <3> HIDE DEF Gone
    <3> QED
      BY <3>1
  <2>2. ASSUME NEW u \in Users, CancelEvery(h, u)
        PROVE  \E ids : Gone(ids)
    <3>1. Gone({o.id : o \in {r \in resting : r.user = u}})
      BY <2>2 DEF CancelEvery, CancelAll, Cancelled, Update
    <3> HIDE DEF Gone
    <3> QED
      BY <3>1
  <2> HIDE DEF Gone
  <2>3. \E ids : Gone(ids)
    BY <2>1, <2>2
  <2> QED
    BY <2>3 DEF Gone
<1>3. ShapeInv /\ TypeOK /\ resting \subseteq Order
  BY DEF TradingInv, CoreInv, ShapeInv, TypeOK
<1>4. ShapeInv'
  <2>1. now' \in Nat /\ attestedMs' \in {0, 1}
    BY <1>1, <1>3 DEF TypeOK
  <2> QED
    BY <1>1, <1>3, <2>1, ShrinkInd
<1>5. ids \subseteq Nat
  BY <1>2, <1>3 DEF Order
<1>6. PICK l : l = [NoRequest EXCEPT !.at = "delete", !.gone = ids]
  OBVIOUS
<1>7. /\ l \in Local /\ l.at = "delete" /\ l.stp = <<>> /\ l.trades = <<>>
      /\ l.gone = ids /\ l.k = 1
  BY <1>5, <1>6, NoRequestShape DEF Local, Labels
<1>8. HandlerShape(l) /\ local' = [local EXCEPT ![h] = l]
  BY <1>1, <1>2, <1>6, <1>7 DEF HandlerShape, Carrying
<1>9. BookMoves
  <2>1. nextOrderId \in Nat /\ \A o \in resting : o.filled \in Nat
    BY <1>3 DEF TypeOK, Order
  <2>2. \A id \in Nat : Settled(id) => Settled(id)'
    BY <1>1 DEF Settled
  <2>3. \A o \in resting' : o \in resting /\ Same(o, o) /\ o.filled <= o.filled
    BY <1>1, <2>1 DEF Same
  <2> QED
    BY <1>1, <2>1, <2>2, <2>3 DEF BookMoves
<1>10. \A id \in ids : Dead(id)'
  <2> SUFFICES ASSUME NEW id \in ids PROVE Dead(id)'
    OBVIOUS
  <2>1. PICK o \in resting : o.id = id /\ o \notin resting'
    BY <1>2
  <2>2. Settled(id) /\ id \in Nat
    BY <1>3, <1>5, <2>1, RestingSettled
  <2>3. \A p \in resting' : p.id # id
    BY <1>1, <1>3, <2>1 DEF ShapeInv, BookWellFormed, QueueInIdOrder
  <2> QED
    BY <1>9, <2>2, <2>3 DEF Dead, BookMoves
<1>11. ~Carrying(l) /\ ~Carrying(local[h]) /\ DOMAIN l.trades = {} /\ DOMAIN l.stp = {}
  BY <1>1, <1>7 DEF Carrying
<1>12. CarryMove(h, l)
  BY <1>1, <1>3, <1>11, RestingSettled DEF CarryMove
<1>13. WritesMove(h, l)
  BY <1>7, <1>10, <1>11 DEF WritesMove, WillDelete, WillSet, StpDeletes, StpSets
<1>14. RowsMove(h, l) /\ RowsInv'
  BY <1>1, SameRows
<1>15. CoreInv'
  <2>1. /\ ShapesInv' /\ WritesInv' /\ MakersInv' /\ CarriedInv' /\ CopiesInv'
        /\ NoRestingOrderLost' /\ ReportInv'
    BY <1>1, <1>4, <1>8, <1>9, <1>12, <1>13, <1>14, HandlerStep
  <2>2. LiveInv'
    BY <1>1 DEF TradingInv, CoreInv, LiveInv
  <2> QED
    BY <1>4, <1>14, <2>1, <2>2 DEF CoreInv
<1>16. TablesInv' /\ LockInv' /\ SentInv' /\ RecordedTradesPublished'
  <2>1. rows' \subseteq Order /\ seqNum' \in Nat \ {0}
    BY <1>1 DEF TradingInv, TablesInv
  <2> QED
    BY <1>1, <1>7, <1>8, <2>1, QuietStep
<1> QED
  BY <1>15, <1>16 DEF TradingInv

\* The request of the lock's holder is an order request.
LEMMA LockedRequest ==
    ASSUME TradingInv, NEW h \in Handlers, local[h].at = "locked"
    PROVE  /\ local[h].req \in OrderRequest /\ ~Carrying(local[h])
           /\ local[h].close => local[h].req.type = "Market"
           /\ \A g \in Handlers : g # h => local[g].at # "locked"
  BY DEF TradingInv, CoreInv, ShapesInv, HandlerShape, LockInv, Carrying

\* The step of a handler in its lock section that leaves its locals alone.
LEMMA InsideStep ==
    ASSUME TradingInv, NEW h \in Handlers, local[h].at = "locked",
           UNCHANGED <<local, holder, pgVars, p2pVars, crashes>>,
           ShapeInv', BookMoves, LiveInv', \A o \in resting' : Settled(o.id),
           UNCHANGED <<trades, stp>> \/ ReportInv',
           local[h].close => taker'.type = "Market"
    PROVE  TradingInv'
<1>1. UNCHANGED <<rows, unsaved, tradeRows, seqNum, sent>>
  BY DEF pgVars, p2pVars
<1>2. PICK l : l = local[h] /\ HandlerShape(l) /\ ~Carrying(l)
  BY LockedRequest DEF TradingInv, CoreInv, ShapesInv
<1>3. local' = [local EXCEPT ![h] = l]
  <2>1. local \in [Handlers -> Local]
    BY DEF TradingInv, CoreInv, ShapesInv
  <2> QED
    BY <1>2, <2>1
<1>4. RowsMove(h, l) /\ RowsInv'
  BY <1>1, SameRows
<1>5. CarryMove(h, l)
  BY <1>2 DEF CarryMove
<1>6. WritesMove(h, l)
  <2>1. ASSUME NEW i \in DOMAIN l.trades
        PROVE  l.trades[i].maker < nextOrderId'
    <3>1. l \in Local /\ l.trades \in Seq(Trade) /\ l.trades[i].maker < nextOrderId
      BY <1>2 DEF HandlerShape, Local, TradingInv, CoreInv, MakersInv
    <3>2. l.trades[i] \in Trade
      BY <3>1
    <3>3. l.trades[i].maker \in Nat /\ nextOrderId \in Nat /\ nextOrderId' \in Nat
      BY <3>2 DEF Trade, TradingInv, CoreInv, ShapeInv, TypeOK
    <3> QED
      BY <3>1, <3>3 DEF BookMoves
  <2> QED
    BY <1>2, <2>1 DEF WritesMove
<1>7. CoreInv'
  BY <1>2, <1>3, <1>4, <1>5, <1>6, HandlerStep DEF CoreInv
<1>8. LockInv'
  BY LockedRequest DEF LockInv, TradingInv
<1>9. TablesInv' /\ SentInv' /\ RecordedTradesPublished'
  BY <1>1 DEF TradingInv, TablesInv, SentInv, RecordedTradesPublished
<1> QED
  BY <1>7, <1>8, <1>9 DEF TradingInv

\* The order enters the book's matching loop, under a fresh id.
LEMMA EnterBookInv ==
    ASSUME TradingInv, NEW h \in Handlers, EnterBook(h)
    PROVE  TradingInv'
<1>1. PICK r : r = local[h].req /\ r \in OrderRequest /\ local[h].at = "locked"
               /\ (local[h].close => r.type = "Market") /\ Submit(r)
  BY LockedRequest DEF EnterBook, At
<1>2. /\ phase = "idle" /\ phase' = "matching" /\ nextOrderId' = nextOrderId + 1
      /\ resting' = resting /\ trades' = <<>> /\ stp' = <<>> /\ taker' = NewOrder(r)
  BY <1>1 DEF Submit, Accepts
<1>3. ShapeInv /\ TypeOK /\ nextOrderId \in Nat /\ resting \subseteq Order
  BY DEF TradingInv, CoreInv, ShapeInv, TypeOK
<1>4. ShapeInv'
  BY <1>1, <1>3, SubmitInd
<1>5. taker'.id = nextOrderId /\ taker'.type = r.type
  BY <1>1, <1>2, <1>3, NewOrderType
<1>6. BookMoves
  <2>1. \A id \in Nat : Settled(id) => Settled(id)'
    BY <1>2, <1>3, <1>5 DEF Settled
  <2>2. \A o \in resting : Same(o, o) /\ o.filled <= o.filled
    BY <1>3 DEF Same, Order
  <2> QED
    BY <1>2, <1>3, <2>1, <2>2 DEF BookMoves
<1>7. ReportInv'
  <2>1. DOMAIN trades' = {} /\ DOMAIN stp' = {}
    BY <1>2
  <2> QED
    BY <2>1 DEF ReportInv, StpDeletes, StpSets
<1>8. LiveInv' /\ \A o \in resting' : Settled(o.id)
  BY <1>2, <1>3, RestingSettled DEF LiveInv, TradingInv, CoreInv
<1>9. UNCHANGED <<local, holder, pgVars, p2pVars, crashes>>
  BY DEF EnterBook
<1> QED
  BY <1>1, <1>4, <1>5, <1>6, <1>7, <1>8, <1>9, InsideStep

\* An iteration of the matching loop: what it reports of the maker is true of
\* the maker it leaves behind.
LEMMA MatchingInv ==
    ASSUME TradingInv, NEW h \in Handlers, Matching(h)
    PROVE  TradingInv'
<1>1. local[h].at = "locked" /\ MatchStep /\ UNCHANGED <<local, holder, pgVars, p2pVars, crashes>>
  BY DEF Matching, At
<1>2. ShapeInv /\ TypeOK /\ nextOrderId \in Nat /\ resting \subseteq Order
  BY DEF TradingInv, CoreInv, ShapeInv, TypeOK
<1>3. ShapeInv' /\ TypeOK'
  BY <1>1, <1>2, MatchInd DEF ShapeInv
<1>4. PICK m, m2, n : MakerStep(m, m2, n)
  BY <1>1, <1>2, MatchShape
<1>5. /\ m \in resting /\ m \in Order /\ m2 \in Order /\ m2.id = m.id /\ Same(m, m2)
      /\ n \in Nat /\ m2.filled = m.filled + n /\ m2.size = m.size
      /\ m.filled <= m2.filled /\ m2.filled <= m2.size
      /\ resting' = BookAfter(m, m2)
      /\ m2.status \in {m.status, "Filled", "PartiallyFilled"} /\ MakerReported(m, m2)
      /\ taker'.id = taker.id /\ taker'.type = taker.type
  <2>1. n \in Nat /\ n <= Remaining(m) /\ m2.filled = m.filled + n /\ m \in Order
    BY <1>2, <1>4 DEF MakerStep
  <2>2. m.filled <= m2.filled /\ m2.filled <= m.size
    BY <2>1 DEF Remaining, Order
  <2> QED
    BY <1>4, <2>1, <2>2 DEF MakerStep, Same
<1>6. UNCHANGED <<nextOrderId, phase>> /\ phase = "matching"
  BY <1>1 DEF MatchStep
<1>7. \A o \in resting' : (o \in resting /\ o # m) \/ (o = m2 /\ m2.filled < m2.size)
  BY <1>5 DEF BookAfter, Remaining, Order
<1>s. \A o \in resting' : Settled(o.id)
  BY <1>2, <1>5, <1>7, RestingSettled
<1>8. BookMoves
  <2>1. \A id \in Nat : Settled(id) => Settled(id)'
    BY <1>5, <1>6 DEF Settled
  <2>2. \A o \in resting : Same(o, o) /\ o.filled <= o.filled
    BY <1>2 DEF Same, Order
  <2>3. \A o \in resting' : \E p \in resting : p.id = o.id /\ Same(p, o) /\ p.filled <= o.filled
    BY <1>5, <1>7, <2>2
  <2> QED
    BY <1>2, <1>6, <2>1, <2>3 DEF BookMoves
<1>9. LiveInv'
  BY <1>5, <1>7 DEF LiveInv, TradingInv, CoreInv
<1>10. CopiesMove /\ Copies' = Copies
  <2>1. Copies' = Copies
    BY <1>1 DEF Copies, pgVars
  <2> QED
    BY <2>1 DEF CopiesMove
<1>11. /\ \A id \in Nat : Dead(id) => Dead(id)'
       /\ \A id, f \in Nat : Claim(id, f) => Claim(id, f)'
  BY <1>2, <1>3, <1>8, <1>10, DeadStays, ClaimStays
<1>12. m.id \in Nat /\ m2.filled \in Nat /\ Settled(m.id)' /\ m.id < nextOrderId
  <2>1. m.id \in Nat /\ m2.filled \in Nat /\ Settled(m.id)
    BY <1>2, <1>5, RestingSettled DEF Order
  <2> QED
    BY <1>8, <2>1 DEF BookMoves, Settled
<1>u. \A o \in resting : o.id = m.id => o = m
  BY <1>5 DEF TradingInv, CoreInv, ShapeInv, BookWellFormed, QueueInIdOrder
<1>13. m2.filled >= m2.size => Dead(m.id)'
  <2> SUFFICES ASSUME m2.filled >= m2.size PROVE \A o \in resting' : o.id # m.id
    BY <1>12 DEF Dead
  <2>1. ~(m2.filled < m2.size)
    BY <1>5 DEF Order
  <2> QED
    BY <1>7, <1>u, <2>1
<1>14. ~(m2.filled >= m2.size) => Claim(m.id, m2.filled)'
  <2> SUFFICES ASSUME ~(m2.filled >= m2.size) PROVE Claim(m.id, m2.filled)'
    OBVIOUS
  <2>1. m2.filled < m2.size
    BY <1>5 DEF Order
  <2>2. \A o \in resting' : o.id = m.id => m2.filled <= o.filled
    BY <1>7, <1>12, <1>u
  <2>3. \A c \in Copies : c.id = m.id => m2.filled < c.size
    BY <1>5, <2>1 DEF TradingInv, CoreInv, CopiesInv, CopyOK, Same
  <2> QED
    BY <1>10, <1>12, <2>2, <2>3 DEF Claim
<1>15. ReportInv'
  <2>1. CASE /\ stp' = stp
             /\ \E t \in Trade : t.maker = m.id /\ trades' = Append(trades, t)
    <3>1. PICK t \in Trade : t.maker = m.id /\ trades' = Append(trades, t)
      BY <2>1
    <3>2. trades \in Seq(Trade)
      BY <1>2 DEF TypeOK
    <3>3. \A i \in DOMAIN trades' : trades'[i].maker < nextOrderId'
      <4> SUFFICES ASSUME NEW i \in DOMAIN trades' PROVE trades'[i].maker < nextOrderId
        BY <1>6
      <4>1. CASE i \in DOMAIN trades
        BY <3>1, <3>2, <4>1 DEF TradingInv, CoreInv, ReportInv
      <4>2. CASE i = Len(trades) + 1
        BY <1>12, <3>1, <3>2, <4>2
      <4> QED
        BY <3>1, <3>2, <4>1, <4>2
    <3> QED
      BY <1>11, <2>1, <3>3 DEF TradingInv, CoreInv, ReportInv
  <2>2. CASE /\ trades' = trades
             /\ \E e \in StpEntry :
                  /\ e.id = m.id /\ e.filled = m2.filled
                  /\ e.status = IF m2.filled >= m2.size THEN "Cancelled" ELSE m.status
                  /\ stp' = Append(stp, e)
    <3>1. PICK e \in StpEntry :
                  /\ e.id = m.id /\ e.filled = m2.filled
                  /\ e.status = IF m2.filled >= m2.size THEN "Cancelled" ELSE m.status
                  /\ stp' = Append(stp, e)
      BY <2>2
    <3>2. stp \in Seq(StpEntry)
      BY <1>2 DEF TypeOK
    <3>3. \A i \in DOMAIN stp' : (i \in DOMAIN stp /\ stp'[i] = stp[i]) \/ stp'[i] = e
      BY <3>1, <3>2
    <3>4. m.status # "Cancelled"
      BY <1>5 DEF TradingInv, CoreInv, LiveInv
    <3>5. ASSUME NEW id \in Nat, StpDeletes(stp', id)
          PROVE  Dead(id)'
      <4>1. PICK i \in DOMAIN stp' : stp'[i].status = "Cancelled" /\ stp'[i].id = id
        BY <3>5 DEF StpDeletes
      <4>2. CASE i \in DOMAIN stp /\ stp'[i] = stp[i]
        <5>1. Dead(id)
          BY <4>1, <4>2 DEF TradingInv, CoreInv, ReportInv, StpDeletes
        <5> QED
          BY <1>11, <5>1
      <4>3. CASE stp'[i] = e
        BY <1>13, <3>1, <3>4, <4>1, <4>3
      <4> QED
        BY <3>3, <4>2, <4>3
    <3>6. ASSUME NEW id \in Nat, NEW f \in Nat, StpSets(stp', id, f)
          PROVE  Claim(id, f)'
      <4>1. PICK i \in DOMAIN stp' :
                stp'[i].status # "Cancelled" /\ stp'[i].id = id /\ stp'[i].filled = f
        BY <3>6 DEF StpSets
      <4>2. CASE i \in DOMAIN stp /\ stp'[i] = stp[i]
        <5>1. Claim(id, f)
          BY <4>1, <4>2 DEF TradingInv, CoreInv, ReportInv, StpSets
        <5> QED
          BY <1>11, <5>1
      <4>3. CASE stp'[i] = e
        BY <1>14, <3>1, <4>1, <4>3
      <4> QED
        BY <3>3, <4>2, <4>3
    <3>7. \A i \in DOMAIN trades' : trades'[i].maker < nextOrderId'
      BY <1>6, <2>2 DEF TradingInv, CoreInv, ReportInv
    <3> QED
      BY <3>5, <3>6, <3>7 DEF ReportInv
  <2> QED
    BY <1>5, <2>1, <2>2 DEF MakerReported
<1>16. local[h].close => taker'.type = "Market"
  BY <1>1, <1>5, <1>6 DEF TradingInv, LockInv
<1> QED
  BY <1>1, <1>3, <1>8, <1>9, <1>15, <1>16, <1>s, InsideStep

\* submit_order returns and the lock is released: the handler carries the
\* order the book returned, or answers a close that traded nothing.
LEMMA ReturnStep ==
    ASSUME TradingInv, NEW h \in Handlers, local[h].at = "locked", Return(h),
           ShapeInv', BookMoves, LiveInv', phase' = "idle",
           UNCHANGED <<trades, stp>> \/ (trades' = <<>> /\ stp' = <<>>),
           NEW c \in Order, taker' = c, ~Settled(c.id), CopyOK(c)',
           \A o \in resting' : o.id = c.id => c.status = "Open" /\ ~local[h].close,
           c.status = "Open" /\ Remaining(c) > 0 => c.price > 0,
           \A o \in resting' : ~Settled(o.id) => o.id = c.id
    PROVE  TradingInv'
<1>1. PICK m : m = local[h] /\ m \in Local /\ HandlerShape(m) /\ m.at = "locked"
  BY DEF TradingInv, CoreInv, ShapesInv
<1>2. PICK ts, es : ts = trades' /\ es = stp'
  OBVIOUS
<1>3. /\ ts \in Seq(Trade) /\ es \in Seq(StpEntry) /\ TypeOK /\ TypeOK'
      /\ nextOrderId \in Nat /\ nextOrderId' \in Nat
  BY <1>2 DEF ShapeInv, TypeOK, TradingInv, CoreInv
<1>4. /\ holder' = Nobody /\ UNCHANGED <<rows, unsaved, tradeRows, seqNum, sent, crashes>>
      /\ IF m.close /\ ts = <<>> THEN local' = [local EXCEPT ![h] = NoRequest]
         ELSE local' = [local EXCEPT ![h] =
                [m EXCEPT !.at = IF ts = <<>> THEN "rest" ELSE "settle",
                          !.order = c, !.trades = ts, !.stp = es]]
  BY <1>1, <1>2 DEF Return, Respond, Update, pgVars, p2pVars
<1>5. PICK l : /\ local' = [local EXCEPT ![h] = l] /\ HandlerShape(l)
               /\ l.at \in {"idle", "rest", "settle"}
               /\ l = NoRequest \/ (/\ Carrying(l) /\ l.order = c /\ l.close = m.close
                                    /\ l.trades = ts /\ l.stp = es /\ l.gone = m.gone)
               /\ m.close \/ Carrying(l)
  <2>1. CASE m.close /\ ts = <<>>
    BY <1>4, <2>1, NoRequestShape
  <2>2. CASE ~(m.close /\ ts = <<>>)
    <3>1. PICK at : at = IF ts = <<>> THEN "rest" ELSE "settle"
      OBVIOUS
    <3>2. PICK l : l = [m EXCEPT !.at = at, !.order = c, !.trades = ts, !.stp = es]
      OBVIOUS
    <3>3. at \in Labels /\ at \in {"rest", "settle"}
      BY <3>1 DEF Labels
    <3>4. l \in Local
      BY <1>1, <1>3, <3>2, <3>3 DEF Local
    <3>5. /\ l.at = at /\ l.order = c /\ l.trades = ts /\ l.stp = es
          /\ l.k = m.k /\ l.close = m.close /\ l.gone = m.gone
      BY <1>1, <3>2, <3>4 DEF Local
    <3>6. at = "settle" => 1 <= Len(ts)
      BY <1>3, <3>1
    <3>7. HandlerShape(l)
      BY <1>1, <3>3, <3>4, <3>5, <3>6 DEF HandlerShape, Carrying
    <3>8. local' = [local EXCEPT ![h] = l]
      BY <1>4, <2>2, <3>1, <3>2
    <3> QED
      BY <3>3, <3>5, <3>7, <3>8 DEF Carrying
  <2> QED
    BY <2>1, <2>2
<1>6. local'[h] = l /\ \A g \in Handlers : g # h => local'[g] = local[g]
  BY <1>5 DEF TradingInv, CoreInv, ShapesInv
<1>7. CopiesMove
  <2>1. Copies' \subseteq Copies \cup {c}
    BY <1>4, <1>5, <1>6, NoRequestShape DEF Copies
  <2> QED
    BY <2>1 DEF CopiesMove
<1>8. /\ \A id \in Nat : Dead(id) => Dead(id)'
      /\ \A id, f \in Nat : Claim(id, f) => Claim(id, f)'
  BY <1>3, <1>7, DeadStays, ClaimStays
<1>9. /\ \A i \in DOMAIN ts : ts[i].maker < nextOrderId'
      /\ \A id \in Nat : StpDeletes(es, id) => Dead(id)'
      /\ \A id, f \in Nat : StpSets(es, id, f) => Claim(id, f)'
  <2>1. CASE UNCHANGED <<trades, stp>>
    <3>1. ASSUME NEW i \in DOMAIN trades PROVE trades[i].maker < nextOrderId'
      <4>1. trades[i] \in Trade /\ trades[i].maker < nextOrderId
        BY <1>3 DEF TypeOK, TradingInv, CoreInv, ReportInv
      <4>2. trades[i].maker \in Nat
        BY <4>1 DEF Trade
      <4> QED
        BY <1>3, <4>1, <4>2 DEF BookMoves
    <3> QED
      BY <1>2, <1>8, <2>1, <3>1 DEF TradingInv, CoreInv, ReportInv
  <2>2. CASE trades' = <<>> /\ stp' = <<>>
    <3>1. DOMAIN ts = {} /\ DOMAIN es = {}
      BY <1>2, <2>2
    <3> QED
      BY <3>1 DEF StpDeletes, StpSets
  <2> QED
    BY <2>1, <2>2
<1>10. ReportInv'
  BY <1>2, <1>9 DEF ReportInv
<1>11. WritesMove(h, l)
  <2>1. CASE l = NoRequest
    <3>1. DOMAIN l.trades = {}
      BY <2>1, NoRequestShape
    <3> QED
      BY <2>1, <3>1, NoRequestShape DEF WritesMove
  <2>2. CASE Carrying(l) /\ l.trades = ts /\ l.stp = es /\ l.gone = m.gone
    <3>1. l.at # "write"
      BY <2>2 DEF Carrying
    <3> QED
      BY <1>1, <1>9, <2>2, <3>1 DEF WritesMove, WillDelete, WillSet
  <2> QED
    BY <1>5, <2>1, <2>2
<1>12. ~Carrying(local[h])
  BY <1>1 DEF Carrying
<1>13. CarryMove(h, l)
  <2>1. Carrying(l) => l.order = c /\ l.close = m.close
    BY <1>5, NoRequestShape
  <2>2. Carrying(l) => Returned(l)'
    BY <1>1, <2>1 DEF Returned
  <2>3. \A o \in resting' : ~Settled(o.id) => Carrying(l) /\ l.order.id = o.id
    BY <1>1, <1>5, <2>1
  <2> QED
    BY <1>12, <2>1, <2>2, <2>3 DEF CarryMove
<1>14. RowsMove(h, l) /\ RowsInv'
  BY <1>4, SameRows
<1>15. CoreInv'
  BY <1>5, <1>10, <1>11, <1>13, <1>14, HandlerStep DEF CoreInv
<1>16. TablesInv' /\ LockInv' /\ SentInv' /\ RecordedTradesPublished'
  <2>1. rows' \subseteq Order /\ seqNum' \in Nat \ {0}
    BY <1>4 DEF TradingInv, TablesInv
  <2> QED
    BY <1>1, <1>4, <1>5, <2>1, QuietStep
<1> QED
  BY <1>15, <1>16 DEF TradingInv

\* The end of a submission: an order that rests is the one returned, Open, to
\* a handler that is not a close.
LEMMA LeaveBookInv ==
    ASSUME TradingInv, NEW h \in Handlers, LeaveBook(h)
    PROVE  TradingInv'
<1>1. local[h].at = "locked" /\ Finish /\ Return(h)
  BY DEF LeaveBook, At
<1>2. ShapeInv /\ TypeOK /\ nextOrderId \in Nat /\ resting \subseteq Order /\ pushes \in Nat
  BY DEF TradingInv, CoreInv, ShapeInv, TypeOK
<1>3. ShapeInv'
  BY <1>1, <1>2, FinishInd
<1>4. /\ phase = "matching" /\ taker \in Order /\ taker.status = "Open"
      /\ taker.filled <= taker.size /\ taker.id = nextOrderId - 1
      /\ (taker.type = "Limit" => taker.price > 0) /\ \A o \in resting : o.id # taker.id
  BY <1>1, <1>2 DEF Finish, ShapeInv, TypeOK, TakerFresh
<1>5. /\ phase' = "idle" /\ UNCHANGED <<nextOrderId, trades, stp>>
      /\ taker' = [taker EXCEPT !.status = FinalStatus(taker)]
  BY <1>1 DEF Finish
<1>6. PICK c : c = [taker EXCEPT !.status = FinalStatus(taker)]
  OBVIOUS
<1>7. /\ c \in Order /\ taker' = c /\ c.id = taker.id /\ Same(c, taker)
      /\ c.filled = taker.filled /\ c.status = FinalStatus(taker)
      /\ c.type = taker.type
  BY <1>4, <1>5, <1>6, FinalStatusType DEF Order, Same
<1>8. c.status = "Open" => c.type = "Limit" /\ c.price > 0
  BY <1>4, <1>7 DEF FinalStatus, Same
<1>9. PICK n : n = [taker EXCEPT !.arr = pushes]
  OBVIOUS
<1>10. /\ n \in Order /\ n.id = taker.id /\ Same(n, taker) /\ n.filled = taker.filled
       /\ n.status = "Open"
  BY <1>2, <1>4, <1>9 DEF Order, Same
<1>11. \/ resting' = resting
       \/ resting' = resting \cup {n} /\ Rests(taker)
  BY <1>1, <1>9 DEF Finish
<1>12. ~Settled(c.id)
  BY <1>4, <1>7 DEF Settled
<1>13. /\ \A o \in resting : Settled(o.id) /\ Same(o, o) /\ o.filled <= o.filled
  BY <1>2, RestingSettled DEF Same, Order
<1>14. BookMoves
  <2>1. \A id \in Nat : Settled(id) => Settled(id)'
    BY <1>5 DEF Settled
  <2>2. \A o \in resting' : Settled(o.id) =>
            \E p \in resting : p.id = o.id /\ Same(p, o) /\ p.filled <= o.filled
    BY <1>7, <1>10, <1>11, <1>12, <1>13
  <2> QED
    BY <1>2, <1>5, <2>1, <2>2 DEF BookMoves
<1>15. LiveInv'
  BY <1>10, <1>11 DEF LiveInv, TradingInv, CoreInv
<1>16. \A o \in resting' : o.id = c.id => o = n /\ Rests(taker)
  BY <1>4, <1>7, <1>11
<1>17. CopyOK(c)'
  <2>1. Settled(c.id)'
    BY <1>2, <1>4, <1>5, <1>7 DEF Settled
  <2>2. Same(c, n) /\ c.filled <= n.filled
    BY <1>4, <1>7, <1>10 DEF Same, Order
  <2> QED
    BY <1>16, <2>1, <2>2 DEF CopyOK
<1>18. Rests(taker) => c.status = "Open" /\ ~local[h].close
  <2>1. Rests(taker) => taker.type = "Limit"
    BY DEF Rests
  <2>2. local[h].close => taker.type = "Market"
    BY <1>1, <1>4 DEF TradingInv, LockInv
  <2> QED
    BY <1>4, <1>7, <2>1, <2>2, FinalStatusType
<1>19. \A o \in resting' : ~Settled(o.id) => o.id = c.id
  BY <1>7, <1>10, <1>11, <1>13
<1> QED
  BY <1>1, <1>3, <1>5, <1>7, <1>8, <1>12, <1>14, <1>15, <1>16, <1>17, <1>18, <1>19,
     ReturnStep

\* A killed FOK order comes back Cancelled and is not in the book.
LEMMA KilledByBookInv ==
    ASSUME TradingInv, NEW h \in Handlers, KilledByBook(h)
    PROVE  TradingInv'
<1>1. PICK r : r = local[h].req /\ r \in OrderRequest /\ local[h].at = "locked"
               /\ KillFok(r) /\ Return(h)
  BY LockedRequest DEF KilledByBook, At
<1>2. ShapeInv /\ TypeOK /\ nextOrderId \in Nat /\ resting \subseteq Order
  BY DEF TradingInv, CoreInv, ShapeInv, TypeOK
<1>3. ShapeInv'
  BY <1>1, <1>2, KillFokInd
<1>4. /\ phase = "idle" /\ phase' = "idle" /\ nextOrderId' = nextOrderId + 1
      /\ resting' = resting /\ trades' = <<>> /\ stp' = <<>>
      /\ taker' = [NewOrder(r) EXCEPT !.status = "Cancelled"]
  BY <1>1 DEF KillFok, Accepts
<1>5. PICK c : c = [NewOrder(r) EXCEPT !.status = "Cancelled"]
  OBVIOUS
<1>6. c \in Order /\ taker' = c /\ c.id = nextOrderId /\ c.status = "Cancelled"
  <2>1. NewOrder(r) \in Order /\ NewOrder(r).id = nextOrderId /\ c \in Order
    BY <1>1, <1>2, <1>5, NewOrderType
  <2> QED
    BY <1>4, <1>5, <2>1 DEF Order
<1>7. \A o \in resting : /\ Settled(o.id) /\ o.id # nextOrderId /\ Same(o, o)
                         /\ o.filled <= o.filled
  BY <1>2, RestingSettled DEF Settled, Same, Order
<1>8. BookMoves
  <2>1. \A id \in Nat : Settled(id) => Settled(id)'
    BY <1>2, <1>4 DEF Settled
  <2> QED
    BY <1>2, <1>4, <1>7, <2>1 DEF BookMoves
<1>9. LiveInv'
  BY <1>4 DEF LiveInv, TradingInv, CoreInv
<1>10. ~Settled(c.id) /\ CopyOK(c)'
  BY <1>2, <1>4, <1>6, <1>7 DEF Settled, CopyOK
<1> QED
  BY <1>1, <1>3, <1>4, <1>6, <1>7, <1>8, <1>9, <1>10, ReturnStep

----------------------------------------------------------------------------
(* Restart. *)

\* A nonempty set of natural numbers below some bound has a greatest element.
LEMMA MaxExists ==
    ASSUME NEW S \in SUBSET Nat, S # {}, NEW b \in Nat, \A x \in S : x < b
    PROVE  Max(S) \in S /\ \A y \in S : y <= Max(S)
<1> DEFINE D == {b - x : x \in S}
<1>1. D \subseteq Nat /\ D # {}
  <2>1. \A x \in S : b - x \in Nat
    OBVIOUS
  <2> QED
    BY <2>1
<1>2. PICK d \in D : \A e \in D : ~(<<e, d>> \in OpToRel(<, Nat))
  BY <1>1, NatLessThanWellFounded, WFMin
<1>3. \A e \in D : ~(e < d)
  BY <1>1, <1>2 DEF OpToRel
<1>4. PICK x \in S : d = b - x
  OBVIOUS
<1>5. \A y \in S : x >= y
  <2> SUFFICES ASSUME NEW y \in S PROVE x >= y
    OBVIOUS
  <2>1. b - y \in D
    OBVIOUS
  <2>2. ~(b - y < b - x)
    BY <1>3, <1>4, <2>1
  <2>3. x \in Nat /\ y \in Nat
    OBVIOUS
  <2> QED
    BY <2>2, <2>3
<1>6. \E z \in S : \A y \in S : z >= y
  BY <1>5
<1>7. Max(S) \in S /\ \A y \in S : Max(S) >= y
  BY <1>6 DEF Max
<1> QED
  BY <1>7

\* load_orders numbers the rows in id order.
LEMMA TicketOrder ==
    ASSUME TradingInv
    PROVE  /\ Cardinality(rows) \in Nat
           /\ \A r \in rows : Ticket(r) \in Nat /\ Ticket(r) < Cardinality(rows)
           /\ \A r, q \in rows : r.id < q.id <=> Ticket(r) < Ticket(q)
<1> DEFINE Below(r) == {q \in rows : q.id < r.id}
<1>1. /\ IsFiniteSet(rows) /\ \A r \in rows : r.id \in Nat
      /\ Cardinality(rows) \in Nat
  <2>1. IsFiniteSet(rows) /\ rows \subseteq Order
    BY DEF TradingInv, CoreInv, RowsInv, TablesInv
  <2> QED
    BY <2>1, FS_CardinalityType DEF Order
<1>2. \A r \in rows : Ticket(r) = Cardinality(Below(r))
  BY DEF Ticket
<1>3. ASSUME NEW S \in SUBSET rows, NEW T \in SUBSET S
      PROVE  /\ Cardinality(S) \in Nat /\ Cardinality(T) \in Nat
             /\ Cardinality(T) <= Cardinality(S)
             /\ T # S => Cardinality(T) < Cardinality(S)
  <2>1. IsFiniteSet(S)
    BY <1>1, FS_Subset
  <2>2. /\ IsFiniteSet(T) /\ Cardinality(T) <= Cardinality(S)
        /\ Cardinality(S) = Cardinality(T) => S = T
    BY <2>1, FS_Subset
  <2>3. Cardinality(S) \in Nat /\ Cardinality(T) \in Nat
    BY <2>1, <2>2, FS_CardinalityType
  <2> QED
    BY <2>2, <2>3
<1>4. ASSUME NEW r \in rows
      PROVE  Ticket(r) \in Nat /\ Ticket(r) < Cardinality(rows)
  <2>1. Below(r) \in SUBSET rows /\ r \notin Below(r)
    BY <1>1
  <2> HIDE DEF Below
  <2>2. rows \in SUBSET rows /\ Below(r) # rows
    BY <2>1
  <2> QED
    BY <1>2, <1>3, <2>1, <2>2
<1>5. ASSUME NEW r \in rows, NEW q \in rows
      PROVE  r.id < q.id <=> Ticket(r) < Ticket(q)
  <2>1. CASE r.id < q.id
    <3>1. /\ Below(q) \in SUBSET rows /\ Below(r) \in SUBSET Below(q)
          /\ r \in Below(q) /\ r \notin Below(r)
      BY <1>1, <2>1
    <3> HIDE DEF Below
    <3> QED
      BY <1>2, <1>3, <2>1, <3>1
  <2>2. CASE ~(r.id < q.id)
    <3>1. Below(r) \in SUBSET rows /\ Below(q) \in SUBSET Below(r)
      BY <1>1, <2>2
    <3> HIDE DEF Below
    <3>2. Cardinality(Below(q)) <= Cardinality(Below(r))
      BY <1>3, <3>1
    <3> QED
      BY <1>2, <1>4, <2>2, <3>2
  <2> QED
    BY <2>1, <2>2
<1> QED
  BY <1>1, <1>4, <1>5

\* The restart: the reloaded book is well formed, and its rows are its copies.
LEMMA RestartInv ==
    ASSUME TradingInv, Restart
    PROVE  TradingInv'
<1> DEFINE Loaded(r) == [r EXCEPT !.arr = Ticket(r)]
<1>1. /\ crashes < MaxCrashes /\ crashes' = crashes + 1
      /\ resting' = {Loaded(r) : r \in rows} /\ pushes' = Cardinality(rows)
      /\ nextOrderId' = IF rows = {} THEN 1 ELSE Max({r.id : r \in rows}) + 1
      /\ nextTradeId' = 1 /\ recent' = <<>> /\ stpHits' = [u \in Users |-> <<>>]
      /\ attestedMs' = 0 /\ phase' = "idle"
      /\ taker' = NoOrder /\ trades' = <<>> /\ stp' = <<>>
      /\ local' = [g \in Handlers |-> NoRequest] /\ holder' = Nobody /\ seqNum' = 1
      /\ now' = now /\ rows' = rows /\ tradeRows' = tradeRows /\ sent' = sent
  BY DEF Restart, LoadOrders
<1>2. /\ rows \subseteq Order /\ nextOrderId \in Nat /\ now \in Nat
      /\ \A r \in rows : r.id \in Nat \ {0} /\ r.id < nextOrderId
  <2>1. rows \subseteq Order /\ nextOrderId \in Nat /\ now \in Nat
    BY DEF TradingInv, CoreInv, TablesInv, ShapeInv, TypeOK
  <2>2. \A r \in rows : r.id < nextOrderId
    BY DEF TradingInv, CoreInv, CopiesInv, CopyOK, Copies, Settled
  <2> QED
    BY <2>1, <2>2 DEF Order
<1>3. nextOrderId' \in Nat \ {0} /\ \A r \in rows : r.id < nextOrderId'
  <2>1. CASE rows = {}
    BY <1>1, <2>1
  <2>2. CASE rows # {}
    <3> DEFINE Ids == {r.id : r \in rows}
    <3>1. Ids \in SUBSET Nat /\ Ids # {} /\ \A x \in Ids : x < nextOrderId
      BY <1>2, <2>2
    <3>2. nextOrderId' = Max(Ids) + 1 /\ \A r \in rows : r.id \in Ids
      BY <1>1, <2>2
    <3> HIDE DEF Ids
    <3>3. Max(Ids) \in Ids /\ \A y \in Ids : y <= Max(Ids)
      BY <1>2, <3>1, MaxExists
    <3>4. PICK top : top = Max(Ids) /\ top \in Nat
      BY <3>1, <3>3
    <3>5. nextOrderId' = top + 1 /\ \A r \in rows : r.id <= top
      BY <3>2, <3>3, <3>4
    <3> QED
      BY <1>2, <3>4, <3>5
  <2> QED
    BY <2>1, <2>2
<1>4. ASSUME NEW r \in rows
      PROVE  /\ Loaded(r) \in Order /\ Loaded(r).id = r.id /\ Same(r, Loaded(r))
             /\ Loaded(r).filled = r.filled /\ Loaded(r).status = "Open"
             /\ Loaded(r).arr = Ticket(r) /\ Loaded(r).type = "Limit"
             /\ Loaded(r).tif = "Gtc" /\ r.price > 0 /\ r.filled < r.size
             /\ r.filled \in Nat
  <2>1. Ticket(r) \in Nat
    BY TicketOrder
  <2>2. /\ r \in Order /\ r.status = "Open" /\ r.type = "Limit" /\ r.tif = "Gtc"
        /\ r.price > 0 /\ r.filled < r.size
    BY <1>2 DEF TradingInv, CoreInv, RowsInv
  <2> QED
    BY <2>1, <2>2 DEF Order, Same
<1> HIDE DEF Loaded
<1>5. \A o \in resting' : \E r \in rows : o = Loaded(r)
  BY <1>1
<1>6. TypeOK'
  <2>1. resting' \subseteq Order /\ pushes' \in Nat
    BY <1>1, <1>4, <1>5, TicketOrder
  <2>2. stpHits' \in [Users -> Seq(Nat)] /\ <<>> \in Seq(Trade) /\ <<>> \in Seq(StpEntry)
    BY <1>1
  <2> QED
    BY <1>1, <1>2, <1>3, <2>1, <2>2 DEF TypeOK
<1>7. RestingLive'
  BY <1>4, <1>5 DEF RestingLive, Same
<1>8. QueueInIdOrder'
  <2>1. \A o \in resting' : o.id < nextOrderId' /\ o.arr < pushes'
    BY <1>1, <1>3, <1>4, <1>5, TicketOrder
  <2>2. \A o, k \in resting' : o.id < k.id <=> o.arr < k.arr
    BY <1>4, <1>5, TicketOrder
  <2>3. \A o, k \in resting' : o.id = k.id => o = k
    BY <1>4, <1>5 DEF TradingInv, CoreInv, RowsInv
  <2> QED
    BY <2>1, <2>2, <2>3 DEF QueueInIdOrder
<1>9. ShapeInv'
  BY <1>1, <1>6, <1>7, <1>8 DEF ShapeInv, BookWellFormed, TakerFresh
<1>10. \A g \in Handlers : local'[g] = NoRequest
  BY <1>1
<1>11. ShapesInv'
  BY <1>1, <1>10, NoRequestShape DEF ShapesInv
<1>12. WritesInv' /\ CarriedInv' /\ MakersInv'
  <2>1. DOMAIN NoRequest.trades = {}
    BY NoRequestShape
  <2> QED
    BY <1>10, <2>1, NoRequestShape DEF WritesInv, CarriedInv, MakersInv
<1>13. RowsInv'
  BY <1>1 DEF RowsInv, TradingInv, CoreInv
<1>14. CopiesInv'
  <2>1. Copies' = rows
    BY <1>1, <1>10, NoRequestShape DEF Copies
  <2> SUFFICES ASSUME NEW c \in rows PROVE CopyOK(c)'
    BY <2>1 DEF CopiesInv
  <2>2. Settled(c.id)'
    BY <1>1, <1>3 DEF Settled
  <2>3. ASSUME NEW o \in resting', o.id = c.id
        PROVE  Same(c, o) /\ c.filled <= o.filled
    <3>1. PICK r \in rows : o = Loaded(r)
      BY <1>5
    <3>2. r = c
      BY <1>4, <2>3, <3>1 DEF TradingInv, CoreInv, RowsInv
    <3> QED
      BY <1>4, <3>1, <3>2
  <2> QED
    BY <2>2, <2>3 DEF CopyOK
<1>15. ReportInv' /\ LiveInv'
  <2>1. DOMAIN trades' = {} /\ DOMAIN stp' = {}
    BY <1>1
  <2> QED
    BY <1>4, <1>5, <2>1 DEF ReportInv, StpDeletes, StpSets, LiveInv
<1>16. NoRestingOrderLost'
  BY <1>1, <1>4, <1>5 DEF NoRestingOrderLost, HasRow
<1>17. CoreInv'
  BY <1>9, <1>11, <1>12, <1>13, <1>14, <1>15, <1>16 DEF CoreInv
<1>18. TablesInv' /\ RecordedTradesPublished'
  <2>1. crashes' \in 0 .. MaxCrashes
    BY <1>1, TradingAssumption DEF TradingInv, TablesInv
  <2> QED
    BY <1>1, <2>1 DEF TradingInv, TablesInv, RecordedTradesPublished
<1>19. LockInv' /\ SentInv'
  BY <1>10, NoRequestShape DEF LockInv, SentInv
<1> QED
  BY <1>17, <1>18, <1>19 DEF TradingInv

----------------------------------------------------------------------------
(* The theorems. *)

\* The empty system satisfies the invariant.
LEMMA TradingInitInv == TradingInit => TradingInv
<1> SUFFICES ASSUME TradingInit PROVE TradingInv
  OBVIOUS
<1>1. /\ ShapeInv /\ resting = {} /\ rows = {} /\ tradeRows = {} /\ holder = Nobody
      /\ trades = <<>> /\ stp = <<>> /\ seqNum = 1 /\ sent = <<>> /\ crashes = 0
      /\ local = [h \in Handlers |-> NoRequest]
  BY InitInd DEF TradingInit, BookInit, IndInv
<1>2. \A h \in Handlers : local[h] = NoRequest
  BY <1>1
<1>3. DOMAIN <<>> = {} /\ <<>> \in Seq(Batch)
  OBVIOUS
<1>4. ShapesInv
  BY <1>1, <1>2, NoRequestShape DEF ShapesInv
<1>5. TablesInv
  BY <1>1, <1>3, TradingAssumption DEF TablesInv
<1>6. WritesInv /\ MakersInv /\ CarriedInv /\ LockInv /\ SentInv
  BY <1>2, <1>3, NoRequestShape DEF WritesInv, MakersInv, CarriedInv, LockInv, SentInv
<1>7. Copies = {}
  BY <1>1, <1>2, NoRequestShape DEF Copies
<1>8. IsFiniteSet(rows)
  BY <1>1, FS_EmptySet
<1>9. /\ RowsInv /\ CopiesInv /\ ReportInv /\ LiveInv /\ NoRestingOrderLost
      /\ RecordedTradesPublished
  BY <1>1, <1>3, <1>7, <1>8 DEF RowsInv, CopiesInv, ReportInv, LiveInv,
     NoRestingOrderLost, RecordedTradesPublished, StpDeletes, StpSets
<1> QED
  BY <1>1, <1>4, <1>5, <1>6, <1>9 DEF TradingInv, CoreInv

\* A step that changes nothing keeps the invariant.
LEMMA TradingStutter ==
    ASSUME TradingInv, UNCHANGED tradingVars
    PROVE  TradingInv'
<1>1. /\ UNCHANGED <<resting, pushes, nextOrderId, nextTradeId, recent, stpHits, now,
                     attestedMs, phase, taker, trades, stp>>
      /\ UNCHANGED <<local, holder, rows, unsaved, tradeRows, seqNum, sent, crashes>>
  BY DEF tradingVars, bookVars, pgVars, p2pVars
<1>2. ShapeInv'
  BY <1>1 DEF TradingInv, CoreInv, ShapeInv, TypeOK, BookWellFormed, RestingLive,
              QueueInIdOrder, TakerFresh
<1>3. Copies' = Copies
  BY <1>1 DEF Copies
<1>4. /\ \A id : Dead(id)' <=> Dead(id)
      /\ \A id, f : Claim(id, f)' <=> Claim(id, f)
      /\ \A c : CopyOK(c)' <=> CopyOK(c)
  BY <1>1, <1>3 DEF Settled, Dead, Claim, CopyOK
<1>5. WritesInv' /\ CopiesInv' /\ ReportInv'
  BY <1>1, <1>3, <1>4 DEF TradingInv, CoreInv, WritesInv, CopiesInv, ReportInv
<1>6. /\ ShapesInv' /\ MakersInv' /\ CarriedInv' /\ RowsInv' /\ LiveInv'
      /\ NoRestingOrderLost'
  BY <1>1 DEF TradingInv, CoreInv, ShapesInv, MakersInv, CarriedInv, Returned, RowsInv,
              LiveInv, NoRestingOrderLost, HasRow, Unpersisted, At
<1>7. TablesInv' /\ LockInv' /\ SentInv' /\ RecordedTradesPublished'
  BY <1>1 DEF TradingInv, TablesInv, LockInv, SentInv, RecordedTradesPublished
<1> QED
  BY <1>2, <1>5, <1>6, <1>7 DEF TradingInv, CoreInv

\* Every step keeps the invariant.
LEMMA TradingNextInv ==
    ASSUME TradingInv, [TradingNext]_tradingVars
    PROVE  TradingInv'
<1>1. ASSUME NEW h \in Handlers, Arrive(h) PROVE TradingInv'
  BY <1>1, QuoteInv, CancelInv DEF Arrive
<1>2. ASSUME NEW h \in Handlers, Advance(h) PROVE TradingInv'
  BY <1>2, TakeLockInv, RejectInv, EnterBookInv, KilledByBookInv, MatchingInv,
     LeaveBookInv, NumberBatchInv, SendBatchInv, RecordTradeInv, PersistOrderInv,
     ReadMakerInv, WriteMakerInv, WriteStpInv, DeleteRowInv DEF Advance
<1>3. CASE Restart
  BY <1>3, RestartInv
<1>4. CASE UNCHANGED tradingVars
  BY <1>4, TradingStutter
<1> QED
  BY <1>1, <1>2, <1>3, <1>4 DEF TradingNext

\* The inductive invariant holds of every behaviour of the order path: what a
\* handler holds over its awaits stays true of the book, the rows and the
\* batches, whatever the other handlers do and whenever the process restarts.
THEOREM TradingInvariant == TradingSpec => []TradingInv
<1>1. TradingInit => TradingInv
  BY TradingInitInv
<1>2. TradingInv /\ [TradingNext]_tradingVars => TradingInv'
  BY TradingNextInv
<1> QED
  BY <1>1, <1>2, PTL DEF TradingSpec

\* What the statements that failed leave behind.
FaultsInv == unsaved \subseteq Nat /\ sqlFaults \in 0 .. SqlFaults

\* A statement fails only while it may, and an INSERT that fails is of an
\* order with an id.
LEMMA FaultsStep ==
    ASSUME TradingInv, FaultsInv, [TradingNext]_tradingVars
    PROVE  FaultsInv'
<1>1. ASSUME UNCHANGED pgVars PROVE FaultsInv'
  BY <1>1 DEF pgVars, FaultsInv
<1>2. ASSUME SqlFails PROVE sqlFaults' \in 0 .. SqlFaults
  <2>1. PICK n : n = sqlFaults /\ n \in 0 .. SqlFaults /\ n > 0 /\ sqlFaults' = n - 1
    BY <1>2 DEF SqlFails, FaultsInv
  <2> QED
    BY <2>1, TradingAssumption
<1>3. ASSUME NEW new, WriteRows(new) \/ WriteTrades(new) PROVE FaultsInv'
  BY <1>2, <1>3 DEF WriteRows, WriteTrades, FaultsInv
<1>4. ASSUME NEW h \in Handlers, PersistOrder(h) PROVE FaultsInv'
  <2>1. local[h].order \in Order
    BY <1>4 DEF PersistOrder, At, TradingInv, CoreInv, ShapesInv, HandlerShape, Carrying
  <2>2. local[h].order.id \in Nat
    BY <2>1 DEF Order
  <2>3. UNCHANGED pgVars \/ InsertRow(local[h].order)
    BY <1>4 DEF PersistOrder
  <2> QED
    BY <1>1, <1>2, <2>2, <2>3 DEF InsertRow, FaultsInv
<1>5. ASSUME NEW h \in Handlers, Arrive(h) PROVE UNCHANGED pgVars
  BY <1>5 DEF Arrive, Quote, BeginClose, CancelOne, CancelEvery
<1>6. ASSUME NEW h \in Handlers, Advance(h) PROVE FaultsInv'
  <2>1. CASE TakeLock(h) \/ RejectMargin(h) \/ EnterBook(h) \/ KilledByBook(h)
              \/ RejectedByBook(h) \/ Matching(h) \/ LeaveBook(h) \/ NumberBatch(h)
              \/ SendBatch(h) \/ ReadMaker(h)
    <3>1. UNCHANGED pgVars
      BY <2>1 DEF TakeLock, RejectMargin, EnterBook, KilledByBook, RejectedByBook,
         Matching, LeaveBook, Return, NumberBatch, SendBatch, ReadMaker
    <3> QED
      BY <1>1, <3>1
  <2>2. CASE RecordTrade(h) \/ WriteMaker(h) \/ WriteStp(h) \/ DeleteRow(h)
    BY <1>3, <2>2 DEF RecordTrade, WriteMaker, WriteStp, DeleteRow
  <2> QED
    BY <1>4, <1>6, <2>1, <2>2 DEF Advance
<1>7. CASE Restart
  BY <1>7 DEF Restart, FaultsInv
<1>8. CASE UNCHANGED tradingVars
  BY <1>1, <1>8 DEF tradingVars
<1> QED
  BY <1>1, <1>5, <1>6, <1>7, <1>8 DEF TradingNext

\* The handlers' locals, the tables and the batches keep their types.
THEOREM TradingTypeCorrect == TradingSpec => []TradingTypeOK
<1>1. TradingInit => FaultsInv
  BY TradingAssumption DEF TradingInit, FaultsInv
<1>2. TradingInv /\ FaultsInv /\ [TradingNext]_tradingVars => FaultsInv'
  BY FaultsStep
<1>3. TradingInv /\ FaultsInv => TradingTypeOK
  BY DEF TradingInv, FaultsInv, CoreInv, ShapeInv, ShapesInv, TablesInv, TradingTypeOK
<1> QED
  BY <1>1, <1>2, <1>3, TradingInvariant, PTL DEF TradingSpec

\* The book stays well formed through restarts too: a reload of the rows gives
\* a book of live orders with distinct, issued ids, queued in id order.
THEOREM ReloadsWellFormed == TradingSpec => []BookWellFormed
<1>1. TradingInv => BookWellFormed
  BY DEF TradingInv, CoreInv, ShapeInv
<1> QED
  BY <1>1, TradingInvariant, PTL

\* Every order in the book has its row, or a handler that will write it, or
\* PostgreSQL refused its INSERT: no other statement of any handler, late or
\* failed, costs a resting order its row.
THEOREM RestingOrdersKept == TradingSpec => []NoRestingOrderLost
<1>1. TradingInv => NoRestingOrderLost
  BY DEF TradingInv, CoreInv
<1> QED
  BY <1>1, TradingInvariant, PTL

\* No row claims more filled than the book, however row writes are delayed.
THEOREM RowsLag == TradingSpec => []RowsNeverAhead
<1>1. ASSUME TradingInv PROVE RowsNeverAhead
  <2> SUFFICES ASSUME NEW o \in resting, NEW r \in rows, r.id = o.id
               PROVE  r.filled <= o.filled /\ [r EXCEPT !.filled = o.filled] = AsRow(o)
    BY DEF RowsNeverAhead
  <2>1. r \in Order /\ o \in Order
    BY <1>1 DEF TradingInv, CoreInv, TablesInv, ShapeInv, TypeOK
  <2>2. Same(r, o) /\ r.filled <= o.filled
    BY <1>1 DEF TradingInv, CoreInv, CopiesInv, CopyOK, Copies
  <2>3. r.type = "Limit" /\ r.tif = "Gtc" /\ r.status = "Open" /\ r.arr = 0
    BY <1>1 DEF TradingInv, CoreInv, RowsInv
  <2>4. [r EXCEPT !.filled = o.filled] = AsRow(o)
    BY <2>1, <2>2, <2>3 DEF AsRow, Same, Order
  <2> QED
    BY <2>2, <2>4
<1> QED
  BY <1>1, TradingInvariant, PTL

\* Every recorded trade was handed to the P2P task first.
THEOREM RecordedArePublished == TradingSpec => []RecordedTradesPublished
<1>1. TradingInv => RecordedTradesPublished
  BY DEF TradingInv
<1> QED
  BY <1>1, TradingInvariant, PTL
============================================================================
