------------------------------ MODULE Trading ------------------------------
(***************************************************************************)
(* The order path of one sequencer: the HTTP handlers of api.rs running    *)
(* concurrently over the trading engine (trading.rs), its order book       *)
(* (OrderBook) and PostgreSQL (db.rs), and the process restart that        *)
(* rebuilds the book from PostgreSQL (main.rs).                            *)
(*                                                                         *)
(* A handler gives way at every await: reading the balance, taking the     *)
(* book lock, settling with the enclave, sending the batch, and each SQL   *)
(* statement.  Those are its steps.  The book lock (a tokio Mutex) is      *)
(* `holder'; while it is held the steps of OrderBook run.  The enclave is  *)
(* external: a balance query may answer any value of Margins, and a        *)
(* settlement's outcome only reaches the response.  Row signatures always  *)
(* verify here: rows are written by this node.  A PostgreSQL statement may *)
(* fail: the error is logged and the handler goes on.  The node is the     *)
(* sequencer throughout, and the limiter's window does not roll here.      *)
(***************************************************************************)
EXTENDS OrderBook

CONSTANTS
    Handlers,    \* concurrent requests
    Margins,     \* available_margin values the enclave may report
    Closes,      \* close requests: market IOC orders of a position's size
    MaxCrashes,  \* bound on process restarts (exploration bound)
    SqlFaults,   \* bound on statements that fail (exploration bound)
    Nobody       \* the book lock is free

ASSUME TradingAssumption ==
    /\ Margins \subseteq Nat
    /\ Closes \subseteq {r \in OrderRequest : r.type = "Market" /\ r.tif = "Ioc"}
    /\ MaxCrashes \in Nat /\ SqlFaults \in Nat
    /\ Nobody \notin Handlers /\ NoOrder \notin OrderRequest

VARIABLES
    local,       \* the local state of each handler
    holder,      \* the book lock
    rows,        \* PG resting_orders, as the orders a reload makes of them
    tradeRows,   \* PG trades
    unsaved,     \* history: ids whose INSERT failed, of this process
    sqlFaults,   \* statements that may still fail
    seqNum,      \* seq_num of the next batch
    sent,        \* the batches handed to the P2P channel, in order
    crashes

pgVars == <<rows, tradeRows, unsaved, sqlFaults>>
p2pVars == <<seqNum, sent>>
tradingVars == <<bookVars, local, holder, pgVars, p2pVars, crashes>>

Batch == [seq : Nat \ {0}, fills : Seq(Trade)]

\* A handler's locals: at, where it waits; req, the request it serves; close,
\* is it a close_position?; avail, the margin it read; order, trades and stp,
\* what submit_order returned; seq, its batch's number; k, its loop index;
\* job, a row write decided from the book and not yet executed; gone, ids
\* cancelled in the book whose rows are to be deleted.
NoJob == [id |-> 0, filled |-> 0, keep |-> FALSE]
NoRequest ==
    [at |-> "idle", req |-> NoOrder, close |-> FALSE, avail |-> 0,
     order |-> NoOrder, trades |-> <<>>, stp |-> <<>>, seq |-> 0, k |-> 1,
     job |-> NoJob, gone |-> {}]

----------------------------------------------------------------------------
(* The SQL statements. *)

\* What a reload makes of an order's row: an open GTC limit order, whose
\* ticket is assigned when it is loaded.
AsRow(o) ==
    [o EXCEPT !.type = "Limit", !.tif = "Gtc", !.status = "Open", !.arr = 0]

HasRow(id) == \E r \in rows : r.id = id

\* Mutant: an UPDATE without its WHERE clause.
WithFilledEverywhere(id, filled) == {[r EXCEPT !.filled = filled] : r \in rows}

WithFilled(id, filled) ==
    {IF r.id = id THEN [r EXCEPT !.filled = filled] ELSE r : r \in rows}

InsertRestingOrder(o) ==
    IF HasRow(o.id) THEN WithFilled(o.id, o.filled) ELSE rows \cup {AsRow(o)}

DeleteRestingOrder(id) == {r \in rows : r.id # id}

\* ON CONFLICT (trade_id, market) DO NOTHING
InsertTrade(t) ==
    IF \E r \in tradeRows : r.id = t.id THEN tradeRows ELSE tradeRows \cup {t}

\* A statement that fails changes no row; it is not tried again.
SqlFails == sqlFaults > 0 /\ sqlFaults' = sqlFaults - 1

WriteRows(new) ==
    /\ \/ rows' = new /\ UNCHANGED sqlFaults
       \/ SqlFails /\ UNCHANGED rows
    /\ UNCHANGED <<tradeRows, unsaved>>

WriteTrades(new) ==
    /\ \/ tradeRows' = new /\ UNCHANGED sqlFaults
       \/ SqlFails /\ UNCHANGED tradeRows
    /\ UNCHANGED <<rows, unsaved>>

\* The INSERT of an order that has come to rest.
InsertRow(o) ==
    /\ \/ rows' = InsertRestingOrder(o) /\ UNCHANGED <<unsaved, sqlFaults>>
       \/ SqlFails /\ unsaved' = unsaved \cup {o.id} /\ UNCHANGED rows
    /\ UNCHANGED tradeRows

----------------------------------------------------------------------------
(* api::submit_order and api::close_position. *)

At(h) == local[h].at
Update(h, l) == local' = [local EXCEPT ![h] = l]
Goto(h, label) == Update(h, [local[h] EXCEPT !.at = label])
Respond(h) == Update(h, NoRequest)

LockFree == holder = Nobody /\ phase = "idle"

\* Requests that will take an order id; a new one must fit under MaxOrders.
Awaiting ==
    {h \in Handlers : At(h) = "quoted" \/ (At(h) = "locked" /\ phase = "idle")}
IdsLeft == nextOrderId + Cardinality(Awaiting) <= MaxOrders

\* submit_order_inner reads the balance before it takes the book lock.
Quote(h, r, a) ==
    /\ At(h) = "idle" /\ IdsLeft
    /\ Update(h, [local[h] EXCEPT !.at = "quoted", !.req = r, !.avail = a])
    /\ UNCHANGED <<bookVars, holder, pgVars, p2pVars, crashes>>

\* A close has no margin to check.
BeginClose(h, r) ==
    /\ At(h) = "idle" /\ IdsLeft
    /\ Update(h, [local[h] EXCEPT !.at = "quoted", !.req = r, !.close = TRUE])
    /\ UNCHANGED <<bookVars, holder, pgVars, p2pVars, crashes>>

\* A market order is estimated at price 1.
Required(r) == (r.size * (IF r.price > 0 THEN r.price ELSE 1)) \div r.lev

MarginCovers(l) ==
    l.close \/ l.avail - UserReservedMargin(l.req.user) >= Required(l.req)

\* Under the lock: set_attested_ms, then the reservation check.
TakeLock(h) ==
    /\ At(h) = "quoted" /\ LockFree
    /\ SetAttestedMs(1)
    /\ MarginCovers(local[h])
    /\ Goto(h, "locked")
    /\ holder' = h
    /\ UNCHANGED <<pgVars, p2pVars, crashes>>

RejectMargin(h) ==
    /\ At(h) = "quoted" /\ LockFree
    /\ SetAttestedMs(1)
    /\ ~MarginCovers(local[h])
    /\ Respond(h)
    /\ UNCHANGED <<holder, pgVars, p2pVars, crashes>>

EnterBook(h) ==
    /\ At(h) = "locked"
    /\ Submit(local[h].req)
    /\ UNCHANGED <<local, holder, pgVars, p2pVars, crashes>>

Matching(h) ==
    /\ At(h) = "locked"
    /\ MatchStep
    /\ UNCHANGED <<local, holder, pgVars, p2pVars, crashes>>

\* Mutant: the lock guard lives as long as the handler.
ReturnHoldingLock(h) ==
    /\ UNCHANGED <<holder, pgVars, p2pVars, crashes>>
    /\ Update(h, [local[h] EXCEPT
            !.at = IF trades' = <<>> THEN "rest" ELSE "settle",
            !.order = taker', !.trades = trades', !.stp = stp'])

\* The lock is released.  Trades have to be settled, an order without trades
\* to be persisted; a close without trades is answered at once.
Return(h) ==
    /\ holder' = Nobody
    /\ IF local[h].close /\ trades' = <<>>
       THEN Respond(h)
       ELSE Update(h, [local[h] EXCEPT
                !.at = IF trades' = <<>> THEN "rest" ELSE "settle",
                !.order = taker', !.trades = trades', !.stp = stp'])
    /\ UNCHANGED <<pgVars, p2pVars, crashes>>

LeaveBook(h) == At(h) = "locked" /\ Finish /\ Return(h)

KilledByBook(h) == At(h) = "locked" /\ KillFok(local[h].req) /\ Return(h)

\* submit_order bails: the limiter's budget is spent, or the request is bad.
RejectedByBook(h) ==
    /\ At(h) = "locked" /\ phase = "idle" /\ ~Accepts(local[h].req)
    /\ holder' = Nobody /\ Respond(h)
    /\ UNCHANGED <<bookVars, pgVars, p2pVars, crashes>>

\* Both legs of every trade went to the enclave, in whatever time that took;
\* the batch takes its number ...
NumberBatch(h) ==
    /\ At(h) = "settle"
    /\ seqNum' = seqNum + 1
    /\ Update(h, [local[h] EXCEPT !.at = "send", !.seq = seqNum])
    /\ UNCHANGED <<bookVars, holder, pgVars, sent, crashes>>

\* Mutant: only orders are published, closes are not.
SendOrdersOnly(h) ==
    /\ At(h) = "send"
    /\ sent' = IF local[h].close THEN sent
               ELSE Append(sent, [seq |-> local[h].seq, fills |-> local[h].trades])
    /\ Goto(h, "record")
    /\ UNCHANGED <<bookVars, holder, pgVars, seqNum, crashes>>

\* ... and is sent to the P2P task.
SendBatch(h) ==
    /\ At(h) = "send"
    /\ sent' = Append(sent, [seq |-> local[h].seq, fills |-> local[h].trades])
    /\ Goto(h, "record")
    /\ UNCHANGED <<bookVars, holder, pgVars, seqNum, crashes>>

MoreTrades(h) == local[h].k < Len(local[h].trades)

\* The insert_trade loop.  A close is then answered: it touches no resting row.
RecordTrade(h) ==
    /\ At(h) = "record"
    /\ WriteTrades(InsertTrade(local[h].trades[local[h].k]))
    /\ \/ MoreTrades(h) /\ Update(h, [local[h] EXCEPT !.k = @ + 1])
       \/ ~MoreTrades(h) /\ local[h].close /\ Respond(h)
       \/ /\ ~MoreTrades(h) /\ ~local[h].close
          /\ Update(h, [local[h] EXCEPT !.at = "rest", !.k = 1])
    /\ UNCHANGED <<bookVars, holder, p2pVars, crashes>>

AfterMakers(h) ==
    IF local[h].stp = <<>> THEN Respond(h)
    ELSE Update(h, [local[h] EXCEPT !.at = "stp", !.k = 1, !.job = NoJob])

\* Mutant: the remainder of an order that traded is not persisted.
PersistUntraded(h) ==
    LET o == local[h].order IN
    /\ At(h) = "rest"
    /\ IF o.status = "Open" /\ local[h].trades = <<>>
       THEN InsertRow(o) ELSE UNCHANGED pgVars
    /\ IF local[h].trades = <<>> THEN AfterMakers(h) ELSE Goto(h, "makers")
    /\ UNCHANGED <<bookVars, holder, p2pVars, crashes>>

PersistOrder(h) ==
    LET o == local[h].order IN
    /\ At(h) = "rest"
    /\ IF o.status = "Open" /\ Remaining(o) > 0
       THEN InsertRow(o) ELSE UNCHANGED pgVars
    /\ IF local[h].trades = <<>> THEN AfterMakers(h) ELSE Goto(h, "makers")
    /\ UNCHANGED <<bookVars, holder, p2pVars, crashes>>

\* get_order of a trade's maker, under the lock.  The write comes later.
ReadMaker(h) ==
    LET id == local[h].trades[local[h].k].maker
        Job(filled, keep) == [id |-> id, filled |-> filled, keep |-> keep]
        Decide(j) == Update(h, [local[h] EXCEPT !.at = "write", !.job = j])
    IN  /\ At(h) = "makers" /\ LockFree
        /\ \/ \E o \in resting : o.id = id /\ Decide(Job(o.filled, TRUE))
           \/ (\A o \in resting : o.id # id) /\ Decide(Job(0, FALSE))
        /\ UNCHANGED <<bookVars, holder, pgVars, p2pVars, crashes>>

WriteMaker(h) ==
    LET j == local[h].job IN
    /\ At(h) = "write"
    /\ WriteRows(IF j.keep THEN WithFilled(j.id, j.filled) ELSE DeleteRestingOrder(j.id))
    /\ IF MoreTrades(h)
       THEN Update(h, [local[h] EXCEPT !.at = "makers", !.k = @ + 1, !.job = NoJob])
       ELSE AfterMakers(h)
    /\ UNCHANGED <<bookVars, holder, p2pVars, crashes>>

\* A self-cross entry carries the maker as it was when the taker met it.
WriteStp(h) ==
    LET e == local[h].stp[local[h].k] IN
    /\ At(h) = "stp"
    /\ WriteRows(IF e.status = "Cancelled" THEN DeleteRestingOrder(e.id)
                                           ELSE WithFilled(e.id, e.filled))
    /\ IF local[h].k = Len(local[h].stp) THEN Respond(h)
       ELSE Update(h, [local[h] EXCEPT !.k = @ + 1])
    /\ UNCHANGED <<bookVars, holder, p2pVars, crashes>>

----------------------------------------------------------------------------
(* api::cancel_order and api::cancel_all_orders.  The ownership check reads *)
(* the book in a lock section of its own and changes nothing, so it is not *)
(* a step here: the cancel removes whatever holds the id when it runs.     *)

Cancelled(h, ids) == Update(h, [local[h] EXCEPT !.at = "delete", !.gone = ids])

CancelOne(h, o) ==
    /\ At(h) = "idle" /\ LockFree
    /\ CancelOrder(o)
    /\ Cancelled(h, {o.id})
    /\ UNCHANGED <<holder, pgVars, p2pVars, crashes>>

CancelEvery(h, u) ==
    /\ At(h) = "idle" /\ LockFree
    /\ \E o \in resting : o.user = u
    /\ CancelAll(u)
    /\ Cancelled(h, {o.id : o \in {r \in resting : r.user = u}})
    /\ UNCHANGED <<holder, pgVars, p2pVars, crashes>>

DeleteRow(h) ==
    /\ At(h) = "delete"
    /\ \E id \in local[h].gone :
        /\ WriteRows(DeleteRestingOrder(id))
        /\ IF local[h].gone = {id} THEN Respond(h)
           ELSE Update(h, [local[h] EXCEPT !.gone = @ \ {id}])
    /\ UNCHANGED <<bookVars, holder, p2pVars, crashes>>

----------------------------------------------------------------------------
(* Restart: the process dies, every request with it, and the new process   *)
(* loads resting_orders in id order into an empty book.                    *)

Ticket(r) == Cardinality({q \in rows : q.id < r.id})

\* Mutant: the next id stays 1.
LoadKeepingIds ==
    /\ resting' = {[r EXCEPT !.arr = Ticket(r)] : r \in rows}
    /\ pushes' = Cardinality(rows)
    /\ nextOrderId' = 1
    /\ nextTradeId' = 1

\* load_orders: next_order_id passes every loaded id; next_trade_id stays 1.
LoadOrders ==
    /\ resting' = {[r EXCEPT !.arr = Ticket(r)] : r \in rows}
    /\ pushes' = Cardinality(rows)
    /\ nextOrderId' = IF rows = {} THEN 1 ELSE Max({r.id : r \in rows}) + 1
    /\ nextTradeId' = 1

Restart ==
    /\ crashes < MaxCrashes
    /\ crashes' = crashes + 1
    /\ LoadOrders
    /\ recent' = <<>> /\ stpHits' = [u \in Users |-> <<>>]
    /\ attestedMs' = 0 /\ phase' = "idle"
    /\ taker' = NoOrder /\ trades' = <<>> /\ stp' = <<>>
    /\ local' = [h \in Handlers |-> NoRequest]
    /\ holder' = Nobody
    /\ seqNum' = 1 /\ unsaved' = {}
    /\ UNCHANGED <<now, rows, tradeRows, sqlFaults, sent>>

----------------------------------------------------------------------------

TradingInit ==
    /\ BookInit
    /\ local = [h \in Handlers |-> NoRequest]
    /\ holder = Nobody
    /\ rows = {} /\ tradeRows = {} /\ unsaved = {} /\ sqlFaults = SqlFaults
    /\ seqNum = 1 /\ sent = <<>> /\ crashes = 0

\* A request arrives.
Arrive(h) ==
    \/ \E r \in Requests, a \in Margins : Quote(h, r, a)
    \/ \E r \in Closes : BeginClose(h, r)
    \/ \E o \in resting : CancelOne(h, o)
    \/ \E u \in Users : CancelEvery(h, u)

\* A request in progress takes its next step.
Advance(h) ==
    \/ TakeLock(h) \/ RejectMargin(h)
    \/ EnterBook(h) \/ KilledByBook(h) \/ RejectedByBook(h) \/ Matching(h) \/ LeaveBook(h)
    \/ NumberBatch(h) \/ SendBatch(h) \/ RecordTrade(h) \/ PersistOrder(h)
    \/ ReadMaker(h) \/ WriteMaker(h) \/ WriteStp(h) \/ DeleteRow(h)

TradingNext ==
    \/ \E h \in Handlers : Arrive(h) \/ Advance(h)
    \/ Restart

\* Handlers are polled, the enclave and PostgreSQL answer, and the tokio
\* mutex is handed over in FIFO order, so no waiter starves.
TradingSpec ==
    /\ TradingInit /\ [][TradingNext]_tradingVars
    /\ \A h \in Handlers : SF_tradingVars(Advance(h))

----------------------------------------------------------------------------
(* Properties. *)

Labels == {"idle", "quoted", "locked", "settle", "send", "record", "rest",
           "makers", "write", "stp", "delete"}

Local ==
    [at : Labels, req : OrderRequest \cup {NoOrder}, close : BOOLEAN, avail : Nat,
     order : Order \cup {NoOrder}, trades : Seq(Trade), stp : Seq(StpEntry),
     seq : Nat, k : Nat \ {0}, job : [id : Nat, filled : Nat, keep : BOOLEAN],
     gone : SUBSET Nat]

\* Types of the handlers' locals, the tables and the batches, on top of the book's.
TradingTypeOK ==
    /\ TypeOK
    /\ local \in [Handlers -> Local]
    /\ holder \in Handlers \cup {Nobody}
    /\ rows \subseteq Order /\ tradeRows \subseteq Trade
    /\ unsaved \subseteq Nat /\ sqlFaults \in 0 .. SqlFaults
    /\ seqNum \in Nat \ {0} /\ sent \in Seq(Batch)
    /\ crashes \in 0 .. MaxCrashes

\* The submission of `id' has left the book but not yet written its row.
Unpersisted(h, id) ==
    At(h) \in {"settle", "send", "record", "rest"} /\ local[h].order.id = id

\* A restart loses a resting order only to its own INSERT: the handler that
\* placed it had not yet written its row, or PostgreSQL refused that one
\* statement, which is only logged.  No UPDATE or DELETE of another handler,
\* late, reordered or failed, takes the row of an order that rests.
NoRestingOrderLost ==
    \A o \in resting :
        HasRow(o.id) \/ o.id \in unsaved \/ \E h \in Handlers : Unpersisted(h, o.id)

\* A row never claims more filled than the order in the book, and agrees
\* with it on everything else: however row writes are delayed and reordered,
\* a reload never takes unfilled size away from its owner.
RowsNeverAhead ==
    \A o \in resting, r \in rows :
        r.id = o.id => r.filled <= o.filled /\ [r EXCEPT !.filled = o.filled] = AsRow(o)

\* Every trade in the trades table was handed to the P2P task first: a crash
\* on the path of a fill never leaves a recorded trade that no batch carries.
RecordedTradesPublished ==
    \A t \in tradeRows : \E i \in DOMAIN sent : t \in Range(sent[i].fills)

\* Every request is answered.
RequestsFinish == \A h \in Handlers : At(h) # "idle" ~> At(h) = "idle"

Quiescent == \A h \in Handlers : At(h) = "idle"

\* When no request is in progress, resting_orders holds exactly what a
\* restart should restore: each row is an order of the book, as it is there.
RowsMatchBook ==
    Quiescent => \A r \in rows : \E o \in resting : o.id = r.id /\ o.filled = r.filled

\* A handler past its insert_trade loop has its trades in the trades table.
TradesRecorded ==
    \A h \in Handlers :
        At(h) \in {"rest", "makers", "write", "stp"} =>
            \A i \in DOMAIN local[h].trades : local[h].trades[i] \in tradeRows
============================================================================
