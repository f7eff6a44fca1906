---------------------------- MODULE MCOrderBook ----------------------------
(***************************************************************************)
(* Small instances of OrderBook: two users, two prices, sizes up to two,   *)
(* every order kind the API can produce.                                   *)
(***************************************************************************)
EXTENDS OrderBook

CONSTANTS MCPrices, MCSizes

Req(u, s, ty, p, n, t) ==
    [user |-> u, side |-> s, type |-> ty, price |-> p, size |-> n, lev |-> 1,
     tif |-> t, reduceOnly |-> FALSE]

LimitRequests ==
    {Req(u, s, "Limit", p, n, t) :
        u \in Users, s \in Sides, p \in MCPrices, n \in MCSizes, t \in TimesInForce}

MarketRequests ==
    {Req(u, s, "Market", 0, n, "Gtc") : u \in Users, s \in Sides, n \in MCSizes}

MCRequests == LimitRequests \cup MarketRequests

FokRequests ==
    {r \in LimitRequests : r.tif = "Gtc" \/ (r.tif = "Fok" /\ r.side = "Short")}
============================================================================
