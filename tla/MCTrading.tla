----------------------------- MODULE MCTrading -----------------------------
(***************************************************************************)
(* Small instances of Trading: two users at one price.  The requests are   *)
(* chosen so that full and partial fills, full and partial self-crosses,   *)
(* a remainder that rests after a fill, a killed FOK and closes all occur. *)
(***************************************************************************)
EXTENDS Trading, TLC

CONSTANTS u1, u2

Req(u, s, ty, n, t) ==
    [user |-> u, side |-> s, type |-> ty, price |-> IF ty = "Limit" THEN 1 ELSE 0,
     size |-> n, lev |-> 1, tif |-> t, reduceOnly |-> ty = "Market"]

MCRequests == {Req(u1, "Short", "Limit", 2, "Gtc"), Req(u1, "Long", "Limit", 1, "Gtc"),
               Req(u2, "Long", "Limit", 1, "Fok"), Req(u2, "Long", "Limit", 1, "Gtc")}

MCCloses == {Req(u2, "Long", "Market", 1, "Ioc")}

NoCloses == {}

\* Handlers are interchangeable; only the invariants are checked with it.
HandlerSymmetry == Permutations(Handlers)
============================================================================
