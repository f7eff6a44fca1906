----------------------------- MODULE MCProgress -----------------------------
(***************************************************************************)
(* Small instances of what must come to an end: the join of a newcomer and *)
(* the requests of traders.  They share no state, so each behaviour runs   *)
(* one of them, `focus', and leaves the other as it starts; the fairness   *)
(* is that of the component that runs.                                     *)
(*                                                                         *)
(* Any of the three machines' accounts may sort first, and source 2 may    *)
(* miss an epoch.                                                          *)
(***************************************************************************)
EXTENDS JoinBrain, Trading

CONSTANTS u1, u2

VARIABLE focus

-----------------------------------------------------------------------------
(* The values of the constants.                                            *)

Request(u, side, type, size, tif) ==
    [user |-> u, side |-> side, type |-> type, price |-> IF type = "Limit" THEN 1 ELSE 0,
     size |-> size, lev |-> 1, tif |-> tif, reduceOnly |-> type = "Market"]
MCRequests ==
    {Request(u1, "Short", "Limit", 2, "Gtc"), Request(u1, "Long", "Limit", 1, "Gtc"),
     Request(u2, "Long", "Limit", 1, "Fok"), Request(u2, "Long", "Limit", 1, "Gtc")}
MCCloses == {Request(u2, "Long", "Market", 1, "Ioc")}

-----------------------------------------------------------------------------

allVars == <<focus, joinVars, tradingVars>>

ProgressInit ==
    /\ focus \in {"join", "trading"} /\ JoinInit /\ TradingInit
    \* Only the join ranges over the machine that sorts first.
    /\ focus # "join" => first = Newcomer

RunJoin == focus = "join" /\ JoinNext /\ UNCHANGED <<focus, tradingVars>>
RunTrading == focus = "trading" /\ TradingNext /\ UNCHANGED <<focus, joinVars>>

ProgressNext == RunJoin \/ RunTrading

\* The fairness conditions of the components, of the one that runs.
Joining(A) == focus = "join" /\ A

ProgressFairness ==
    /\ \A m \in Sources, n \in Machines : m # n => WF_joinVars(Joining(Announce(m, n)))
    /\ \A n \in Sources :
          /\ WF_joinVars(Joining(\E r \in net : HandleRequest(n, r)))
          /\ WF_joinVars(Joining(TickServe(n))) /\ WF_joinVars(Joining(TickDrift(n)))
    /\ \A n \in Machines : WF_joinVars(Joining(\E d \in net : HandleDeliver(n, d)))
    /\ WF_joinVars(Joining(TickRequest)) /\ WF_joinVars(Joining(TickBootstrapped))
    /\ \A h \in Handlers : SF_tradingVars(focus = "trading" /\ Advance(h))

ProgressSpec == ProgressInit /\ [][ProgressNext]_allVars /\ ProgressFairness

-----------------------------------------------------------------------------

\* JoinEnds (bootstrap_join.rs:371, 534), for the behaviours of a join: the newcomer seals
\* the membership, or halts for its operator where the elected source could not serve.
JoinConcludes == focus = "join" => JoinEnds
=============================================================================
