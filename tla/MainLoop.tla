------------------------------- MODULE MainLoop -------------------------------
(***************************************************************************)
(* The orchestration loop of every node: the price tick, and on the        *)
(* sequencer the liquidation scan and the funding of positions.  Intervals *)
(* are timers of the process, the role is read once per tick, and the path *)
(* that prices take is asked of the enclave once and kept.  A price is the *)
(* time at which it was fetched.                                           *)
(***************************************************************************)
EXTENDS Naturals, FiniteSets

CONSTANTS LoopNodes,
          AnchoredSets,  \* the nodes whose enclave has publishers anchored, possibly
          PriceEvery, LiquidateEvery, FundingEvery, \* the intervals, in ticks
          LastTick,      \* bound on time
          LoopFaults     \* bound on failed calls and restarts

ASSUME MainLoopAssumption ==
    /\ AnchoredSets \subseteq SUBSET LoopNodes
    /\ {PriceEvery, LiquidateEvery, FundingEvery, LastTick, LoopFaults} \subseteq Nat \ {0}

VARIABLES time,     \* the clock of all nodes
          anchored, \* the nodes whose enclave has publishers anchored
          flag,     \* flag[n]: is_sequencer, set by the role watcher
          loop,     \* loop[n]: the locals of the loop
          mark,     \* mark[n]: the price in n's enclave
          funded,   \* funded[n]: when n's enclave applied a funding rate
          closed,   \* closed[n]: the liquidations, [price, mark]
          failures  \* calls that may still fail, restarts included

loopVars == <<time, anchored, flag, loop, mark, funded, closed, failures>>

Never == 0

\* Mutant: funding is due as soon as the process runs, as prices are.
TimersAllDue(t) == [price |-> Never, liquidate |-> Never, fund |-> Never]

\* The timers at the start: prices and liquidations are due at once.
Timers(t) == [price |-> Never, liquidate |-> Never, fund |-> t]

FreshLoop(t) ==
    [at |-> "idle", seen |-> t, seq |-> FALSE, path |-> "unknown", price |-> Never,
     fetched |-> Never, last |-> Timers(t)]

LoopInit ==
    /\ time = 1 /\ failures = LoopFaults /\ anchored \in AnchoredSets
    /\ flag \in [LoopNodes -> BOOLEAN] /\ loop = [n \in LoopNodes |-> FreshLoop(1)]
    /\ mark = [n \in LoopNodes |-> Never]
    /\ funded = [n \in LoopNodes |-> {}] /\ closed = [n \in LoopNodes |-> {}]

Elapsed(n, timer, interval) ==
    loop[n].last[timer] = Never \/ time - loop[n].last[timer] >= interval

Fails == failures > 0 /\ failures' = failures - 1
Works == UNCHANGED failures

At(n, place) == loop[n].at = place
Move(n, l) == loop' = [loop EXCEPT ![n] = l]

-------------------------------------------------------------------------------

Tock ==
    /\ time < LastTick /\ time' = time + 1
    /\ UNCHANGED <<anchored, flag, loop, mark, funded, closed, failures>>

WatchFlag(n) ==
    /\ flag' = [flag EXCEPT ![n] = ~@]
    /\ UNCHANGED <<time, anchored, loop, mark, funded, closed, failures>>

RestartLoop(n) ==
    /\ Fails /\ Move(n, FreshLoop(time))
    /\ UNCHANGED <<time, anchored, flag, mark, funded, closed>>

\* tick.tick(): the role is read once for the whole tick.
StartTick(n) ==
    /\ At(n, "idle") /\ loop[n].seen < time
    /\ Move(n, [loop[n] EXCEPT !.seen = time, !.seq = flag[n], !.fetched = Never,
                  !.at = IF Elapsed(n, "price", PriceEvery) THEN "path" ELSE "gate"])
    /\ UNCHANGED <<time, anchored, flag, mark, funded, closed, failures>>

\* live_price_path: the threshold decides; a status that contradicts itself decides
\* nothing, and a call that fails is taken for an enclave without the route.
Paths(n) ==
    {<<IF n \in anchored THEN "median" ELSE "operator", TRUE>>, <<"unknown", FALSE>>, <<"operator", FALSE>>}

DerivePath(n) ==
    /\ At(n, "path")
    /\ IF loop[n].path # "unknown" THEN Works /\ Move(n, [loop[n] EXCEPT !.at = "fetch"])
       ELSE \E p \in Paths(n) : /\ IF p[2] THEN Works ELSE Fails
                                /\ Move(n, [loop[n] EXCEPT !.at = "fetch", !.path = p[1]])
    /\ UNCHANGED <<time, anchored, flag, mark, funded, closed>>

WantPrice(n) == loop[n].seq \/ loop[n].path = "median"

\* fetch_xrp_price; the timer advances whatever comes of it.
FetchPrice(n) ==
    /\ At(n, "fetch")
    /\ \E got \in {time, Never} :
          /\ got = time => WantPrice(n)
          /\ IF got = Never /\ WantPrice(n) THEN Fails ELSE Works
          /\ Move(n, [loop[n] EXCEPT !.fetched = got, !.last.price = time,
                            !.at = IF got # Never /\ loop[n].path = "median" THEN "push" ELSE "gate"])
    /\ UNCHANGED <<time, anchored, flag, mark, funded, closed>>

\* push_signed_median_quote: the node's own enclave takes the quotes or refuses them.
PushSignedMedianQuote(n) ==
    /\ At(n, "push") /\ Move(n, [loop[n] EXCEPT !.at = "gate"])
    /\ \/ Works /\ mark' = [mark EXCEPT ![n] = loop[n].fetched]
       \/ Fails /\ UNCHANGED mark
    /\ UNCHANGED <<time, anchored, flag, funded, closed>>

\* A validator ends its tick here.
SequencerGate(n) ==
    /\ At(n, "gate")
    /\ Move(n, [loop[n] EXCEPT !.at = IF loop[n].seq THEN "mark" ELSE "idle"])
    /\ UNCHANGED <<time, anchored, flag, mark, funded, closed, failures>>

\* The operator feed; an enclave with publishers anchored refuses it.
UpdatePrice(n) ==
    LET f == loop[n].fetched
    IN  /\ At(n, "mark")
        /\ Move(n, [loop[n] EXCEPT !.at = "liquidate", !.price = IF f # Never THEN f ELSE @])
        /\ \/ Works /\ mark' = IF f # Never /\ loop[n].path = "operator" /\ n \notin anchored
                               THEN [mark EXCEPT ![n] = f] ELSE mark
           \/ Fails /\ UNCHANGED mark
        /\ UNCHANGED <<time, anchored, flag, funded, closed>>

\* run_liquidation_scan: what the enclave finds at its mark is closed at the price
\* of the loop.
RunLiquidationScan(n) ==
    /\ At(n, "liquidate")
    /\ IF Elapsed(n, "liquidate", LiquidateEvery) /\ loop[n].price # Never
       THEN /\ Move(n, [loop[n] EXCEPT !.at = "fund", !.last.liquidate = time])
            /\ \/ closed' = [closed EXCEPT ![n] = @ \cup {[price |-> loop[n].price, mark |-> mark[n]]}]
               \/ UNCHANGED closed
       ELSE Move(n, [loop[n] EXCEPT !.at = "fund"]) /\ UNCHANGED closed
    /\ UNCHANGED <<time, anchored, flag, mark, funded, failures>>

\* apply_funding; the timer starts again whether or not the enclave applied it.
ApplyFunding(n) ==
    /\ At(n, "fund")
    /\ IF Elapsed(n, "fund", FundingEvery) /\ loop[n].price # Never
       THEN /\ Move(n, [loop[n] EXCEPT !.at = "idle", !.last.fund = time])
            /\ \/ Works /\ funded' = [funded EXCEPT ![n] = @ \cup {time}]
               \/ Fails /\ funded' \in {funded, [funded EXCEPT ![n] = @ \cup {time}]}
       ELSE Move(n, [loop[n] EXCEPT !.at = "idle"]) /\ Works /\ UNCHANGED funded
    /\ UNCHANGED <<time, anchored, flag, mark, closed>>

LoopNext ==
    \/ Tock
    \/ \E n \in LoopNodes :
          \/ WatchFlag(n) \/ RestartLoop(n) \/ StartTick(n) \/ DerivePath(n)
          \/ FetchPrice(n) \/ PushSignedMedianQuote(n) \/ SequencerGate(n)
          \/ UpdatePrice(n) \/ RunLiquidationScan(n) \/ ApplyFunding(n)

LoopSpec == LoopInit /\ [][LoopNext]_loopVars

-------------------------------------------------------------------------------
(* Properties.                                                             *)

\* No enclave is charged a funding rate twice within an interval, though the timer is
\* lost with the process, runs on validators too, and the role moves between nodes
\* (main.rs:3381-3435).
FundingSpaced ==
    \A n \in LoopNodes : \A s, t \in funded[n] : s < t => t - s >= FundingEvery
===============================================================================
