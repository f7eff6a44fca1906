------------------------------- MODULE MCCore -------------------------------
(***************************************************************************)
(* Small instances of the order book and of the election.  They share no   *)
(* state, so each behaviour runs one of them, `focus', and leaves the      *)
(* other as it starts; the fairness is that of the component that runs.    *)
(*                                                                         *)
(* Two users send every kind of order the API can produce, at two prices;  *)
(* three nodes have distinct priorities.                                   *)
(***************************************************************************)
EXTENDS MCOrderBook, MCElection

VARIABLE focus

allVars == <<focus, bookVars, elVars>>

CoreInit == focus \in {"book", "election"} /\ BookInit /\ ElectionInit

RunBook == focus = "book" /\ BookNext /\ UNCHANGED <<focus, elVars>>
RunElection == focus = "election" /\ ElectionNext /\ UNCHANGED <<focus, bookVars>>

CoreNext == RunBook \/ RunElection

\* The fairness conditions of the components, of the one that runs.
CoreFairness ==
    /\ WF_bookVars(focus = "book" /\ (MatchStep \/ Finish))
    /\ WF_elVars(focus = "election" /\ Running)

CoreSpec == CoreInit /\ [][CoreNext]_allVars /\ CoreFairness
=============================================================================
